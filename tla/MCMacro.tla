------------------------------- MODULE MCMacro -------------------------------
(* A small instance of Macro: two function keys whose names begin alike, one *)
(* named key for the host, and text that may look like a named key.          *)
EXTENDS Macro

TwoKeys == <<"F1", "F10">>
Names == <<[code |-> "ENTER", str |-> <<"E", "N">>],
           [code |-> "F1", str |-> <<"F", "1">>],
           [code |-> "F10", str |-> <<"F", "1", "0">>],
           [code |-> "EXEC", str |-> <<"E", "X">>]>>
NumberDigits == <<"1", "2">>

(* No file, and a file with a macro for F10 on two lines, after a lost one. *)
SomeFiles == {<< >>,
              <<(<<"E">>), <<"[", "M", "2", "]">>, <<"[", "F", "1", "]">>,
                <<"E", "[", "]">>>>}
==============================================================================
