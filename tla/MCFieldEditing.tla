---------------------------- MODULE MCFieldEditing ----------------------------
(* Small formats for module FieldEditing, on a screen of four rows of five.  *)
EXTENDS FieldEditing

CONSTANT MaxKeys     (* keys pressed in a behaviour *)

VARIABLE keys
mcvars == <<vars, keys>>

F(start, len) ==
    [start |-> start, len |-> len, bypass |-> FALSE, mdt |-> FALSE, monocase |-> FALSE,
     type |-> "alpha_shift", fill |-> "no_adjust", fer |-> FALSE, auto_enter |-> FALSE,
     dup_enable |-> FALSE, part |-> "none", wordwrap |-> FALSE, nextfield |-> 0, entry |-> 0]

(* Texts: protected, upper case, right adjusted with Dup. *)
Texts == << [F(1, 2) EXCEPT !.bypass = TRUE],
            [F(6, 2) EXCEPT !.monocase = TRUE, !.type = "alpha_only"],
            [F(11, 3) EXCEPT !.fill = "right_blank", !.dup_enable = TRUE] >>

(* Numbers: signed, zero filled with field exit required. *)
Numbers == << [F(1, 3) EXCEPT !.type = "signed_num"],
              [F(6, 2) EXCEPT !.type = "num_only", !.fill = "right_zero", !.fer = TRUE,
                              !.dup_enable = TRUE],
              [F(11, 1) EXCEPT !.type = "digit_only", !.auto_enter = TRUE],
              [F(16, 1) EXCEPT !.type = "mag_reader"] >>

(* A continued field of three parts, and a field behind it. *)
Continued == << [F(1, 2) EXCEPT !.part = "first"], [F(6, 2) EXCEPT !.part = "middle"],
                [F(11, 2) EXCEPT !.part = "last"], F(16, 1) >>

(* Cursor progression: the first field is followed by the third. *)
Progression == << [F(1, 1) EXCEPT !.nextfield = 3], F(6, 1), [F(11, 1) EXCEPT !.nextfield = 2] >>

Wrapped == << [F(1, 3) EXCEPT !.part = "first", !.wordwrap = TRUE],
              [F(6, 3) EXCEPT !.part = "middle", !.wordwrap = TRUE],
              [F(11, 3) EXCEPT !.part = "last"], F(16, 1) >>

(* Empty fields, and fields with text up to the last column of one. *)
SomeText == [p \in Cells |-> IF p < 3 THEN "a" ELSE IF p \in {3, 12, 13} THEN Nul ELSE "1"]
AllContents == {[p \in Cells |-> Nul], SomeText}
AllFormats == {Texts, Numbers, Continued, Progression, Wrapped}

(* F3 sends no fields, or F11 does not, or the header is too short to say so. *)
AllHeaders == [f \in AllFormats |->
                  CASE f \in {Texts, Progression} -> <<0, 0, 0, 0, 0, 0, 4>>
                    [] f \in {Continued, Wrapped} -> <<0, 0, 0, 0, 0, 4, 0>>
                    [] f = Numbers -> <<0, 0, 0, 4>>]

MCInit == Init /\ keys = 0
MCNext == /\ Next
          /\ keys' = IF phase = "locked" THEN keys ELSE keys + 1
          /\ keys' <= MaxKeys
MCSpec == MCInit /\ [][MCNext]_mcvars
================================================================================
