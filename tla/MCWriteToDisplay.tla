--------------------------- MODULE MCWriteToDisplay ---------------------------
(* Small screens for module WriteToDisplay: three rows of four.            *)
EXTENDS WriteToDisplay

CONSTANT MaxSteps    (* orders, keys, Clear and Roll in a behaviour *)

VARIABLE steps
mcvars == <<vars, steps>>

F(len) ==
    [start |-> 0, len |-> len, bypass |-> FALSE, mdt |-> FALSE, monocase |-> FALSE,
     type |-> "alpha_shift", fill |-> "no_adjust", fer |-> FALSE, auto_enter |-> FALSE,
     dup_enable |-> FALSE, part |-> "none", wordwrap |-> FALSE, nextfield |-> 0, entry |-> 0]

SomeDefinitions == {[field |-> F(2), words |-> <<>>],
                    [field |-> [F(3) EXCEPT !.bypass = TRUE], words |-> <<"first", "wrap">>],
                    [field |-> [F(1) EXCEPT !.mdt = TRUE, !.nextfield = 1], words |-> <<"last">>]}
SomeTexts == {<<"a", Nul, "a">>}
SomeHeaders == {<<0, 0, 1>>, <<0, 0, 0, 0, 0, 0, 0, 0>>}
SomeLists == {<<"all">>, <<"colour">>}
SomeRolls == {[top |-> 0, bottom |-> 1, lines |-> -1], [top |-> 0, bottom |-> 2, lines |-> 1]}

(* A screen the host has written: text over five cells, a field that may    *)
(* not be entered, a field of two cells, and a read.                         *)
Written ==
    LET orders == << [o |-> "soh", data |-> <<0, 0, 1>>],
                     [o |-> "sf", field |-> [F(2) EXCEPT !.bypass = TRUE], words |-> <<>>],
                     [o |-> "sba", at |-> 3], [o |-> "sf", field |-> F(2), words |-> <<>>],
                     [o |-> "sba", at |-> 7], [o |-> "ra", at |-> 11, c |-> "a"],
                     [o |-> "read", op |-> "mdt"] >>
    IN RestoreScreen(Unit, orders)

MCInit ==
    /\ unit \in {Unit, Written} /\ writing = FALSE /\ control = NoControl
    /\ saved = Nothing /\ steps = 0

(* Once a screen is saved, only a step between and the restore are taken; and *)
(* after a refused order the host writes no more.                             *)
MCNext ==
    \/ /\ steps < MaxSteps /\ ~saved.is /\ steps' = steps + 1
       /\ unit.refused = "none"
       /\ AnyOrder \/ User \/ Clear \/ RollUp
    \/ /\ UNCHANGED steps /\ ~saved.is
       /\ \/ unit.refused = "none" /\ \E cc1 \in Cc1s, unlock, keep \in BOOLEAN : BeginWrite(cc1, unlock, keep)
          \/ EndWrite \/ Read \/ Save
    \/ saved.is /\ steps' = MaxSteps + 1 /\ steps <= MaxSteps /\ (Clear \/ Restore)
    \/ saved.is /\ UNCHANGED steps /\ steps = MaxSteps + 1 /\ Restore
MCSpec == MCInit /\ [][MCNext]_mcvars
================================================================================
