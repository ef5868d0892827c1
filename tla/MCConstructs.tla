----------------------------- MODULE MCConstructs -----------------------------
(* Small windows and menus for module Constructs, on four rows of ten.     *)
EXTENDS Constructs

CONSTANT MaxSteps    (* steps in a behaviour *)

VARIABLE steps
mcvars == <<vars, steps>>

SomeWindows == {[height |-> 1, width |-> 1], [height |-> 2, width |-> 2]}
SomeMenus == {[type |-> "bar", height |-> 1, sizes |-> <<1, 0>>],
              [type |-> "list", height |-> 2, sizes |-> <<1, 1>>]}
Text == [p \in Cells |-> IF p \in {3, 12, 13, 14} THEN "a"
                         ELSE IF p \in 20 .. 26 THEN "1" ELSE Nul]

MCInit == Init /\ steps = 0
MCNext == steps < MaxSteps /\ Next /\ steps' = steps + 1
MCSpec == MCInit /\ [][MCNext]_mcvars
================================================================================
