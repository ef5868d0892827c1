------------------------------- MODULE Dialog --------------------------------
(***************************************************************************)
(* The half-duplex dialog of a display session, as the host sees it.  A     *)
(* read gives the turn to the operator, who ends it with one record of      *)
(* fields; the host may take it back, peek at the fields without taking it, *)
(* and lock or unlock the keyboard at any time.  Signals (attention, system *)
(* request, help, errors, screens) may pass in either turn.                 *)
(***************************************************************************)
VARIABLES turn,    (* "host" or "operator"                                 *)
          locked,  (* the keyboard is locked                               *)
          record   (* what the last step sent to the host                  *)

vars == <<turn, locked, record>>

Init == /\ turn = "host"
        /\ locked = FALSE
        /\ record = "NONE"

Read == /\ turn' = "operator"
        /\ locked' = FALSE
        /\ record' = "NONE"

(* Clear Unit and Clear Format Table end a read without an answer. *)
Revoke == /\ turn' = "host"
          /\ locked' = TRUE
          /\ record' = "NONE"

Answer == /\ turn = "operator"
          /\ ~locked
          /\ turn' = "host"
          /\ locked' = TRUE
          /\ record' = "FIELDS"

Peek == /\ locked' = TRUE
        /\ record' = "IMMEDIATE"
        /\ UNCHANGED turn

LockOrUnlock == /\ locked' \in BOOLEAN
                /\ record' = "NONE"
                /\ UNCHANGED turn

Signal == /\ locked' \in BOOLEAN
          /\ record' = "SIGNAL"
          /\ UNCHANGED turn

Next == Read \/ Revoke \/ Answer \/ Peek \/ LockOrUnlock \/ Signal

Spec == Init /\ [][Next]_vars
==============================================================================
