------------------------------ MODULE MCKeyboard ------------------------------
(***************************************************************************)
(* Instances of Keyboard for TLC: the sets of keys and of host commands    *)
(* its configurations choose from.                                         *)
(***************************************************************************)
EXTENDS Keyboard

AllKeys == KeyNames
AllOps == OpNames

(* One key of each way into and out of an error state or a field, and the   *)
(* keys that answer the host: enough to fill a queue with unlike keys.      *)
QueueKeys == {"CHAR", "BACKSPACE", "FMINUS", "ENTER", "HELP", "RESET", "SYSREQ"}
QueueOps == {"READ", "WRITE_TO_DISPLAY", "WRITE_ERROR_CODE", "CLEAR_UNIT"}

(* What leads to an inhibited keyboard that is unlocked. *)
ErrorKeys == {"CHAR", "RESET"}
ErrorOps == {"WRITE_TO_DISPLAY", "WRITE_ERROR_CODE"}
==============================================================================
