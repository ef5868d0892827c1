------------------------------- MODULE Keyboard -------------------------------
(***************************************************************************)
(* The keyboard of a 5250 display station: the key state, the operator     *)
(* information indicators and the type-ahead queue of Tn5250Display, driven *)
(* by the event loop (display_waitevent, display_do_keys, display_do_key),  *)
(* by the commands of the host (session_handle_receive, process_stream)     *)
(* and by the aid keys (session_handle_aidkey).                             *)
(*                                                                         *)
(* The contents of the screen are abstracted: whether the cursor stands in  *)
(* a field that accepts a key is an arbitrary outcome of the key.  The      *)
(* message line is in module MessageLine, the macro keys are left out.      *)
(***************************************************************************)
EXTENDS Naturals, Sequences

CONSTANTS
    Keys,                  (* the keys the operator may press                *)
    HostOps,               (* the commands and opcodes the host may send     *)
    KEYQ_SIZE,             (* TN5250_DISPLAY_KEYQ_SIZE                        *)
    Uninhibited,           (* the option "uninhibited"                        *)
    DestructiveBackspace,  (* the option "destructive_backspace"              *)
    FieldMinusInChar       (* the option "field_minus_in_char"                *)

(* UP stands for UP, DOWN and RIGHT; TAB for TAB and BACKTAB; ROLL for ROLLUP *)
(* and ROLLDN; F for the 24 command keys; FEXIT for Field Exit and Field+;    *)
(* END for END, FIELDHOME; MOVE for the other keys that only move the cursor. *)
KeyNames == {"CHAR", "LEFT", "UP", "HOME", "END", "MOVE", "TAB", "BACKSPACE",
             "DELETE", "INSERT", "DUP", "FEXIT", "FMINUS", "ENTER", "ROLL",
             "F", "HELP", "RESET", "PRINT", "TESTREQ", "SYSREQ", "ATTENTION"}

OpNames == {"CLEAR_UNIT", "CLEAR_UNIT_ALTERNATE", "CLEAR_FORMAT_TABLE",
            "WRITE_TO_DISPLAY", "WRITE_ERROR_CODE", "READ", "READ_IMMEDIATE",
            "SAVE_SCREEN", "READ_SCREEN", "BAD_COMMAND", "INVITE",
            "CANCEL_INVITE", "MESSAGE"}

ASSUME KeyboardAssumption ==
    /\ Keys \subseteq KeyNames
    /\ HostOps \subseteq OpNames
    /\ KEYQ_SIZE \in Nat \ {0, 1}
    /\ Uninhibited \in BOOLEAN
    /\ DestructiveBackspace \in BOOLEAN
    /\ FieldMinusInChar \in BOOLEAN

VARIABLES
    pc,          (* where the event loop stands                              *)
    dataReady,   (* waitevent also reported data while keys are read         *)
    keystate,    (* display->keystate                                        *)
    indicators,  (* display->indicators                                      *)
    keySRC,      (* display->keySRC, the code of the last operator error     *)
    readOp,      (* session->read_opcode                                     *)
    pending,     (* display->key_queue, as module TypeAhead has it           *)
    sent         (* the record the last step sent to the host                *)

kbVars == <<keystate, indicators, keySRC, readOp, sent>>
vars == <<pc, dataReady, keystate, indicators, keySRC, readOp, pending, sent>>

Queue == INSTANCE TypeAhead WITH Key <- Keys, Size <- KEYQ_SIZE

(* HARDWARE exists too, but nothing ever sets it. *)
KeyStates == {"UNLOCKED", "LOCKED", "PREHELP", "POSTHELP"}
Indicators == {"INHIBIT", "MESSAGE_WAITING", "X_SYSTEM", "X_CLOCK", "INSERT",
               "FER"}
(* INVALID stands for the four codes of tn5250_field_valid_char. *)
KbdSrc == {"NONE", "PROTECT", "INVALID", "SIGNPOS", "NOROOM",
           "FLDM_DISALLOWED", "FER", "DUP_DISALLOWED"}
NoRead == "NONE"
(* READ_MDT_FIELDS stands for READ_MDT_FIELDS_ALT too: the keyboard cannot    *)
(* tell which fields are sent.                                              *)
ReadOps == {"READ_INPUT_FIELDS", "READ_MDT_FIELDS"}
(* FIELDS answers a read, IMMEDIATE a Read Immediate (aid code 0). *)
Records == {"FIELDS", "IMMEDIATE", "NO_OP", "SRQ", "ATN", "TRQ", "HLP", "ERR",
            "SCREEN", "CANCELLED"}
NoRecord == "NONE"
Pcs == {"loop", "wait", "keys", "host", "exit", "aborted"}

TypeOK ==
    /\ pc \in Pcs
    /\ dataReady \in BOOLEAN
    /\ keystate \in KeyStates
    /\ indicators \subseteq Indicators
    /\ keySRC \in KbdSrc
    /\ readOp \in ReadOps \cup {NoRead}
    /\ pending \in Seq(Keys) /\ Len(pending) < KEYQ_SIZE
    /\ sent \in Records \cup {NoRecord}

Init ==
    /\ pc = "loop"
    /\ dataReady = FALSE
    /\ keystate = "UNLOCKED"
    /\ indicators = {}
    /\ keySRC = "NONE"
    /\ readOp = NoRead
    /\ pending = <<>>
    /\ sent = NoRecord
------------------------------------------------------------------------------
(***************************************************************************)
(* The aid keys.  ks and ind are the key state and the indicators a key    *)
(* finds after the tests at the head of display_do_key.                    *)
(***************************************************************************)
Set(ks, ind) == /\ keystate' = ks
                /\ indicators' = ind
                /\ UNCHANGED <<keySRC, readOp>>
                /\ sent' = NoRecord

Notify(record, ks, ind) == /\ keystate' = ks
                           /\ indicators' = ind
                           /\ UNCHANGED <<keySRC, readOp>>
                           /\ sent' = record

(* session_send_fields: the answer leaves the keyboard locked. *)
SendFields(record, op, ind) ==
    /\ keystate' = "LOCKED"
    /\ indicators' = (ind \cup {"X_SYSTEM"}) \ {"INSERT"}
    /\ readOp' = op
    /\ UNCHANGED keySRC
    /\ sent' = record

(* System Request and Attention lock an unlocked keyboard, send, and unlock *)
(* a locked one, whoever had locked it.                                     *)
Unlocked(ks) == IF ks = "LOCKED" THEN "UNLOCKED" ELSE ks

HandleAidKey(aid, ks, ind) ==
    \/ /\ aid \in {"PRINT", "RECORD_BS"}
       /\ Notify("NO_OP", ks, ind)
    \/ /\ aid = "SYSREQ"
       /\ Notify("SRQ", Unlocked(ks), ind \ {"X_SYSTEM"})
    \/ /\ aid = "ATTENTION"
       /\ Notify("ATN", Unlocked(ks), ind \ {"X_SYSTEM"})
    \/ /\ aid = "TESTREQ"
       /\ Notify("TRQ", ks, ind)
    \/ /\ aid = "HELP" /\ ks = "PREHELP"
       /\ Notify("HLP", "POSTHELP", ind)
    \/ /\ \/ aid \in {"ENTER", "ROLL", "F"}
          \/ aid = "HELP" /\ ks # "PREHELP"
       /\ SendFields("FIELDS", NoRead, ind)

(* The pseudo aid codes are negative: they need no read from the host. *)
PseudoAids == {"SYSREQ", "ATTENTION", "TESTREQ"}

(* A mutant: aid keys are not held back until the host reads. *)
AidWithoutRead(aid, ks, ind) == HandleAidKey(aid, ks, ind)

DoAidKey(aid, ks, ind) ==
    IF readOp # NoRead \/ aid \in PseudoAids
    THEN HandleAidKey(aid, ks, ind)
    ELSE Set(ks, ind)
------------------------------------------------------------------------------
(* A mutant: the code of the error is not kept. *)
SilentError(src, ind) ==
    /\ keystate' = "PREHELP"
    /\ indicators' = ind \cup {"INHIBIT"}
    /\ UNCHANGED <<keySRC, readOp>>
    /\ sent' = NoRecord

(* An operator error: the key is refused and the keyboard inhibited. *)
OperatorError(src, ind) ==
    /\ keystate' = "PREHELP"
    /\ indicators' = ind \cup {"INHIBIT"}
    /\ keySRC' = src
    /\ UNCHANGED readOp
    /\ sent' = NoRecord

(* The key leaves a field: it goes on to the next one, or enters the screen. *)
LeaveField(ks, ind) == Set(ks, ind) \/ DoAidKey("ENTER", ks, ind)

(* interactive_addch; the error codes depend on the field and the character.   *)
(* '+' and '-' leave a numeric field as Field+ and Field- do.                  *)
TypeCharacter(ks, ind) ==
    \/ \E src \in {"PROTECT", "INVALID", "SIGNPOS"} : OperatorError(src, ind)
    \/ "INSERT" \in ind /\ OperatorError("NOROOM", ind)
    \/ Set(ks, ind \cup {"FER"})
    \/ LeaveField(ks, ind)

(* A destructive backspace goes on to delete even if it could not move. *)
Backspace(ks, ind) == Set(ks, ind) \/ OperatorError("PROTECT", ind)

FieldMinus(ks, ind) ==
    \/ LeaveField(ks, ind)
    \/ ~FieldMinusInChar /\ OperatorError("FLDM_DISALLOWED", ind)
    \/ FieldMinusInChar /\ OperatorError("PROTECT", ind)

Duplicate(ks, ind) ==
    \/ \E src \in {"PROTECT", "DUP_DISALLOWED"} : OperatorError(src, ind)
    \/ Set(ks, ind \cup {"FER"})
    \/ LeaveField(ks, ind)

(* The second switch of display_do_key. *)
KeyFunction(k, ks, ind) ==
    \/ /\ k = "RESET"
       /\ Set("UNLOCKED", ind \ {"INHIBIT"})
    \/ /\ k = "ATTENTION"
       /\ DoAidKey("ATTENTION", "UNLOCKED", ind \ {"INHIBIT"})
    \/ /\ k \in {"ENTER", "ROLL", "F", "HELP", "PRINT", "TESTREQ", "SYSREQ"}
       /\ DoAidKey(k, ks, ind)
    \/ /\ k \in {"LEFT", "UP", "MOVE", "TAB"}
       /\ Set(ks, ind)
    \/ /\ k = "HOME"           (* at the home position it is Record Backspace *)
       /\ Set(ks, ind) \/ DoAidKey("RECORD_BS", ks, ind)
    \/ /\ k \in {"END", "DELETE"}
       /\ Set(ks, ind) \/ OperatorError("PROTECT", ind)
    \/ /\ k = "BACKSPACE"
       /\ Backspace(ks, ind)
    \/ /\ k = "INSERT"
       /\ Set(ks, IF "INSERT" \in ind THEN ind \ {"INSERT"}
                                      ELSE ind \cup {"INSERT"})
    \/ /\ k = "CHAR"
       /\ TypeCharacter(ks, ind)
    \/ /\ k = "FEXIT"
       /\ LeaveField(ks, ind) \/ OperatorError("PROTECT", ind)
    \/ /\ k = "FMINUS"
       /\ FieldMinus(ks, ind)
    \/ /\ k = "DUP"
       /\ Duplicate(ks, ind)

(* Field exit required.  These keys clear the indicator and are acted upon  *)
(* (the code clears it after the ones of pre_FER_clear, none of which looks *)
(* at it for anything kept here).                                           *)
FerClearingKeys == {"UP", "ENTER", "FEXIT", "FMINUS", "TAB", "RESET", "HELP"}
                       \cup (IF Uninhibited THEN {"F"} ELSE {})
(* These clear it and do nothing else. *)
FerUndoKeys == {"LEFT"} \cup (IF DestructiveBackspace THEN {} ELSE {"BACKSPACE"})

FieldExitRequired(k, ks, ind) ==
    \/ /\ k \in FerUndoKeys
       /\ Set(ks, ind \ {"FER"})
    \/ /\ k \in FerClearingKeys
       /\ KeyFunction(k, ks, ind \ {"FER"})
    \/ /\ k \notin FerUndoKeys \cup FerClearingKeys
       /\ OperatorError("FER", ind)

(* The keys an error display gives way to when "uninhibited" is on: the     *)
(* cursor keys up to K_F24 in the order of terminal.h, and five by name.    *)
UninhibitKeys == {"ENTER", "TAB", "ROLL", "SYSREQ", "UP", "LEFT", "HOME",
                  "BACKSPACE", "F"}

(* A mutant: the option is not looked at. *)
GivesWayAlways(k) == keystate = "POSTHELP" /\ k \in UninhibitKeys

GivesWay(k) == keystate = "POSTHELP" /\ Uninhibited /\ k \in UninhibitKeys

Denied(k) ==
    \/ keystate = "LOCKED" /\ k \notin {"SYSREQ", "PRINT", "ATTENTION"}
    \/ keystate = "PREHELP" /\ k \notin {"RESET", "HELP", "PRINT", "ATTENTION"}
    \/ keystate = "POSTHELP" /\ ~GivesWay(k) /\ k \notin {"RESET", "ATTENTION"}

(* TN5250_ASSERT(!tn5250_display_inhibited(This)) at the head of do_key. *)
AssertFails == keystate = "UNLOCKED" /\ "INHIBIT" \in indicators

DoKey(k) ==
    IF AssertFails \/ Denied(k)
    THEN Set(keystate, indicators)
    ELSE LET ks  == IF GivesWay(k) THEN "UNLOCKED" ELSE keystate
             ind == IF GivesWay(k) THEN indicators \ {"INHIBIT"} ELSE indicators
         IN IF "FER" \in ind THEN FieldExitRequired(k, ks, ind)
                             ELSE KeyFunction(k, ks, ind)

(* A failed assertion ends the program. *)
ThenGoTo(place) == pc' = IF AssertFails THEN "aborted" ELSE place
------------------------------------------------------------------------------
(***************************************************************************)
(* The event loop of display_waitevent and display_do_keys.                *)
(***************************************************************************)
(* Two mutants: the queue is emptied into a locked keyboard; it is left      *)
(* alone in an error state too.                                             *)
DrainLocked == pending # <<>>
DrainUnlocked == pending # <<>> /\ keystate = "UNLOCKED"

CanDrain == pending # <<>> /\ keystate # "LOCKED"

(* A mutant: the key is left in the queue. *)
HandleAndKeep ==
    /\ pc = "loop"
    /\ CanDrain
    /\ DoKey(Head(pending))
    /\ ThenGoTo("loop")
    /\ UNCHANGED <<pending, dataReady>>

(* One key of the queue is acted upon, then the loop starts over. *)
HandleQueuedKey ==
    /\ pc = "loop"
    /\ CanDrain
    /\ DoKey(Head(pending))
    /\ Queue!Take
    /\ ThenGoTo("loop")
    /\ UNCHANGED dataReady

(* A mutant: the error waits for the operator. *)
AwaitHelp ==
    /\ pc = "loop"
    /\ ~CanDrain
    /\ keystate = "PREHELP"
    /\ Set(keystate, indicators)
    /\ ThenGoTo("wait")
    /\ UNCHANGED <<pending, dataReady>>

(* "don't make the user press HELP to see what the error is" *)
PressHelp ==
    /\ pc = "loop"
    /\ ~CanDrain
    /\ keystate = "PREHELP"
    /\ DoKey("HELP")
    /\ ThenGoTo("wait")
    /\ UNCHANGED <<pending, dataReady>>

AwaitEvent ==
    /\ pc = "loop"
    /\ ~CanDrain
    /\ keystate # "PREHELP"
    /\ pc' = "wait"
    /\ sent' = NoRecord
    /\ UNCHANGED <<keystate, indicators, keySRC, readOp, pending, dataReady>>

(* The connection is lost while data is received: the main loop returns. *)
Receive == pc' \in {"host", "exit"}

(* The terminal reports keys, data or both, or the user quits. *)
KeyEvent ==
    /\ pc = "wait"
    /\ pc' = "keys"
    /\ dataReady' \in BOOLEAN
    /\ sent' = NoRecord
    /\ UNCHANGED <<keystate, indicators, keySRC, readOp, pending>>

DataEvent ==
    /\ pc = "wait"
    /\ Receive
    /\ sent' = NoRecord
    /\ UNCHANGED <<keystate, indicators, keySRC, readOp, pending, dataReady>>

QuitEvent ==
    /\ pc = "wait"
    /\ pc' = "exit"
    /\ sent' = NoRecord
    /\ UNCHANGED <<keystate, indicators, keySRC, readOp, pending, dataReady>>

(* dokey in display_do_keys *)
ActedUponAtOnce(k) ==
    \/ keystate = "UNLOCKED"
    \/ keystate = "LOCKED" /\ k \in {"SYSREQ", "ATTENTION"}
    \/ keystate = "PREHELP" /\ k \in {"RESET", "HELP", "ATTENTION"}
    \/ keystate = "POSTHELP" /\ k \in {"RESET", "ATTENTION"}

TypeKey(k) ==
    /\ pc = "keys"
    /\ IF ActedUponAtOnce(k)
       THEN /\ Queue!Flush
            /\ DoKey(k)
            /\ ThenGoTo("keys")
       ELSE /\ Queue!Put(k)
            /\ sent' = NoRecord
            /\ UNCHANGED <<pc, keystate, indicators, keySRC, readOp>>
    /\ UNCHANGED dataReady

(* No more keys: data that was reported with them goes to the session     *)
(* before the queue is looked at again.                                   *)
EndOfKeys ==
    /\ pc = "keys"
    /\ IF dataReady THEN Receive ELSE pc' = "loop"
    /\ dataReady' = FALSE
    /\ sent' = NoRecord
    /\ UNCHANGED <<keystate, indicators, keySRC, readOp, pending>>
------------------------------------------------------------------------------
(***************************************************************************)
(* The host.  Each step is one command of a record (or the opcode of one); *)
(* several steps in a row are the commands of one record or several.       *)
(***************************************************************************)
HostStep(op) == /\ pc = "host"
                /\ op \in HostOps
                /\ UNCHANGED <<pc, dataReady, pending>>

(* handle_cc1: any of the seven non-zero control codes locks the keyboard. *)
(* An input field or a header in the orders locks an unlocked one.         *)
LockedBy(lock, format) ==
    IF lock \/ (format /\ keystate = "UNLOCKED") THEN "LOCKED" ELSE keystate

(* A mutant: an order locks without the light. *)
XSystemByCc1(lock, format) ==
    IF lock THEN indicators \cup {"X_SYSTEM"} ELSE indicators

XSystemBy(lock, format) ==
    IF lock \/ format THEN indicators \cup {"X_SYSTEM"} ELSE indicators

(* handle_cc2: the message light, and the unlock bit. *)
MessageLight(ind, light) ==
    CASE light = "on"   -> ind \cup {"MESSAGE_WAITING"}
      [] light = "off"  -> ind \ {"MESSAGE_WAITING"}
      [] light = "keep" -> ind

Cc2Indicators(ind, light, unlock) ==
    MessageLight(ind, light) \ (IF unlock THEN {"X_SYSTEM"} ELSE {})

Cc2KeyState(ks, unlock) == IF unlock THEN Unlocked(ks) ELSE ks

Lights == {"keep"} \cup (IF "MESSAGE" \in HostOps THEN {"on", "off"} ELSE {})

(* An order that is refused skips the rest of the record, but CC2 is       *)
(* processed all the same.                                                 *)
WriteToDisplay(lock, format, unlock, light, refused) ==
    /\ HostStep("WRITE_TO_DISPLAY")
    /\ keystate' = Cc2KeyState(LockedBy(lock, format), unlock)
    /\ indicators' = Cc2Indicators(XSystemBy(lock, format), light, unlock)
    /\ sent' = IF refused THEN "ERR" ELSE NoRecord
    /\ UNCHANGED <<keySRC, readOp>>

(* The error display: the operator has to reset it. *)
WriteErrorCode ==
    /\ HostStep("WRITE_ERROR_CODE")
    /\ Set("POSTHELP", indicators \cup {"INHIBIT"})

(* A mutant: every read lifts the inhibition, one in an error state too. *)
ReadClearsInhibit(op, lock, unlock, light) ==
    /\ HostStep("READ")
    /\ keystate' = Unlocked(Cc2KeyState(LockedBy(lock, FALSE), unlock))
    /\ indicators' = Cc2Indicators(XSystemBy(lock, FALSE), light, unlock)
                         \ {"X_SYSTEM", "X_CLOCK", "INHIBIT"}
    /\ readOp' = op
    /\ sent' = NoRecord
    /\ UNCHANGED keySRC

(* A read unlocks a locked keyboard, and then lifts the inhibition too. *)
ReadCmd(op, lock, unlock, light) ==
    /\ HostStep("READ")
    /\ LET ks  == Cc2KeyState(LockedBy(lock, FALSE), unlock)
           ind == Cc2Indicators(XSystemBy(lock, FALSE), light, unlock)
                      \ {"X_SYSTEM", "X_CLOCK"}
       IN /\ keystate' = Unlocked(ks)
          /\ indicators' = IF ks = "LOCKED" THEN ind \ {"INHIBIT"} ELSE ind
    /\ readOp' = op
    /\ sent' = NoRecord
    /\ UNCHANGED keySRC

(* The fields are sent at once; the read that was pending stays pending. *)
ReadImmediate ==
    /\ HostStep("READ_IMMEDIATE")
    /\ SendFields("IMMEDIATE", readOp, indicators)

LockForNewFormat(cleared) ==
    /\ keystate' = "LOCKED"
    /\ indicators' = (indicators \cup {"X_SYSTEM"}) \ cleared
    /\ readOp' = NoRead
    /\ sent' = NoRecord
    /\ UNCHANGED keySRC

ClearUnit ==
    /\ HostStep("CLEAR_UNIT")
    /\ LockForNewFormat({"INSERT", "INHIBIT", "FER"})

(* The parameter must be 0x00 or 0x80. *)
ClearUnitAlternate ==
    /\ HostStep("CLEAR_UNIT_ALTERNATE")
    /\ \/ LockForNewFormat({"INSERT", "INHIBIT", "FER"})
       \/ Notify("ERR", keystate, indicators)

ClearFormatTable ==
    /\ HostStep("CLEAR_FORMAT_TABLE")
    /\ LockForNewFormat({"INSERT"})

(* Commands that only answer the host: the screen with the pending read    *)
(* appended (Save Screen), the characters (Read Screen) or the reply to a  *)
(* 5250 Query, an error.                                                   *)
AnswerHost ==
    \/ HostStep("SAVE_SCREEN") /\ Notify("SCREEN", keystate, indicators)
    \/ HostStep("READ_SCREEN") /\ Notify("NO_OP", keystate, indicators)
    \/ HostStep("BAD_COMMAND") /\ Notify("ERR", keystate, indicators)

(* The opcodes of a record.  session->invited is written and never read.   *)
Invite ==
    /\ HostStep("INVITE")
    /\ Set(keystate, indicators \ {"X_CLOCK"})

CancelInvite ==
    /\ HostStep("CANCEL_INVITE")
    /\ Notify("CANCELLED", keystate, indicators \cup {"X_CLOCK"})

MessageOpcode(light) ==
    /\ HostStep("MESSAGE")
    /\ Set(keystate, MessageLight(indicators, light))

(* No record is left: session_main_loop calls waitevent again. *)
EndOfRecords ==
    /\ pc = "host"
    /\ pc' = "loop"
    /\ sent' = NoRecord
    /\ UNCHANGED <<keystate, indicators, keySRC, readOp, pending, dataReady>>

(* The program has ended. *)
Stopped == pc \in {"exit", "aborted"} /\ UNCHANGED vars
------------------------------------------------------------------------------
EventLoop == HandleQueuedKey \/ PressHelp \/ AwaitEvent
Terminal == KeyEvent \/ DataEvent \/ QuitEvent
Host ==
    \/ \E lock, format, unlock, refused \in BOOLEAN, light \in Lights :
          WriteToDisplay(lock, format, unlock, light, refused)
    \/ \E op \in ReadOps, lock, unlock \in BOOLEAN, light \in Lights :
          ReadCmd(op, lock, unlock, light)
    \/ WriteErrorCode
    \/ ReadImmediate
    \/ ClearUnit
    \/ ClearUnitAlternate
    \/ ClearFormatTable
    \/ AnswerHost
    \/ Invite
    \/ CancelInvite
    \/ \E light \in {"on", "off"} : MessageOpcode(light)

Next == \/ EventLoop
        \/ Terminal
        \/ \E k \in Keys : TypeKey(k)
        \/ EndOfKeys
        \/ Host
        \/ EndOfRecords
        \/ Stopped

Spec == Init /\ [][Next]_vars

(* The program runs: the loop goes on whenever it need not wait, the keys  *)
(* that were typed at one time and the records received at one time end.   *)
Fairness == WF_vars(EventLoop) /\ WF_vars(EndOfKeys) /\ WF_vars(EndOfRecords)

FairSpec == Spec /\ Fairness
------------------------------------------------------------------------------
(***************************************************************************)
(* Safety.                                                                 *)
(***************************************************************************)
Running == pc \notin {"exit", "aborted"}

(* In an error state the input inhibited light is on, however the host and  *)
(* the operator interleave: no path leaves the error state silently shown.  *)
ErrorStateInhibits == keystate \in {"PREHELP", "POSTHELP"} => "INHIBIT" \in indicators

(* The operator of a locked keyboard sees why: X SYSTEM is lit.  The light   *)
(* is set and cleared in ten places, the key state in as many others.        *)
LockedShowsXSystem == keystate = "LOCKED" => "X_SYSTEM" \in indicators

(* The Help record sent from the pre-help state names an operator error. *)
HelpNamesTheError == keystate = "PREHELP" => keySRC # "NONE"

(* The program only waits for the operator with keys in its queue while the *)
(* keyboard is locked: no typed key is left behind when it unlocks.         *)
QueuedOnlyWhileLocked == pc = "wait" /\ pending # <<>> => keystate = "LOCKED"

(* The assertion at the head of display_do_key, stated of every key about   *)
(* to be acted upon: an unlocked keyboard is not inhibited.                 *)
AssertionHolds == pc # "aborted"

(* Keys typed ahead stay queued while the keyboard is locked: they are not  *)
(* handed to display_do_key, which would refuse them with a beep.           *)
HeldWhileLocked ==
    [][keystate = "LOCKED" /\ Len(pending') < Len(pending) => pending' = <<>>
                                                    /\ pc = "keys"]_vars

(* An error keeps the screen from the host: unless the option uninhibited    *)
(* allows it, the fields are sent by a key only from an unlocked keyboard,   *)
(* whatever was typed ahead, read or reset in the meantime.                  *)
ErrorSendsNoFields ==
    [][sent' = "FIELDS" => \/ keystate = "UNLOCKED"
                           \/ keystate = "POSTHELP" /\ Uninhibited]_vars

------------------------------------------------------------------------------
(***************************************************************************)
(* Liveness.                                                               *)
(***************************************************************************)
(* An operator error made while the host waits for input reports itself:    *)
(* the pre-help state is left without a key of the operator.                *)
HelpIsAutomatic ==
    (keystate = "PREHELP" /\ readOp # NoRead)
        ~> (keystate # "PREHELP" \/ readOp = NoRead \/ ~Running)

(* Typed-ahead keys are all acted upon or dropped once the keyboard is not  *)
(* locked, unless acting upon one of them locks it again.                   *)
QueueIsServed ==
    (pending # <<>> /\ keystate # "LOCKED")
        ~> (pending = <<>> \/ keystate = "LOCKED" \/ ~Running)
------------------------------------------------------------------------------
(* The terminal and the host take turns (module Dialog). *)
Turns == INSTANCE Dialog WITH
             turn   <- IF readOp = NoRead THEN "host" ELSE "operator",
             locked <- keystate = "LOCKED",
             record <- CASE sent \in {"FIELDS", "IMMEDIATE"} -> sent
                         [] sent = NoRecord -> "NONE"
                         [] OTHER -> "SIGNAL"

(* The dialog with the host is half duplex: fields go to the host only in    *)
(* answer to a read it still waits for, and never from a locked keyboard.    *)
HalfDuplex == Turns!Spec
==============================================================================
