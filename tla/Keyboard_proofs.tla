---------------------------- MODULE Keyboard_proofs ----------------------------
(***************************************************************************)
(* Proofs about module Keyboard, for every set of keys and of host         *)
(* commands, every queue size and every choice of the options: the type     *)
(* invariant, the safety invariants, and the half-duplex dialog.            *)
(***************************************************************************)
EXTENDS Keyboard, TLAPS

(* The part of the state the keys and the host commands change. *)
KbTypeOK ==
    /\ keystate \in KeyStates
    /\ indicators \subseteq Indicators
    /\ keySRC \in KbdSrc
    /\ readOp \in ReadOps \cup {NoRead}
    /\ sent \in Records \cup {NoRecord}

KbInv == /\ KbTypeOK
         /\ ErrorStateInhibits
         /\ LockedShowsXSystem
         /\ HelpNamesTheError

(* What KbInv asks of a key state and of indicators a key is about to set. *)
Consistent(ks, ind) ==
    /\ ks \in KeyStates
    /\ ind \subseteq Indicators
    /\ ks \in {"PREHELP", "POSTHELP"} => "INHIBIT" \in ind
    /\ ks = "LOCKED" => "X_SYSTEM" \in ind
    /\ ks = "PREHELP" => keySRC # "NONE"

(* The outcome of a key: the invariant, and a step of the dialog. *)
KeyOutcome == KbInv' /\ [Turns!Next]_(Turns!vars)

------------------------------------------------------------------------------
(* Setting the key state and the indicators, and no more, is a step of the *)
(* dialog that only locks or unlocks.                                      *)
LEMMA SetOutcome ==
    ASSUME NEW ks, NEW ind, KbInv, Consistent(ks, ind), Set(ks, ind)
    PROVE  KeyOutcome
<1>1. KbInv'
  BY DEF KbInv, KbTypeOK, Consistent, Set, ErrorStateInhibits,
         LockedShowsXSystem, HelpNamesTheError, Records, NoRecord
<1>2. Turns!LockOrUnlock
  BY DEF Turns!LockOrUnlock, Set, NoRecord
<1> QED BY <1>1, <1>2 DEF KeyOutcome, Turns!Next

(* A record that carries no fields is a signal. *)
LEMMA NotifyOutcome ==
    ASSUME NEW ks, NEW ind, NEW r \in Records \ {"FIELDS", "IMMEDIATE"},
           KbInv, Consistent(ks, ind), Notify(r, ks, ind)
    PROVE  KeyOutcome
<1>1. KbInv'
  BY DEF KbInv, KbTypeOK, Consistent, Notify, ErrorStateInhibits,
         LockedShowsXSystem, HelpNamesTheError, Records, NoRecord
<1>2. Turns!Signal
  BY DEF Turns!Signal, Notify, NoRecord, Records
<1> QED BY <1>1, <1>2 DEF KeyOutcome, Turns!Next

(* Sending the fields in answer to a read, from an unlocked keyboard, is *)
(* the answer of the dialog.                                             *)
LEMMA SendFieldsOutcome ==
    ASSUME NEW ks, NEW ind, KbInv, Consistent(ks, ind),
           readOp # NoRead, keystate # "LOCKED", SendFields("FIELDS", NoRead, ind)
    PROVE  KeyOutcome
<1>1. KbInv'
  BY DEF KbInv, KbTypeOK, Consistent, SendFields, ErrorStateInhibits, KeyStates,
         LockedShowsXSystem, HelpNamesTheError, Records, NoRecord, Indicators
<1>2. Turns!Answer
  BY DEF Turns!Answer, SendFields, NoRead, NoRecord
<1> QED BY <1>1, <1>2 DEF KeyOutcome, Turns!Next

(* An operator error inhibits the keyboard and names the error. *)
LEMMA ErrorOutcome ==
    ASSUME NEW ks, NEW ind, NEW src \in KbdSrc \ {"NONE"},
           KbInv, Consistent(ks, ind), OperatorError(src, ind)
    PROVE  KeyOutcome
<1>1. KbInv'
  BY DEF KbInv, KbTypeOK, Consistent, OperatorError, ErrorStateInhibits, KeyStates,
         LockedShowsXSystem, HelpNamesTheError, Records, NoRecord, Indicators
<1>2. Turns!LockOrUnlock
  BY DEF Turns!LockOrUnlock, OperatorError, NoRecord
<1> QED BY <1>1, <1>2 DEF KeyOutcome, Turns!Next

------------------------------------------------------------------------------
(* Keys that session_handle_aidkey or the keyboard acts upon in the locked *)
(* state: none of them sends fields.                                       *)
ActsWhenLocked == {"SYSREQ", "PRINT", "ATTENTION"}

(* An aid key that may send fields is only acted upon outside the locked *)
(* state.                                                                *)
LEMMA AidOutcome ==
    ASSUME NEW aid, NEW ks, NEW ind, KbInv, Consistent(ks, ind),
           keystate # "LOCKED" \/ aid \in ActsWhenLocked,
           DoAidKey(aid, ks, ind)
    PROVE  KeyOutcome
<1>1. CASE ~(readOp # NoRead \/ aid \in PseudoAids)
  BY <1>1, SetOutcome DEF DoAidKey
<1>2. CASE readOp # NoRead \/ aid \in PseudoAids
  <2> HandleAidKey(aid, ks, ind)
    BY <1>2 DEF DoAidKey
  <2> Consistent(Unlocked(ks), ind \ {"X_SYSTEM"})
    BY DEF Consistent, Unlocked, KeyStates
  <2>1. CASE aid \in {"PRINT", "RECORD_BS"} /\ Notify("NO_OP", ks, ind)
    BY <2>1, NotifyOutcome DEF Records
  <2>2. CASE aid = "SYSREQ" /\ Notify("SRQ", Unlocked(ks), ind \ {"X_SYSTEM"})
    BY <2>2, NotifyOutcome DEF Records
  <2>3. CASE aid = "ATTENTION" /\ Notify("ATN", Unlocked(ks), ind \ {"X_SYSTEM"})
    BY <2>3, NotifyOutcome DEF Records
  <2>4. CASE aid = "TESTREQ" /\ Notify("TRQ", ks, ind)
    BY <2>4, NotifyOutcome DEF Records
  <2>5. CASE aid = "HELP" /\ ks = "PREHELP" /\ Notify("HLP", "POSTHELP", ind)
    <3> Consistent("POSTHELP", ind)
      BY <2>5 DEF Consistent, KeyStates
    <3> QED BY <2>5, NotifyOutcome DEF Records
  <2>6. CASE /\ aid \in {"ENTER", "ROLL", "F", "HELP"}
             /\ SendFields("FIELDS", NoRead, ind)
    <3> readOp # NoRead /\ keystate # "LOCKED"
      BY <1>2, <2>6 DEF PseudoAids, ActsWhenLocked
    <3> QED BY <2>6, SendFieldsOutcome
  <2> QED BY <2>1, <2>2, <2>3, <2>4, <2>5, <2>6 DEF HandleAidKey
<1> QED BY <1>1, <1>2

(* A key that leaves a field moves on or enters the screen. *)
LEMMA LeaveFieldOutcome ==
    ASSUME NEW ks, NEW ind, KbInv, Consistent(ks, ind), keystate # "LOCKED",
           LeaveField(ks, ind)
    PROVE  KeyOutcome
BY SetOutcome, AidOutcome DEF LeaveField

(* Every key function, on a consistent state, has a good outcome. *)
LEMMA KeyFunctionOutcome ==
    ASSUME NEW k, NEW ks, NEW ind, KbInv, Consistent(ks, ind),
           keystate # "LOCKED" \/ k \in ActsWhenLocked,
           KeyFunction(k, ks, ind)
    PROVE  KeyOutcome
<1> DEFINE Error == \E src \in KbdSrc \ {"NONE"} : OperatorError(src, ind)
<1>1. CASE k = "RESET" /\ Set("UNLOCKED", ind \ {"INHIBIT"})
  <2> Consistent("UNLOCKED", ind \ {"INHIBIT"})
    BY DEF Consistent, KeyStates
  <2> QED BY <1>1, SetOutcome
<1>2. CASE /\ k = "ATTENTION"
           /\ DoAidKey("ATTENTION", "UNLOCKED", ind \ {"INHIBIT"})
  <2> Consistent("UNLOCKED", ind \ {"INHIBIT"})
    BY DEF Consistent, KeyStates
  <2> QED BY <1>2, AidOutcome DEF ActsWhenLocked
<1>3. CASE DoAidKey(k, ks, ind)
  BY <1>3, AidOutcome
<1>4. CASE Set(ks, ind)
  BY <1>4, SetOutcome
<1>5. CASE k = "HOME" /\ DoAidKey("RECORD_BS", ks, ind)
  BY <1>5, AidOutcome DEF ActsWhenLocked
<1>6. CASE Error
  BY <1>6, ErrorOutcome
<1>7. CASE keystate # "LOCKED" /\ LeaveField(ks, ind)
  BY <1>7, LeaveFieldOutcome
<1>8. CASE k = "INSERT" /\ Set(ks, IF "INSERT" \in ind THEN ind \ {"INSERT"}
                                                   ELSE ind \cup {"INSERT"})
  <2> Consistent(ks, IF "INSERT" \in ind THEN ind \ {"INSERT"}
                                         ELSE ind \cup {"INSERT"})
    BY DEF Consistent, Indicators
  <2> QED BY <1>8, SetOutcome
<1>9. CASE Set(ks, ind \cup {"FER"})
  <2> Consistent(ks, ind \cup {"FER"})
    BY DEF Consistent, Indicators
  <2> QED BY <1>9, SetOutcome
<1>10. CASE k \in {"END", "DELETE"}
  BY <1>10, <1>4, <1>6 DEF KeyFunction, KbdSrc
<1>11. CASE k = "BACKSPACE"
  BY <1>11, <1>4, <1>6 DEF KeyFunction, Backspace, KbdSrc
<1>12. CASE k = "CHAR"
  <2> keystate # "LOCKED"
    BY <1>12 DEF ActsWhenLocked
  <2> TypeCharacter(ks, ind)
    BY <1>12 DEF KeyFunction
  <2> QED BY <1>6, <1>7, <1>9 DEF TypeCharacter, KbdSrc
<1>13. CASE k = "FEXIT"
  BY <1>13, <1>6, <1>7 DEF KeyFunction, KbdSrc, ActsWhenLocked
<1>14. CASE k = "FMINUS"
  BY <1>14, <1>6, <1>7 DEF KeyFunction, FieldMinus, KbdSrc, ActsWhenLocked
<1>15. CASE k = "DUP"
  <2> keystate # "LOCKED"
    BY <1>15 DEF ActsWhenLocked
  <2> Duplicate(ks, ind)
    BY <1>15 DEF KeyFunction
  <2> QED BY <1>6, <1>7, <1>9 DEF Duplicate, KbdSrc
<1>16. CASE k \notin {"END", "DELETE", "BACKSPACE", "CHAR", "FEXIT", "FMINUS", "DUP"}
  BY <1>16, <1>1, <1>2, <1>3, <1>4, <1>5, <1>8 DEF KeyFunction
<1> QED BY <1>10, <1>11, <1>12, <1>13, <1>14, <1>15, <1>16

(* The field exit required state changes nothing to that. *)
LEMMA FieldExitOutcome ==
    ASSUME NEW k, NEW ks, NEW ind, KbInv, Consistent(ks, ind),
           keystate # "LOCKED" \/ k \in ActsWhenLocked,
           FieldExitRequired(k, ks, ind)
    PROVE  KeyOutcome
<1> Consistent(ks, ind \ {"FER"})
  BY DEF Consistent
<1>1. CASE Set(ks, ind \ {"FER"})
  BY <1>1, SetOutcome
<1>2. CASE KeyFunction(k, ks, ind \ {"FER"})
  BY <1>2, KeyFunctionOutcome
<1>3. CASE OperatorError("FER", ind)
  BY <1>3, ErrorOutcome DEF KbdSrc
<1> QED BY <1>1, <1>2, <1>3 DEF FieldExitRequired

(* display_do_key keeps the invariant and the dialog, whatever the key. *)
LEMMA DoKeyOutcome ==
    ASSUME NEW k, KbInv, DoKey(k)
    PROVE  KeyOutcome
<1> Consistent(keystate, indicators)
  BY DEF KbInv, KbTypeOK, Consistent, ErrorStateInhibits, LockedShowsXSystem,
         HelpNamesTheError
<1>1. CASE AssertFails \/ Denied(k)
  BY <1>1, SetOutcome DEF DoKey
<1>2. CASE ~(AssertFails \/ Denied(k))
  <2> DEFINE ks  == IF GivesWay(k) THEN "UNLOCKED" ELSE keystate
             ind == IF GivesWay(k) THEN indicators \ {"INHIBIT"} ELSE indicators
  <2>1. IF "FER" \in ind THEN FieldExitRequired(k, ks, ind)
                         ELSE KeyFunction(k, ks, ind)
    BY <1>2 DEF DoKey
  <2>2. Consistent(ks, ind)
    BY DEF Consistent, KeyStates
  <2>3. keystate # "LOCKED" \/ k \in ActsWhenLocked
    BY <1>2 DEF Denied, ActsWhenLocked
  <2> HIDE DEF ks, ind
  <2> QED BY <2>1, <2>2, <2>3, FieldExitOutcome, KeyFunctionOutcome
<1> QED BY <1>1, <1>2
------------------------------------------------------------------------------
(* A step that leaves kbVars alone but for sent, which it clears. *)
Quiet == /\ UNCHANGED <<keystate, indicators, keySRC, readOp>>
         /\ sent' = NoRecord

LEMMA QuietOutcome ==
    ASSUME KbInv, Quiet
    PROVE  KeyOutcome
<1> Consistent(keystate, indicators)
  BY DEF KbInv, KbTypeOK, Consistent, ErrorStateInhibits, LockedShowsXSystem,
         HelpNamesTheError
<1> QED BY SetOutcome DEF Quiet, Set

(* Each command of the host keeps the invariant and the dialog. *)
LEMMA WriteToDisplayOutcome ==
    ASSUME NEW lock \in BOOLEAN, NEW format \in BOOLEAN, NEW unlock \in BOOLEAN,
           NEW light \in Lights, NEW refused \in BOOLEAN, KbInv,
           WriteToDisplay(lock, format, unlock, light, refused)
    PROVE  KeyOutcome
<1> DEFINE ks  == Cc2KeyState(LockedBy(lock, format), unlock)
           ind == Cc2Indicators(XSystemBy(lock, format), light, unlock)
<1>1. Consistent(ks, ind)
  <2>1. light \in {"keep", "on", "off"}
    BY DEF Lights
  <2>2. Consistent(LockedBy(lock, format), XSystemBy(lock, format))
    BY DEF KbInv, KbTypeOK, Consistent, LockedBy, XSystemBy, ErrorStateInhibits,
           LockedShowsXSystem, HelpNamesTheError, KeyStates, Indicators
  <2>3. Consistent(LockedBy(lock, format), MessageLight(XSystemBy(lock, format), light))
    BY <2>1, <2>2 DEF Consistent, MessageLight, Indicators
  <2> QED
    BY <2>3 DEF Consistent, Cc2KeyState, Cc2Indicators, Unlocked, KeyStates
<1>2. CASE refused
  <2> Notify("ERR", ks, ind)
    BY <1>2 DEF WriteToDisplay, Notify
  <2> QED BY <1>1, NotifyOutcome DEF Records
<1>3. CASE ~refused
  <2> Set(ks, ind)
    BY <1>3 DEF WriteToDisplay, Set
  <2> QED BY <1>1, SetOutcome
<1> QED BY <1>2, <1>3

LEMMA ReadCmdOutcome ==
    ASSUME NEW op \in ReadOps, NEW lock \in BOOLEAN, NEW unlock \in BOOLEAN,
           NEW light \in Lights, KbInv, ReadCmd(op, lock, unlock, light)
    PROVE  KeyOutcome
<1> DEFINE ks  == Cc2KeyState(LockedBy(lock, FALSE), unlock)
           ind == Cc2Indicators(XSystemBy(lock, FALSE), light, unlock)
                      \ {"X_SYSTEM", "X_CLOCK"}
<1>1. /\ ks \in KeyStates
      /\ ind \subseteq Indicators
      /\ ks \in {"PREHELP", "POSTHELP"} => "INHIBIT" \in ind
      /\ ks = "PREHELP" => keySRC # "NONE"
  <2>1. light \in {"keep", "on", "off"}
    BY DEF Lights
  <2>2. Consistent(LockedBy(lock, FALSE), XSystemBy(lock, FALSE))
    BY DEF KbInv, KbTypeOK, Consistent, LockedBy, XSystemBy, ErrorStateInhibits,
           LockedShowsXSystem, HelpNamesTheError, KeyStates, Indicators
  <2>3. Consistent(LockedBy(lock, FALSE), MessageLight(XSystemBy(lock, FALSE), light))
    BY <2>1, <2>2 DEF Consistent, MessageLight, Indicators
  <2> QED
    BY <2>3 DEF Consistent, Cc2KeyState, Cc2Indicators, Unlocked, KeyStates
<1>2. /\ keystate' = Unlocked(ks)
      /\ indicators' = IF ks = "LOCKED" THEN ind \ {"INHIBIT"} ELSE ind
      /\ readOp' = op /\ sent' = NoRecord /\ keySRC' = keySRC
  BY DEF ReadCmd
<1> HIDE DEF ks, ind
<1>3. KbInv'
  BY <1>1, <1>2 DEF KbInv, KbTypeOK, ErrorStateInhibits, LockedShowsXSystem,
     HelpNamesTheError, Unlocked, KeyStates
<1>4. Turns!Read
  BY <1>1, <1>2 DEF Turns!Read, Unlocked, KeyStates, ReadOps, NoRead, NoRecord
<1> QED BY <1>3, <1>4 DEF KeyOutcome, Turns!Next

LEMMA LockForNewFormatOutcome ==
    ASSUME NEW cleared \in {{"INSERT", "INHIBIT", "FER"}, {"INSERT"}},
           KbInv, LockForNewFormat(cleared)
    PROVE  KeyOutcome
<1>1. KbInv'
  BY DEF LockForNewFormat, KbInv, KbTypeOK, ErrorStateInhibits, LockedShowsXSystem,
         HelpNamesTheError, KeyStates, Indicators
<1>2. Turns!Revoke
  BY DEF LockForNewFormat, Turns!Revoke, NoRead, NoRecord
<1> QED BY <1>1, <1>2 DEF KeyOutcome, Turns!Next

LEMMA HostOutcome ==
    ASSUME KbInv, Host
    PROVE  KeyOutcome
<1> Consistent(keystate, indicators)
  BY DEF KbInv, KbTypeOK, Consistent, ErrorStateInhibits, LockedShowsXSystem,
         HelpNamesTheError
<1>1. CASE \E lock, format, unlock, refused \in BOOLEAN, light \in Lights :
              WriteToDisplay(lock, format, unlock, light, refused)
  BY <1>1, WriteToDisplayOutcome
<1>2. CASE \E op \in ReadOps, lock, unlock \in BOOLEAN, light \in Lights :
              ReadCmd(op, lock, unlock, light)
  BY <1>2, ReadCmdOutcome
<1>3. CASE WriteErrorCode
  <2> Consistent("POSTHELP", indicators \cup {"INHIBIT"})
    BY DEF Consistent, KeyStates, Indicators
  <2> QED BY <1>3, SetOutcome DEF WriteErrorCode
<1>4. CASE ReadImmediate
  <2>1. KbInv'
    BY <1>4 DEF ReadImmediate, SendFields, KbInv, KbTypeOK, ErrorStateInhibits,
       LockedShowsXSystem, HelpNamesTheError, KeyStates, Indicators, Records
  <2>2. Turns!Peek
    BY <1>4 DEF ReadImmediate, SendFields, Turns!Peek, NoRead, NoRecord
  <2> QED BY <2>1, <2>2 DEF KeyOutcome, Turns!Next
<1>5. CASE ClearUnit
  BY <1>5, LockForNewFormatOutcome DEF ClearUnit
<1>6. CASE ClearUnitAlternate
  <2>1. CASE Notify("ERR", keystate, indicators)
    BY <2>1, NotifyOutcome DEF Records
  <2>2. CASE LockForNewFormat({"INSERT", "INHIBIT", "FER"})
    BY <2>2, LockForNewFormatOutcome
  <2> QED BY <1>6, <2>1, <2>2 DEF ClearUnitAlternate
<1>7. CASE ClearFormatTable
  BY <1>7, LockForNewFormatOutcome DEF ClearFormatTable
<1>8. CASE AnswerHost
  BY <1>8, NotifyOutcome DEF AnswerHost, Records
<1>9. CASE Invite
  <2> Consistent(keystate, indicators \ {"X_CLOCK"})
    BY DEF Consistent
  <2> QED BY <1>9, SetOutcome DEF Invite
<1>10. CASE CancelInvite
  <2> Consistent(keystate, indicators \cup {"X_CLOCK"})
    BY DEF Consistent, Indicators
  <2> QED BY <1>10, NotifyOutcome DEF CancelInvite, Records
<1>11. CASE \E light \in {"on", "off"} : MessageOpcode(light)
  <2> PICK light \in {"on", "off"} : MessageOpcode(light)
    BY <1>11
  <2> Consistent(keystate, MessageLight(indicators, light))
    BY DEF Consistent, Indicators, MessageLight
  <2> QED BY SetOutcome DEF MessageOpcode
<1> QED
  BY <1>1, <1>2, <1>3, <1>4, <1>5, <1>6, <1>7, <1>8, <1>9, <1>10, <1>11 DEF Host
------------------------------------------------------------------------------
(***************************************************************************)
(* The inductive invariant.  QueuedOnlyWhileLocked is inductive because    *)
(* every path to "wait" either found the queue empty, found the keyboard   *)
(* locked, or left both as a step to "wait" had left them.                 *)
(***************************************************************************)
QueueTypeOK == pending \in Seq(Keys) /\ Len(pending) < KEYQ_SIZE

IInv == /\ KbInv
        /\ pc \in Pcs
        /\ dataReady \in BOOLEAN
        /\ QueueTypeOK
        /\ QueuedOnlyWhileLocked

(* Every operation of the queue keeps it a sequence of keys with room. *)
LEMMA QueueOperations ==
    ASSUME QueueTypeOK,
           (\E k \in Keys : Queue!Put(k)) \/ Queue!Take \/ Queue!Flush
    PROVE  QueueTypeOK'
<1> KEYQ_SIZE \in Nat /\ KEYQ_SIZE > 1
  BY KeyboardAssumption
<1>1. CASE \E k \in Keys : Queue!Put(k)
  <2> PICK k \in Keys : Queue!Put(k)
    BY <1>1
  <2>1. CASE Queue!Room
    <3> pending' = Append(pending, k) /\ Len(pending) + 1 < KEYQ_SIZE
      BY <2>1 DEF Queue!Put, Queue!Room
    <3> QED BY DEF QueueTypeOK
  <2>2. CASE ~Queue!Room
    BY <2>2 DEF Queue!Put, QueueTypeOK
  <2> QED BY <2>1, <2>2
<1>2. CASE Queue!Take
  BY <1>2 DEF Queue!Take, QueueTypeOK
<1>3. CASE Queue!Flush
  BY <1>3 DEF Queue!Flush, QueueTypeOK
<1> QED BY <1>1, <1>2, <1>3

LEMMA InitInvariant == Init => IInv
<1> SUFFICES ASSUME Init PROVE IInv
  OBVIOUS
<1>1. QueueTypeOK
  <2> KEYQ_SIZE \in Nat /\ KEYQ_SIZE > 0
    BY KeyboardAssumption
  <2> QED BY DEF Init, QueueTypeOK
<1>2. KbInv
  BY DEF Init, KbInv, KbTypeOK, ErrorStateInhibits, LockedShowsXSystem,
         HelpNamesTheError, KeyStates, KbdSrc, NoRead, NoRecord
<1> QED BY <1>1, <1>2 DEF Init, IInv, QueuedOnlyWhileLocked, Pcs

(* One step keeps the invariant and is a step of the dialog. *)
LEMMA StepOutcome ==
    ASSUME IInv, Next
    PROVE  IInv' /\ [Turns!Next]_(Turns!vars)
<1> USE DEF IInv
<1>1. CASE HandleQueuedKey
  <2>1. KeyOutcome
    BY <1>1, DoKeyOutcome DEF HandleQueuedKey
  <2>2. QueueTypeOK'
    BY <1>1, QueueOperations DEF HandleQueuedKey
  <2>3. pc' \in {"aborted", "loop"} /\ dataReady' = dataReady
    BY <1>1 DEF HandleQueuedKey, ThenGoTo
  <2> QED BY <2>1, <2>2, <2>3 DEF KeyOutcome, Pcs, QueuedOnlyWhileLocked
<1>2. CASE PressHelp
  <2>1. KeyOutcome
    BY <1>2, DoKeyOutcome DEF PressHelp
  <2>2. /\ pending = <<>> /\ UNCHANGED <<pending, dataReady>>
        /\ pc' \in {"aborted", "wait"}
    BY <1>2 DEF PressHelp, CanDrain, ThenGoTo
  <2> QED
    BY <2>1, <2>2 DEF KeyOutcome, Pcs, QueueTypeOK, QueuedOnlyWhileLocked
<1>3. CASE AwaitEvent
  <2>1. KeyOutcome
    BY <1>3, QuietOutcome DEF AwaitEvent, Quiet
  <2> QED
    BY <1>3, <2>1 DEF KeyOutcome, AwaitEvent, CanDrain, Pcs, QueueTypeOK,
       QueuedOnlyWhileLocked
<1>4. CASE KeyEvent \/ DataEvent \/ QuitEvent
  <2>1. KeyOutcome
    BY <1>4, QuietOutcome DEF KeyEvent, DataEvent, QuitEvent, Quiet
  <2> QED
    BY <1>4, <2>1 DEF KeyOutcome, KeyEvent, DataEvent, QuitEvent, Receive, Pcs,
       QueueTypeOK, QueuedOnlyWhileLocked
<1>5. CASE \E k \in Keys : TypeKey(k)
  <2> PICK k \in Keys : TypeKey(k)
    BY <1>5
  <2>1. QueueTypeOK'
    BY QueueOperations DEF TypeKey
  <2>2. CASE ActedUponAtOnce(k)
    <3>1. KeyOutcome
      BY <2>2, DoKeyOutcome DEF TypeKey
    <3>2. pc' \in {"aborted", "keys"} /\ dataReady' = dataReady
      BY <2>2 DEF TypeKey, ThenGoTo
    <3> QED BY <2>1, <3>1, <3>2 DEF KeyOutcome, Pcs, QueuedOnlyWhileLocked
  <2>3. CASE ~ActedUponAtOnce(k)
    <3>1. KeyOutcome
      BY <2>3, QuietOutcome DEF TypeKey, Quiet
    <3>2. pc' = "keys" /\ dataReady' = dataReady
      BY <2>3 DEF TypeKey
    <3> QED BY <2>1, <3>1, <3>2 DEF KeyOutcome, Pcs, QueuedOnlyWhileLocked
  <2> QED BY <2>2, <2>3
<1>6. CASE EndOfKeys \/ EndOfRecords
  <2>1. KeyOutcome
    BY <1>6, QuietOutcome DEF EndOfKeys, EndOfRecords, Quiet
  <2> QED
    BY <1>6, <2>1 DEF KeyOutcome, EndOfKeys, EndOfRecords, Receive, Pcs,
       QueueTypeOK, QueuedOnlyWhileLocked
<1>7. CASE Host
  <2>1. KeyOutcome
    BY <1>7, HostOutcome
  <2>2. pc = "host" /\ UNCHANGED <<pc, dataReady, pending>>
    BY <1>7 DEF Host, HostStep, WriteToDisplay, ReadCmd, WriteErrorCode,
       ReadImmediate, ClearUnit, ClearUnitAlternate, ClearFormatTable,
       AnswerHost, Invite, CancelInvite, MessageOpcode
  <2> QED
    BY <2>1, <2>2 DEF KeyOutcome, QueueTypeOK, QueuedOnlyWhileLocked
<1>8. CASE Stopped
  BY <1>8 DEF Stopped, vars, KbInv, KbTypeOK, QueueTypeOK, ErrorStateInhibits,
     LockedShowsXSystem, HelpNamesTheError, QueuedOnlyWhileLocked, Turns!vars
<1> QED
  BY <1>1, <1>2, <1>3, <1>4, <1>5, <1>6, <1>7, <1>8
     DEF Next, EventLoop, Terminal

LEMMA StutterOutcome ==
    ASSUME IInv, UNCHANGED vars
    PROVE  IInv' /\ UNCHANGED Turns!vars
BY DEF IInv, vars, KbInv, KbTypeOK, QueueTypeOK, ErrorStateInhibits,
       LockedShowsXSystem, HelpNamesTheError, QueuedOnlyWhileLocked, Turns!vars

(* The inductive invariant holds in every state of every behaviour. *)
THEOREM Invariance == Spec => []IInv
<1>1. IInv /\ [Next]_vars => IInv'
  BY StepOutcome, StutterOutcome
<1> QED BY InitInvariant, <1>1, PTL DEF Spec

(* The state stays in its types: above all, the queue never holds as many  *)
(* keys as it has slots, whatever the operator types ahead.                *)
THEOREM TypeCorrect == Spec => []TypeOK
<1>1. IInv => TypeOK
  BY DEF IInv, KbInv, KbTypeOK, QueueTypeOK, TypeOK
<1> QED BY Invariance, <1>1, PTL

(* An error state always shows the input inhibited light. *)
THEOREM ErrorsInhibit == Spec => []ErrorStateInhibits
<1>1. IInv => ErrorStateInhibits
  BY DEF IInv, KbInv
<1> QED BY Invariance, <1>1, PTL

(* A locked keyboard always shows X SYSTEM. *)
THEOREM LockIsShown == Spec => []LockedShowsXSystem
<1>1. IInv => LockedShowsXSystem
  BY DEF IInv, KbInv
<1> QED BY Invariance, <1>1, PTL

(* The Help record never reports an error that did not happen. *)
THEOREM HelpIsTruthful == Spec => []HelpNamesTheError
<1>1. IInv => HelpNamesTheError
  BY DEF IInv, KbInv
<1> QED BY Invariance, <1>1, PTL

(* No typed key is left in the queue of an unlocked keyboard while the *)
(* program waits for events.                                           *)
THEOREM NoKeyLeftBehind == Spec => []QueuedOnlyWhileLocked
<1>1. IInv => QueuedOnlyWhileLocked
  BY DEF IInv
<1> QED BY Invariance, <1>1, PTL

(* The keyboard implements the half-duplex dialog of module Dialog. *)
THEOREM KeyboardIsHalfDuplex == Spec => HalfDuplex
<1>1. Init => Turns!Init
  BY DEF Init, Turns!Init, NoRead, NoRecord
<1>2. IInv /\ [Next]_vars => [Turns!Next]_(Turns!vars)
  BY StepOutcome, StutterOutcome
<1> QED BY Invariance, <1>1, <1>2, PTL DEF Spec, HalfDuplex, Turns!Spec
------------------------------------------------------------------------------
(***************************************************************************)
(* Which keys send the fields, and in which states.                        *)
(***************************************************************************)
(* No key sends fields when it resets, signals or reports an error. *)
LEMMA FieldsOfKeyFunction ==
    ASSUME NEW k, NEW ks, NEW ind, KeyFunction(k, ks, ind), sent' = "FIELDS"
    PROVE  /\ k \notin {"RESET", "ATTENTION", "SYSREQ", "PRINT"}
           /\ k = "HELP" => ks # "PREHELP"
<1>1. ASSUME NEW s, NEW i, Set(s, i)
      PROVE  FALSE
  BY <1>1 DEF Set, NoRecord
<1>2. ASSUME NEW aid, NEW s, NEW i, DoAidKey(aid, s, i)
      PROVE  /\ aid \in {"ENTER", "ROLL", "F", "HELP"}
             /\ aid = "HELP" => s # "PREHELP"
  BY <1>1, <1>2 DEF DoAidKey, HandleAidKey, Notify
<1>3. k # "RESET" /\ k # "ATTENTION"
  BY <1>1, <1>2 DEF KeyFunction
<1>4. k \in {"HELP", "SYSREQ", "PRINT"} => DoAidKey(k, ks, ind)
  BY DEF KeyFunction
<1> QED BY <1>2, <1>3, <1>4

(* display_do_key sends fields from an unlocked keyboard, or from an error *)
(* display that the option uninhibited resets first.                       *)
LEMMA FieldsOfDoKey ==
    ASSUME NEW k, keystate \in KeyStates, DoKey(k), sent' = "FIELDS"
    PROVE  keystate = "UNLOCKED" \/ (keystate = "POSTHELP" /\ Uninhibited)
<1>1. ~(AssertFails \/ Denied(k))
  BY DEF DoKey, Set, NoRecord
<1> DEFINE ks  == IF GivesWay(k) THEN "UNLOCKED" ELSE keystate
           ind == IF GivesWay(k) THEN indicators \ {"INHIBIT"} ELSE indicators
<1>2. IF "FER" \in ind THEN FieldExitRequired(k, ks, ind)
                       ELSE KeyFunction(k, ks, ind)
  BY <1>1 DEF DoKey
<1>3. \/ KeyFunction(k, ks, ind)
      \/ KeyFunction(k, ks, ind \ {"FER"})
  <2> HIDE DEF ks, ind
  <2> QED BY <1>2 DEF FieldExitRequired, Set, OperatorError, NoRecord
<1>4. /\ k \notin {"RESET", "ATTENTION", "SYSREQ", "PRINT"}
      /\ k = "HELP" => ks # "PREHELP"
  <2> HIDE DEF ks, ind
  <2> QED BY <1>3, FieldsOfKeyFunction
<1> QED BY <1>1, <1>4 DEF Denied, GivesWay, KeyStates

(* Unless uninhibited is on, no error state lets a key send the fields. *)
THEOREM ErrorsKeepTheFields == Spec => ErrorSendsNoFields
<1> DEFINE Allowed == sent' = "FIELDS" => \/ keystate = "UNLOCKED"
                                          \/ keystate = "POSTHELP" /\ Uninhibited
<1>1. ASSUME IInv, Next PROVE Allowed \/ UNCHANGED vars
  <2> keystate \in KeyStates
    BY <1>1 DEF IInv, KbInv, KbTypeOK
  <2>1. ASSUME NEW k, DoKey(k) PROVE Allowed
    BY <2>1, FieldsOfDoKey
  <2>2. CASE EventLoop \/ Terminal \/ EndOfKeys \/ EndOfRecords
    BY <2>1, <2>2 DEF EventLoop, HandleQueuedKey, PressHelp, AwaitEvent, Terminal,
       KeyEvent, DataEvent, QuitEvent, EndOfKeys, EndOfRecords, NoRecord
  <2>3. CASE \E k \in Keys : TypeKey(k)
    BY <2>1, <2>3 DEF TypeKey, NoRecord
  <2>4. CASE Host
    BY <2>4 DEF Host, WriteToDisplay, ReadCmd, WriteErrorCode, ReadImmediate,
       ClearUnit, ClearUnitAlternate, ClearFormatTable, AnswerHost, Invite,
       CancelInvite, MessageOpcode, Set, Notify, SendFields, LockForNewFormat,
       NoRecord
  <2>5. CASE Stopped
    BY <2>5 DEF Stopped
  <2> QED BY <1>1, <2>2, <2>3, <2>4, <2>5 DEF Next
<1>2. IInv /\ [Next]_vars => [Allowed]_vars
  BY <1>1
<1> QED BY Invariance, <1>2, PTL DEF Spec, ErrorSendsNoFields
------------------------------------------------------------------------------
(* While the keyboard is locked the queue only shrinks when it is flushed or *)
(* overflows, in display_do_keys; display_waitevent hands out no key of it.   *)
THEOREM KeysAreHeld == Spec => HeldWhileLocked
<1> DEFINE Held == keystate = "LOCKED" /\ Len(pending') < Len(pending)
                       => pending' = <<>> /\ pc = "keys"
<1>1. ASSUME IInv, Next PROVE Held
  <2>1. CASE EventLoop
    BY <2>1 DEF EventLoop, HandleQueuedKey, PressHelp, AwaitEvent, CanDrain
  <2>2. CASE Terminal \/ EndOfKeys \/ Host \/ EndOfRecords \/ Stopped
    <3> pending' = pending
      BY <2>2 DEF Terminal, KeyEvent, DataEvent, QuitEvent, EndOfKeys, Host,
         HostStep, WriteToDisplay, ReadCmd, WriteErrorCode, ReadImmediate,
         ClearUnit, ClearUnitAlternate, ClearFormatTable, AnswerHost, Invite,
         CancelInvite, MessageOpcode, EndOfRecords, Stopped, vars
    <3> Len(pending) \in Nat
      BY <1>1 DEF IInv, QueueTypeOK
    <3> QED OBVIOUS
  <2>3. CASE \E k \in Keys : TypeKey(k)
    <3> PICK k \in Keys : TypeKey(k)
      BY <2>3
    <3>1. pc = "keys" /\ (Queue!Put(k) \/ Queue!Flush)
      BY DEF TypeKey
    <3>2. CASE pending' = Append(pending, k)
      BY <1>1, <3>2 DEF IInv, QueueTypeOK
    <3> QED BY <3>1, <3>2 DEF Queue!Put, Queue!Flush
  <2> QED BY <1>1, <2>1, <2>2, <2>3 DEF Next
<1>2. IInv /\ [Next]_vars => [Held]_vars
  BY <1>1
<1> QED BY Invariance, <1>2, PTL DEF Spec, HeldWhileLocked
==============================================================================
