----------------------------- MODULE Display_proofs -----------------------------
(***************************************************************************)
(* Proofs about the two parts of the display that keep state of their own    *)
(* beside the screen.  The keys: the type-ahead ring of module KeyRing,      *)
(* alone, is the first-in first-out queue of module TypeAhead, for every     *)
(* size of the ring and every set of keys; and the buffer of a recording     *)
(* stays intact, for every table of keys, every macro file and every size    *)
(* of the buffer and of the ring.  The message line: the message, the copy   *)
(* of the row it covers and the inhibit light go together, for every screen  *)
(* and every text.                                                           *)
(***************************************************************************)
EXTENDS Macro, MessageLine, SequenceTheorems, TLAPS

IInv == TypeOK /\ NoUnwrittenSlot

(* The keys in the queue are the Count slots from head on. *)
LEMMA CountInRange ==
    ASSUME TypeOK
    PROVE  /\ Count \in 0 .. KEYQ_SIZE - 1
           /\ \A i \in 1 .. Count : SlotOf(i) \in Index
           /\ Pending = [i \in 1 .. Count |-> slots[SlotOf(i)]]
           /\ Len(Pending) = Count
           /\ DOMAIN Pending = 1 .. Count
<1> KEYQ_SIZE \in Nat /\ KEYQ_SIZE > 1
  BY RingAssumption
<1>1. Count \in 0 .. KEYQ_SIZE - 1
  BY DEF TypeOK, Index, Count
<1>2. \A i \in 1 .. Count : SlotOf(i) \in Index
  BY <1>1 DEF TypeOK, Index, SlotOf
<1> QED BY <1>1, <1>2 DEF Pending

(* The ring is a sequence of keys, and has room for one more. *)
LEMMA PendingIsQueue ==
    ASSUME IInv
    PROVE  Pending \in Seq(Key) /\ Len(Pending) < KEYQ_SIZE
<1> KEYQ_SIZE \in Nat
  BY RingAssumption
<1>1. \A i \in 1 .. Count : Pending[i] \in Key
  BY DEF IInv, NoUnwrittenSlot
<1> QED BY <1>1, CountInRange DEF IInv

(* Storing a key appends it, or empties a queue without room. *)
LEMMA EnqueueIsPut ==
    ASSUME IInv, NEW k \in Key, Enqueue(k)
    PROVE  IInv' /\ Queue!Put(k)
<1> KEYQ_SIZE \in Nat /\ KEYQ_SIZE > 1
  BY RingAssumption
<1>1. TypeOK'
  BY DEF IInv, TypeOK, Enqueue, After, Index
<1>2. Pending \in Seq(Key) /\ Len(Pending) = Count
  BY PendingIsQueue, CountInRange DEF IInv
<1>3. CASE Count + 1 < KEYQ_SIZE
  <2>1. Count' = Count + 1
    BY <1>3 DEF IInv, TypeOK, Index, Count, Enqueue, After
  <2>2. \A i \in 1 .. Count : SlotOf(i)' = SlotOf(i) /\ SlotOf(i) # tail
    BY <1>3 DEF IInv, TypeOK, Index, SlotOf, Count, Enqueue
  <2>3. \A i \in Nat : i = Count + 1 => SlotOf(i)' = tail
    BY <1>3, CountInRange DEF IInv, TypeOK, Index, SlotOf, Count, Enqueue
  <2>4. \A i \in 1 .. Count : slots'[SlotOf(i)'] = slots[SlotOf(i)]
    BY <2>2, CountInRange DEF IInv, TypeOK, Enqueue
  <2>5. \A i \in Nat : i = Count + 1 => slots'[SlotOf(i)'] = k
    BY <2>3 DEF IInv, TypeOK, Enqueue
  <2>6. /\ Len(Pending') = Count + 1
        /\ Pending' = [i \in 1 .. Count + 1 |-> slots'[SlotOf(i)']]
    BY <1>1, <2>1, CountInRange DEF Pending, IInv
  <2>7. Pending' = Append(Pending, k)
    <3>1. \A i \in 1 .. Count : Pending'[i] = Pending[i]
      BY <2>4, <2>6, CountInRange DEF IInv
    <3>2. Pending'[Count + 1] = k
      BY <2>5, <2>6, CountInRange DEF IInv
    <3>3. \A i \in 1 .. Count + 1 : Pending'[i] \in Key
      BY <1>2, <3>1, <3>2
    <3>4. Pending' \in Seq(Key)
      BY <2>6, <3>3, CountInRange DEF IInv
    <3>5. /\ Append(Pending, k) \in Seq(Key)
          /\ Len(Append(Pending, k)) = Count + 1
          /\ \A i \in 1 .. Count + 1 : Append(Pending, k)[i] = Pending'[i]
      <4> HIDE DEF Pending
      <4> QED BY <1>2, <3>1, <3>2, AppendProperties, CountInRange DEF IInv
    <3> HIDE DEF Pending
    <3> QED BY <2>6, <3>4, <3>5, SeqEqual
  <2>8. NoUnwrittenSlot'
    BY <1>2, <2>1, <2>7 DEF NoUnwrittenSlot
  <2> QED BY <1>1, <1>2, <1>3, <2>7, <2>8 DEF IInv, Queue!Put, Queue!Room
<1>4. CASE Count + 1 = KEYQ_SIZE
  <2>1. Count' = 0
    BY <1>4 DEF IInv, TypeOK, Index, Count, Enqueue, After
  <2>2. Len(Pending') = 0 /\ Pending' \in Seq(Key)
    BY <1>1, <2>1, CountInRange DEF IInv, Pending
  <2>3. Pending' = <<>>
    BY <2>2, EmptySeq
  <2>4. NoUnwrittenSlot'
    BY <2>1 DEF NoUnwrittenSlot
  <2> QED BY <1>1, <1>2, <1>4, <2>3, <2>4 DEF IInv, Queue!Put, Queue!Room
<1> QED BY <1>3, <1>4, CountInRange DEF IInv

(* Handing out the key at head takes the oldest one. *)
LEMMA DequeueIsTake ==
    ASSUME IInv, Dequeue
    PROVE  IInv' /\ Queue!Take
<1> KEYQ_SIZE \in Nat /\ KEYQ_SIZE > 1
  BY RingAssumption
<1>1. TypeOK'
  BY DEF IInv, TypeOK, Dequeue, After, Index
<1>2. Pending \in Seq(Key) /\ Len(Pending) = Count
  BY PendingIsQueue, CountInRange DEF IInv
<1>3. Count > 0 /\ Count' = Count - 1
  BY DEF IInv, TypeOK, Index, Count, Dequeue, After
<1>4. \A i \in 1 .. Count - 1 : SlotOf(i)' = SlotOf(i + 1)
  BY DEF IInv, TypeOK, Index, SlotOf, Count, Dequeue, After
<1>5. /\ Len(Pending') = Count - 1
      /\ Pending' = [i \in 1 .. Count - 1 |-> slots'[SlotOf(i)']]
  BY <1>1, <1>3, CountInRange DEF Pending, IInv
<1>6. \A i \in 1 .. Count - 1 : Pending'[i] = Pending[i + 1]
  BY <1>4, <1>5, CountInRange DEF IInv, Dequeue
<1>7. Pending' = Tail(Pending)
  <2>1. \A i \in 1 .. Count - 1 : Pending'[i] \in Key
    BY <1>2, <1>3, <1>6
  <2>2. Pending' \in Seq(Key)
    BY <1>1, <1>3, <1>5, <2>1, CountInRange DEF IInv
  <2>3. /\ Tail(Pending) \in Seq(Key)
        /\ Len(Tail(Pending)) = Count - 1
        /\ \A i \in 1 .. Count - 1 : Tail(Pending)[i] = Pending'[i]
    BY <1>2, <1>3, <1>6, EmptySeq, HeadTailProperties
  <2> QED BY <1>5, <2>2, <2>3, SeqEqual
<1>8. NoUnwrittenSlot'
  BY <1>2, <1>3, <1>7, <1>6 DEF NoUnwrittenSlot
<1> QED BY <1>1, <1>2, <1>3, <1>7, <1>8 DEF IInv, Queue!Take

(* Resetting the indices drops every key. *)
LEMMA ClearIsFlush ==
    ASSUME IInv, Clear
    PROVE  IInv' /\ Queue!Flush
<1> KEYQ_SIZE \in Nat /\ KEYQ_SIZE > 1
  BY RingAssumption
<1>1. TypeOK'
  BY DEF IInv, TypeOK, Clear, Index
<1>2. Count' = 0
  BY DEF Clear, Count
<1> QED BY <1>1, <1>2 DEF IInv, Pending, NoUnwrittenSlot, Queue!Flush

LEMMA InitInvariant == Init => IInv /\ Queue!Init
<1> SUFFICES ASSUME Init PROVE IInv /\ Queue!Init
  OBVIOUS
<1> KEYQ_SIZE \in Nat /\ KEYQ_SIZE > 1
  BY RingAssumption
<1>1. TypeOK
  BY DEF Init, TypeOK, Index
<1>2. Count = 0
  BY DEF Init, Count
<1> QED BY <1>1, <1>2 DEF IInv, Pending, NoUnwrittenSlot, Queue!Init

LEMMA StepIsQueueStep ==
    ASSUME IInv, [Next]_vars
    PROVE  IInv' /\ [Queue!Next]_Pending
<1>1. CASE \E k \in Key : Enqueue(k)
  BY <1>1, EnqueueIsPut DEF Queue!Next
<1>2. CASE Dequeue
  BY <1>2, DequeueIsTake DEF Queue!Next
<1>3. CASE Clear
  BY <1>3, ClearIsFlush DEF Queue!Next
<1>4. CASE UNCHANGED vars
  BY <1>4 DEF vars, IInv, TypeOK, NoUnwrittenSlot, Pending, Count, SlotOf
<1> QED BY <1>1, <1>2, <1>3, <1>4 DEF Next

THEOREM Invariance == Spec => []IInv
BY InitInvariant, StepIsQueueStep, PTL DEF Spec

(* The two indices stay inside the array. *)
THEOREM TypeCorrect == Spec => []TypeOK
<1>1. IInv => TypeOK
  BY DEF IInv
<1> QED BY Invariance, <1>1, PTL

(* display_waitevent never hands display_do_key what calloc left in a slot. *)
THEOREM OnlyWrittenSlots == Spec => []NoUnwrittenSlot
<1>1. IInv => NoUnwrittenSlot
  BY DEF IInv
<1> QED BY Invariance, <1>1, PTL

(* A ring of any size is a first-in first-out queue, which loses its keys  *)
(* when one more is stored than it has room for.                           *)
THEOREM RingIsFifo == Spec => FifoQueue
BY Invariance, InitInvariant, StepIsQueueStep, PTL DEF Spec, FifoQueue, Queue!Spec
------------------------------------------------------------------------------
(* Recording and playing exclude each other from the moment either is      *)
(* asked for, and the recorded keys are a sequence as long as the index.   *)
IntactBuffer(m) ==
    /\ m.rstate \in {0, 1, 2}
    /\ m.rstate # 0 => m.estate = 0
    /\ m.rstate = 2 => /\ m.fctnkey \in Numbers
                       /\ m.fctnkey \in DOMAIN m.data
                       /\ m.data[m.fctnkey] \in Seq(Typable)
                       /\ m.tle = Len(m.data[m.fctnkey])

(* The fields of Tn5250Macro. *)
IsMac(m) ==
    DOMAIN m = {"rstate", "estate", "fctnkey", "tle", "data", "file"}

MacInv == IsMac(mac) /\ IntactBuffer(mac)

LEMMA AppendToWhole ==
    ASSUME NEW S, NEW s \in Seq(S), NEW k \in S
    PROVE  /\ Append(SubSeq(s, 1, Len(s)), k) \in Seq(S)
           /\ Len(Append(SubSeq(s, 1, Len(s)), k)) = Len(s) + 1
  OBVIOUS

(* Recording a key that was typed keeps the buffer intact. *)
LEMMA RecKeyIntact ==
    ASSUME NEW m, IsMac(m), IntactBuffer(m), NEW k \in Typable
    PROVE  IsMac(RecKey(m, k)) /\ IntactBuffer(RecKey(m, k))
<1>1. CASE m.rstate = 2 /\ k # "MEMO" /\ m.tle < BUFSIZE
  <2> DEFINE f == m.fctnkey
             r == RecKey(m, k)
  <2>1. r = [m EXCEPT !.data[m.fctnkey] = Append(SubSeq(@, 1, m.tle), k),
                      !.tle = @ + 1]
    BY <1>1 DEF RecKey
  <2>2. /\ r.rstate = m.rstate /\ r.estate = m.estate
        /\ r.fctnkey = f /\ r.tle = m.tle + 1 /\ r.file = m.file
        /\ r.data = [m.data EXCEPT ![f] = Append(SubSeq(@, 1, m.tle), k)]
        /\ IsMac(r)
    BY <2>1 DEF IsMac
  <2>3. r.data[f] = Append(SubSeq(m.data[f], 1, Len(m.data[f])), k)
    BY <2>2, <1>1 DEF IntactBuffer
  <2>4. DOMAIN r.data = DOMAIN m.data
    BY <2>2
  <2>5. /\ r.data[f] \in Seq(Typable)
        /\ Len(r.data[f]) = Len(m.data[f]) + 1
    BY <2>3, <1>1, AppendToWhole DEF IntactBuffer
  <2> QED BY <1>1, <2>2, <2>4, <2>5 DEF IntactBuffer
<1>2. CASE ~(m.rstate = 2 /\ k # "MEMO" /\ m.tle < BUFSIZE)
  BY <1>2 DEF RecKey
<1> QED BY <1>1, <1>2

(* So does whatever a key does to the macros. *)
LEMMA ActedIntact ==
    ASSUME NEW m, IsMac(m), IntactBuffer(m), NEW k
    PROVE  IsMac(Acted(m, k)) /\ IntactBuffer(Acted(m, k))
<1>1. CASE k \in {"MEMO", "EXEC"}
  <2>1. Acted(m, k) = KfMacro(m, k)
    BY <1>1 DEF Acted
  <2>2. /\ IsMac(StartDef(m)) /\ (m.estate = 0 => IntactBuffer(StartDef(m)))
        /\ IsMac(EndDef(m)) /\ IntactBuffer(EndDef(m))
    BY DEF StartDef, EndDef, IsMac, IntactBuffer
  <2>3. /\ IsMac(StartExec(m)) /\ (m.rstate = 0 => IntactBuffer(StartExec(m)))
        /\ IsMac(EndExec(m)) /\ IntactBuffer(EndExec(m))
    BY DEF StartExec, EndExec, IsMac, IntactBuffer
  <2> QED BY <2>1, <2>2, <2>3 DEF KfMacro
<1>2. CASE k \notin {"MEMO", "EXEC"} /\ \E n \in Numbers : FKeys[n] = k
  <2> DEFINE n == CHOOSE i \in Numbers : FKeys[i] = k
  <2>1. n \in Numbers
    BY <1>2
  <2>2. Acted(m, k) = IF m.rstate = 1 THEN RecFunct(m, n)
                      ELSE IF m.estate = 1 THEN ExecFunct(m, n) ELSE m
    BY <1>2 DEF Acted
  <2>3. ASSUME m.rstate = 1 PROVE IsMac(RecFunct(m, n)) /\ IntactBuffer(RecFunct(m, n))
    <3> DEFINE r == RecFunct(m, n)
               d == [i \in Numbers |-> IF i = n THEN Absent ELSE Loaded(m.file)[i]]
    <3>1. r = [m EXCEPT !.rstate = 2, !.fctnkey = n, !.tle = 0, !.data = d]
      BY DEF RecFunct
    <3> HIDE DEF d, r, n
    <3>2. /\ IsMac(r) /\ r.rstate = 2 /\ r.fctnkey = n /\ r.tle = 0
          /\ r.data = d /\ r.estate = m.estate
      BY <3>1 DEF IsMac
    <3>3. d[n] = << >> /\ n \in DOMAIN d
      BY <2>1 DEF d, Absent
    <3>4. m.estate = 0
      BY <2>3 DEF IntactBuffer
    <3>5. IntactBuffer(r)
      BY <3>2, <3>3, <3>4, <2>1 DEF IntactBuffer
    <3> QED BY <3>2, <3>5 DEF r
  <2>4. ASSUME m.estate = 1 PROVE IsMac(ExecFunct(m, n)) /\ IntactBuffer(ExecFunct(m, n))
    <3>1. m.rstate = 0
      BY <2>4 DEF IntactBuffer
    <3> HIDE DEF n
    <3>2. IsMac(ExecFunct(m, n)) /\ ExecFunct(m, n).rstate = 0
      BY <3>1 DEF ExecFunct, IsMac
    <3> QED BY <3>2 DEF IntactBuffer
  <2> HIDE DEF n
  <2> QED BY <2>2, <2>3, <2>4
<1>3. CASE k \notin {"MEMO", "EXEC"} /\ ~\E n \in Numbers : FKeys[n] = k
  BY <1>3 DEF Acted
<1> QED BY <1>1, <1>2, <1>3

LEMMA DoKeyIntact ==
    ASSUME NEW m, IsMac(m), IntactBuffer(m), NEW k, DoKey(m, k)
    PROVE  MacInv'
  BY ActedIntact DEF DoKey, MacInv, IsMac, IntactBuffer

LEMMA InitIntact == MacroInit => MacInv
  BY DEF MacroInit, MacInv, IsMac, IntactBuffer

LEMMA NextIntact == MacInv /\ [MacroNext]_allVars => MacInv'
<1> SUFFICES ASSUME MacInv, [MacroNext]_allVars PROVE MacInv'
  OBVIOUS
<1>1. ASSUME NEW k \in Typable, TypeKey(k) PROVE MacInv'
  <2>1. IsMac(RecKey(mac, k)) /\ IntactBuffer(RecKey(mac, k))
    BY RecKeyIntact DEF MacInv
  <2>2. CASE mac' = RecKey(mac, k)
    BY <2>1, <2>2 DEF MacInv, IsMac, IntactBuffer
  <2>3. CASE DoKey(RecKey(mac, k), k)
    BY <2>1, <2>3, DoKeyIntact
  <2> QED BY <1>1, <2>2, <2>3 DEF TypeKey, LoopKey
<1>2. CASE Play
  <2> DEFINE keys == mac.data[mac.fctnkey]
             m == [mac EXCEPT !.tle = @ + 1,
                              !.estate = IF mac.tle + 1 = Len(keys) THEN 0 ELSE 3]
             k == keys[mac.tle + 1]
  <2>1. mac.rstate = 0
    BY <1>2 DEF Play, MacInv, IntactBuffer
  <2>2. IsMac(m) /\ m.rstate = 0
    BY <2>1 DEF MacInv, IsMac
  <2>3. LoopKey(m, k)
    BY <1>2 DEF Play
  <2> HIDE DEF m, k
  <2>4. RecKey(m, k) = m /\ IntactBuffer(m)
    BY <2>2 DEF RecKey, IntactBuffer
  <2>5. CASE mac' = RecKey(m, k)
    BY <2>2, <2>4, <2>5 DEF MacInv, IsMac, IntactBuffer
  <2>6. CASE DoKey(RecKey(m, k), k)
    BY <2>2, <2>4, <2>6, DoKeyIntact
  <2> QED BY <2>3, <2>5, <2>6 DEF LoopKey
<1>3. CASE PlayNothing
  BY <1>3 DEF PlayNothing, EndExec, MacInv, IsMac, IntactBuffer
<1>4. CASE Serve
  BY <1>4, DoKeyIntact DEF Serve, MacInv
<1>5. CASE KeyEvent \/ NoMoreKeys \/ HostKeyboard \/ UNCHANGED allVars
  BY <1>5 DEF KeyEvent, NoMoreKeys, HostKeyboard, allVars, macroVars, MacInv,
              IsMac, IntactBuffer
<1> QED BY <1>1, <1>2, <1>3, <1>4, <1>5 DEF MacroNext

(* A recording is never disturbed: for every table, file and size, its     *)
(* buffer exists and holds what the shared index says.                     *)
THEOREM RecordingStaysIntact == MacroSpec => []RecordingIntact
<1>1. MacInv => RecordingIntact
  BY DEF MacInv, IntactBuffer, RecordingIntact
<1> QED BY <1>1, InitIntact, NextIntact, PTL DEF MacroSpec

------------------------------------------------------------------------------
(* The message line, for screens of any height and any texts and messages. *)

(* What the one error since the light went on has covered is what is saved, *)
(* and the row it was in is still the message line.                         *)
CoveredIsSaved ==
    covered # Nothing => /\ saved # Nothing
                         /\ covered.row = MsgLine
                         /\ covered.text = saved.text
                         /\ saved.wide = wide

LineIInv == LineTypeOK /\ MessageNeedsLight /\ CoveredIsSaved

(* The message line is a row of the screen. *)
LEMMA MsgLineIsRow ==
    ASSUME LineTypeOK
    PROVE  MsgLine \in 1 .. Height /\ MsgLine \in Nat
BY MessageLineAssumption DEF LineTypeOK, MsgLine, Height

LEMMA LineInitInvariant == LineInit => LineIInv
<1> SUFFICES ASSUME LineInit PROVE LineIInv
  OBVIOUS
<1>1. Height = Height80 /\ 0 \in HeaderRows
  BY MessageLineAssumption DEF LineInit, Height, HeaderRows
<1>2. LineTypeOK
  BY <1>1 DEF LineInit, LineTypeOK, Row
<1> QED BY <1>2 DEF LineInit, LineIInv, MessageNeedsLight, CoveredIsSaved

(* Putting the light out keeps the invariant, whatever row is restored. *)
LEMMA UninhibitKeeps ==
    ASSUME LineIInv, Uninhibit, UNCHANGED <<wide, headerRow>>,
           keystate' \in {"UNLOCKED", "LOCKED", "PREHELP", "POSTHELP"}
    PROVE  LineIInv'
<1>1. saved # Nothing => Restored \in Row
  BY DEF LineIInv, LineTypeOK, Restored, Copy, Row
<1>2. screen' \in [1 .. Height -> Row]
  BY <1>1, MsgLineIsRow DEF LineIInv, LineTypeOK, Uninhibit
<1>3. Height' = Height
  BY DEF Height
<1>4. message' = Nothing
  BY DEF LineIInv, MessageNeedsLight, Uninhibit
<1> QED
  BY <1>2, <1>3, <1>4
     DEF LineIInv, LineTypeOK, MessageNeedsLight, CoveredIsSaved, Uninhibit

LEMMA LineStepInvariant ==
    ASSUME LineIInv, [LineNext]_lineVars
    PROVE  LineIInv'
<1> USE DEF LineIInv
<1> MsgLine \in 1 .. Height /\ MsgLine \in Nat
  BY MsgLineIsRow
<1>1. ASSUME NEW m \in Message, WriteErrorCode(m)
      PROVE  LineIInv'
  <2>1. Height' = Height /\ MsgLine' = MsgLine
    BY <1>1 DEF WriteErrorCode, Height, MsgLine
  <2>2. screen[MsgLine] \in Row
    BY DEF LineTypeOK
  <2>3. saved' \in Copy /\ m \in Row
    BY <1>1, <2>2 DEF WriteErrorCode, Copy, LineTypeOK, Row
  <2>4. covered' \in Covered \cup {Nothing}
    BY <1>1, <2>2 DEF WriteErrorCode, Covered
  <2>5. saved' # Nothing /\ m # Nothing
    BY <2>3, MessageLineAssumption
  <2>6. LineTypeOK'
    BY <1>1, <2>1, <2>3, <2>4 DEF WriteErrorCode, LineTypeOK
  <2>7. MessageNeedsLight'
    BY <1>1, <2>5 DEF WriteErrorCode, MessageNeedsLight
  <2>8. CoveredIsSaved'
    BY <1>1, <2>1, <2>5 DEF WriteErrorCode, CoveredIsSaved
  <2> QED BY <2>6, <2>7, <2>8
<1>2. CASE Update
  <2>1. Height' = Height /\ MsgLine' = MsgLine
    BY <1>2 DEF Update, Height, MsgLine
  <2> QED
    BY <1>2, <2>1 DEF Update, LineTypeOK, MessageNeedsLight, CoveredIsSaved, Row
<1>3. ASSUME NEW r \in 1 .. Height, NEW t \in Text, NEW lock \in BOOLEAN,
             NEW unlock \in BOOLEAN, WriteText(r, t, lock, unlock)
      PROVE  LineIInv'
  <2>1. Height' = Height /\ MsgLine' = MsgLine
    BY <1>3 DEF WriteText, Height, MsgLine
  <2> QED
    BY <1>3, <2>1 DEF WriteText, LineTypeOK, MessageNeedsLight, CoveredIsSaved, Row
<1>4. ASSUME NEW row \in HeaderRows, NewHeader(row),
             keystate' \in {"UNLOCKED", "LOCKED", "PREHELP", "POSTHELP"}
      PROVE  LineIInv'
  <2>1. Height' = Height
    BY <1>4 DEF NewHeader, Height
  <2>2. covered' # Nothing => MsgLine' = MsgLine
    BY <1>4, <2>1 DEF NewHeader, MsgLine
  <2> QED
    BY <1>4, <2>1, <2>2 DEF NewHeader, LineTypeOK, MessageNeedsLight, CoveredIsSaved
<1>5. CASE \E row \in HeaderRows : StartOfHeader(row)
  BY <1>4, <1>5 DEF StartOfHeader, LineTypeOK
<1>6. CASE ClearFormatTable
  <2> 0 \in HeaderRows
    BY MessageLineAssumption DEF HeaderRows
  <2> QED BY <1>4, <1>6 DEF ClearFormatTable
<1>7. CASE Read
  BY <1>7, UninhibitKeeps DEF Read
<1>8. ASSUME NEW toWide \in BOOLEAN, ClearTo(toWide)
      PROVE  LineIInv'
  <2> DEFINE rows == IF toWide THEN Height132 ELSE Height80
             last == IF saved = Nothing THEN Blank
                     ELSE IF toWide /\ ~saved.wide THEN Debris ELSE saved.text
  <2>1. screen' = [r \in 1 .. rows |-> IF r = rows THEN last ELSE Blank]
    BY <1>8 DEF ClearTo
  <2>2. Height' = rows
    BY <1>8 DEF ClearTo, Height
  <2>3. last \in Row /\ Blank \in Row
    BY DEF LineTypeOK, Copy, Row
  <2> HIDE DEF last, rows
  <2>4. screen' \in [1 .. Height' -> Row]
    BY <2>1, <2>2, <2>3
  <2>5. 0 \in HeaderRows
    BY MessageLineAssumption DEF HeaderRows
  <2> QED
    BY <1>8, <2>4, <2>5 DEF ClearTo, LineTypeOK, MessageNeedsLight, CoveredIsSaved
<1>9. CASE ClearUnit \/ ClearUnitAlternate
  BY <1>8, <1>9 DEF ClearUnit, ClearUnitAlternate
<1>10. CASE ResetKey
  BY <1>10, UninhibitKeeps DEF ResetKey
<1>11. CASE OperatorError \/ SystemRequest \/ Help
  <2>1. Height' = Height /\ MsgLine' = MsgLine
    BY <1>11 DEF OperatorError, SystemRequest, Help, Height, MsgLine
  <2> QED
    BY <1>11, <2>1 DEF OperatorError, SystemRequest, Help, LineTypeOK,
       MessageNeedsLight, CoveredIsSaved
<1>12. CASE UNCHANGED lineVars
  <2>1. Height' = Height /\ MsgLine' = MsgLine
    BY <1>12 DEF lineVars, Height, MsgLine
  <2> QED
    BY <1>12, <2>1 DEF lineVars, LineTypeOK, MessageNeedsLight, CoveredIsSaved
<1> QED
  BY <1>1, <1>2, <1>3, <1>5, <1>6, <1>7, <1>9, <1>10, <1>11, <1>12 DEF LineNext

THEOREM LineInvariance == LineSpec => []LineIInv
BY LineInitInvariant, LineStepInvariant, PTL DEF LineSpec

(* The message line, the copy and the screen stay in their types: above all *)
(* the line is a row of the screen, whatever row the host names.            *)
THEOREM LineTypeCorrect == LineSpec => []LineTypeOK
<1>1. LineIInv => LineTypeOK
  BY DEF LineIInv
<1> QED BY LineInvariance, <1>1, PTL

(* A message and its copy live and die with the light. *)
THEOREM MessagesNeedLight == LineSpec => []MessageNeedsLight
<1>1. LineIInv => MessageNeedsLight
  BY DEF LineIInv
<1> QED BY LineInvariance, <1>1, PTL

(* A single error is undone when the light goes out. *)
THEOREM OneErrorUndone == LineSpec => OneErrorIsUndone
<1> DEFINE Undone == covered # Nothing /\ inhibited /\ ~inhibited' /\ ~ClearUnit
                         /\ ~ClearUnitAlternate
                     => screen'[covered.row] = covered.text
<1>1. ASSUME LineIInv, LineNext PROVE Undone
  <2>1. CASE Read \/ ResetKey
    <3> SUFFICES ASSUME covered # Nothing
                 PROVE  screen'[covered.row] = covered.text
      OBVIOUS
    <3>1. /\ saved # Nothing /\ covered.row = MsgLine /\ MsgLine \in 1 .. Height
          /\ covered.text = saved.text /\ Restored = saved.text
      BY <1>1, MsgLineIsRow DEF LineIInv, CoveredIsSaved, Restored, LineTypeOK
    <3>2. screen' = [screen EXCEPT ![MsgLine] = Restored]
      BY <2>1, <3>1 DEF Read, ResetKey, Uninhibit
    <3> QED BY <1>1, <3>1, <3>2 DEF LineIInv, LineTypeOK
  <2>2. CASE ~(Read \/ ResetKey \/ ClearUnit \/ ClearUnitAlternate)
    <3> inhibited => inhibited'
      BY <1>1, <2>2 DEF LineNext, WriteErrorCode, Update, WriteText, StartOfHeader,
         NewHeader, ClearFormatTable, OperatorError, SystemRequest, Help
    <3> QED OBVIOUS
  <2> QED BY <2>1, <2>2
<1>2. LineIInv /\ [LineNext]_lineVars => [Undone]_lineVars
  BY <1>1
<1> QED BY LineInvariance, <1>2, PTL DEF LineSpec, OneErrorIsUndone
==============================================================================
