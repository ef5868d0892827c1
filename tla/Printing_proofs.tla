--------------------------- MODULE Printing_proofs ---------------------------
(***************************************************************************)
(* Printing.  For every script of the host and every window, print jobs    *)
(* get their records in order, and of the confirmed records a crash loses  *)
(* only the last ones of the job that is open.  For every stream of        *)
(* controls, the PDF that scs2pdf leaves behind can be read: while it is   *)
(* written, what is counted is what is written, and streams and lengths    *)
(* take turns.                                                             *)
(***************************************************************************)
EXTENDS PrintSession, PrintFormats, FiniteSetTheorems, SequenceTheorems,
        WellFoundedInduction, TLAPS

(* lp5250d, the printer session *)
Types ==
    /\ script \in Scripts
    /\ next \in Nat \ {0}
    /\ next <= Len(script) + 1
    /\ wire \in Seq(Nat) /\ records \in Seq(Nat)
    /\ pc \in {"startup", "wait", "answer", "print", "exit", "killed"}
    /\ rec \in Nat /\ newjob \in BOOLEAN
    /\ jobs \in Seq(Seq(Nat)) /\ buffered \in Seq(Nat)
    /\ complete \in Nat

(* What was read and not handled, and then what is on the wire, are the     *)
(* records of the script after the ones taken.                              *)
InTransit ==
    /\ Taken \in Nat
    /\ \A i \in 1 .. Len(records) : records[i] = Taken + i
    /\ \A i \in 1 .. Len(wire) : wire[i] = Taken + Len(records) + i

(* The place in the loop, the record in hand and the start of a job, for     *)
(* which nothing is buffered yet.                                            *)
LoopInStep ==
    /\ newjob => buffered = << >>
    /\ pc = "startup" => Taken = 0 /\ jobs = << >> /\ newjob /\ complete = 0
    /\ pc \in {"wait", "answer", "print"} => Taken >= 1 /\ script[1] = "START"
    /\ pc = "wait" => (newjob <=> Taken = 1 \/ script[Taken] = "END")
    /\ pc \in {"answer", "print"} =>
          /\ Taken >= 2 /\ rec = Taken /\ ~newjob
          /\ Answered(Taken)

(* The records among the first n that are answered. *)
Rank(n) == Cardinality({j \in 1 .. n : Answered(j)})

(* No record after the last one taken is confirmed, and before its answer   *)
(* the last one is not confirmed either.                                    *)
Counted ==
    /\ complete <= Rank(Taken)
    /\ pc = "answer" => complete <= Rank(Taken - 1)

IInv == Types /\ InTransit /\ LoopInStep /\ Counted /\ JobsInOrder
------------------------------------------------------------------------------
LEMMA NumbersAreFinite ==
    ASSUME NEW n \in Int, NEW S, S \subseteq 1 .. n
    PROVE  IsFiniteSet(S) /\ Cardinality(S) \in Nat
<1>1. IsFiniteSet(1 .. n)
  BY FS_Interval
<1>2. S \in SUBSET (1 .. n)
  OBVIOUS
<1>3. IsFiniteSet(S)
  BY <1>1, <1>2, FS_Subset
<1> QED BY <1>3, FS_CardinalityType

(* Counting the records of a script. *)
LEMMA RankNext ==
    ASSUME NEW n \in Nat
    PROVE  /\ Rank(n) \in Nat
           /\ Rank(n + 1) = Rank(n) + (IF Answered(n + 1) THEN 1 ELSE 0)
<1> DEFINE A(m) == {j \in 1 .. m : Answered(j)}
<1>1. \A m \in Nat : IsFiniteSet(A(m)) /\ Cardinality(A(m)) \in Nat
  <2> SUFFICES ASSUME NEW m \in Nat PROVE IsFiniteSet(A(m)) /\ Cardinality(A(m)) \in Nat
    OBVIOUS
  <2>1. A(m) \subseteq 1 .. m
    OBVIOUS
  <2> HIDE DEF A
  <2> QED BY <2>1, NumbersAreFinite
<1>2. CASE Answered(n + 1)
  <2>1. A(n + 1) = A(n) \cup {n + 1} /\ n + 1 \notin A(n)
    BY <1>2
  <2> HIDE DEF A
  <2> QED BY <1>1, <1>2, <2>1, FS_AddElement DEF Rank, A
<1>3. CASE ~Answered(n + 1)
  <2>1. A(n + 1) = A(n)
    BY <1>3
  <2> QED BY <1>1, <1>3, <2>1 DEF Rank
<1> QED BY <1>2, <1>3

LEMMA RankMonotonic ==
    ASSUME NEW m \in Nat, NEW n \in Nat, m <= n
    PROVE  Rank(m) <= Rank(n)
<1> DEFINE A(k) == {j \in 1 .. k : Answered(j)}
<1>1. A(m) \in SUBSET A(n) /\ A(n) \subseteq 1 .. n
  OBVIOUS
<1> HIDE DEF A
<1>2. Cardinality(A(m)) <= Cardinality(A(n))
  BY <1>1, NumbersAreFinite, FS_Subset
<1> QED BY <1>2 DEF Rank, A

LEMMA JobOfNext ==
    ASSUME NEW n \in Nat \ {0}
    PROVE  /\ JobOf(n) \in Nat \ {0}
           /\ JobOf(1) = 1
           /\ JobOf(n + 1) = JobOf(n) + (IF script[n] = "END" THEN 1 ELSE 0)
<1> DEFINE E(m) == {j \in 1 .. m - 1 : script[j] = "END"}
<1>1. \A m \in Nat \ {0} : IsFiniteSet(E(m)) /\ Cardinality(E(m)) \in Nat
  <2> SUFFICES ASSUME NEW m \in Nat \ {0} PROVE IsFiniteSet(E(m)) /\ Cardinality(E(m)) \in Nat
    OBVIOUS
  <2>1. E(m) \subseteq 1 .. m - 1 /\ m - 1 \in Int
    OBVIOUS
  <2> HIDE DEF E
  <2> QED BY <2>1, NumbersAreFinite
<1>2. E(1) = {}
  OBVIOUS
<1>3. CASE script[n] = "END"
  <2>1. E(n + 1) = E(n) \cup {n} /\ n \notin E(n)
    BY <1>3
  <2> HIDE DEF E
  <2>2. Cardinality(E(n + 1)) = Cardinality(E(n)) + 1
    BY <1>1, <2>1, FS_AddElement
  <2> QED BY <1>1, <1>2, <1>3, <2>2, FS_EmptySet DEF JobOf, E
<1>4. CASE script[n] # "END"
  <2>1. E(n + 1) = E(n)
    BY <1>4
  <2> HIDE DEF E
  <2>2. Cardinality(E(n + 1)) = Cardinality(E(n))
    BY <2>1
  <2> QED BY <1>1, <1>2, <1>4, <2>2, FS_EmptySet DEF JobOf, E
<1> QED BY <1>3, <1>4

LEMMA JobOfMonotonic ==
    ASSUME NEW m \in Nat \ {0}, NEW n \in Nat \ {0}, m <= n
    PROVE  JobOf(m) <= JobOf(n)
<1> DEFINE E(k) == {j \in 1 .. k - 1 : script[j] = "END"}
<1>1. E(m) \in SUBSET E(n) /\ E(m) \subseteq 1 .. n - 1 /\ E(n) \subseteq 1 .. n - 1
  OBVIOUS
<1> HIDE DEF E
<1>2. /\ Cardinality(E(m)) <= Cardinality(E(n))
      /\ Cardinality(E(m)) \in Nat /\ Cardinality(E(n)) \in Nat
  BY <1>1, n - 1 \in Int, NumbersAreFinite, FS_Subset
<1> QED BY <1>2 DEF JobOf, E
------------------------------------------------------------------------------
LEMMA ScriptFacts ==
    ASSUME Types
    PROVE  /\ script \in Seq(Kinds)
           /\ \A i \in 1 .. Len(script) : i >= 2 => script[i] \in {"CLEAR", "DATA", "END"}
<1>1. script \in Seq(Kinds)
  BY PrintSessionAssumption DEF Types
<1>2. \A i \in 1 .. Len(script) : script[i] \in Kinds
  BY <1>1
<1> QED BY <1>1, <1>2, PrintSessionAssumption DEF Types, Kinds

(* A turn of the loop takes the next record of the script. *)
LEMMA TakesNext ==
    ASSUME Types, InTransit, NEW n \in 0 .. Len(wire), ReadRecords(n),
           records' = Tail(Received(n)), UNCHANGED next
    PROVE  /\ Head(Received(n)) = Taken + 1
           /\ Taken + 1 \in 1 .. Len(script)
           /\ Taken' = Taken + 1
           /\ wire' \in Seq(Nat) /\ records' \in Seq(Nat)
           /\ InTransit'
<1> DEFINE W == SubSeq(wire, 1, n)
           V == SubSeq(wire, n + 1, Len(wire))
           R == records \o W
<1> /\ Len(wire) \in Nat /\ Len(records) \in Nat /\ next \in Nat /\ n \in Nat
    /\ Taken \in Nat
  BY DEF Types, InTransit
<1>1. /\ W \in Seq(Nat) /\ Len(W) = n
      /\ \A i \in 1 .. n : W[i] = wire[i]
  BY DEF Types
<1>2. /\ V \in Seq(Nat) /\ Len(V) = Len(wire) - n
      /\ \A i \in 1 .. Len(wire) - n : V[i] = wire[n + i]
  BY DEF Types
<1>3. wire' = V /\ R # << >> /\ Received(n) = R /\ records' = Tail(R)
  BY DEF ReadRecords, Received
<1> HIDE DEF W, V
<1>4. /\ R \in Seq(Nat) /\ Len(R) = Len(records) + n
      /\ \A i \in 1 .. Len(records) + n :
            R[i] = IF i <= Len(records) THEN records[i] ELSE W[i - Len(records)]
  BY <1>1, ConcatProperties DEF Types
<1> HIDE DEF R
<1>5. \A i \in 1 .. Len(records) + n : R[i] = Taken + i
  <2> SUFFICES ASSUME NEW i \in 1 .. Len(records) + n PROVE R[i] = Taken + i
    OBVIOUS
  <2>1. CASE i <= Len(records)
    <3>1. R[i] = records[i] /\ i \in 1 .. Len(records)
      BY <1>4, <2>1
    <3> QED BY <3>1 DEF InTransit
  <2>2. CASE i > Len(records)
    <3>1. /\ i - Len(records) \in 1 .. n
          /\ i - Len(records) \in 1 .. Len(wire)
      BY <2>2
    <3>2. wire[i - Len(records)] = Taken + Len(records) + (i - Len(records))
      BY <3>1 DEF InTransit
    <3>3. R[i] = wire[i - Len(records)]
      BY <1>1, <1>4, <2>2, <3>1
    <3> QED BY <3>1, <3>2, <3>3
  <2> QED BY <2>1, <2>2
<1>6. /\ Len(records) + n >= 1
      /\ Head(R) = R[1]
      /\ Tail(R) \in Seq(Nat) /\ Len(Tail(R)) = Len(R) - 1
      /\ \A i \in 1 .. Len(R) - 1 : Tail(R)[i] = R[i + 1]
  BY <1>3, <1>4, HeadTailProperties, EmptySeq
<1>7. Len(records') = Len(records) + n - 1 /\ Len(wire') = Len(wire) - n
  BY <1>2, <1>3, <1>4, <1>6
<1>8. Taken' = Taken + 1
  BY <1>7 DEF Taken
<1>9. Taken + 1 \in 1 .. Len(script)
  BY <1>6 DEF Taken, Types, InTransit
<1>10. \A i \in 1 .. Len(records') : records'[i] = Taken' + i
  BY <1>3, <1>4, <1>5, <1>6, <1>7, <1>8, SMTT(30) DEF InTransit, Types
<1>11. \A i \in 1 .. Len(wire') : wire'[i] = Taken' + Len(records') + i
  <2> SUFFICES ASSUME NEW i \in 1 .. Len(wire) - n PROVE V[i] = Taken + 1 + Len(records') + i
    BY <1>3, <1>7, <1>8
  <2>1. n + i \in 1 .. Len(wire)
    OBVIOUS
  <2>2. V[i] = wire[n + i]
    BY <1>2
  <2>3. wire[n + i] = Taken + Len(records) + (n + i)
    BY <2>1 DEF InTransit
  <2>4. Taken + Len(records) + (n + i) = Taken + 1 + (Len(records) + n - 1) + i
    OBVIOUS
  <2> QED BY <1>7, <2>2, <2>3, <2>4
<1> QED BY <1>2, <1>3, <1>5, <1>6, <1>8, <1>9, <1>10, <1>11 DEF InTransit

(* The records of jobs J when those of s are passed on to the last of them. *)
With(J, s) == [k \in DOMAIN J |-> IF k = Len(J) THEN J[k] \o s ELSE J[k]]

LEMMA PassedWith ==
    /\ \A s : Passed(s) = With(jobs, s)
    /\ Written = With(jobs, buffered) /\ Written' = With(jobs', buffered')
BY Zenon DEF Passed, With, Written

LEMMA PassedIs ==
    ASSUME NEW J \in Seq(Seq(Nat)), NEW s \in Seq(Nat)
    PROVE  /\ With(J, s) \in Seq(Seq(Nat))
           /\ Len(With(J, s)) = Len(J) /\ DOMAIN With(J, s) = DOMAIN J
           /\ \A k \in DOMAIN J : With(J, s)[k] = IF k = Len(J) THEN J[k] \o s ELSE J[k]
           /\ s = << >> => With(J, s) = J
<1> DEFINE P == With(J, s)
<1>0. P = [k \in DOMAIN J |-> IF k = Len(J) THEN J[k] \o s ELSE J[k]]
  BY DEF With
<1> HIDE DEF P
<1>1. DOMAIN J = 1 .. Len(J) /\ Len(J) \in Nat /\ \A k \in DOMAIN J : J[k] \in Seq(Nat)
  OBVIOUS
<1>2. \A t \in Seq(Nat) : t \o s \in Seq(Nat) /\ (s = << >> => t \o s = t)
  BY ConcatProperties, ConcatEmptySeq
<1>3. P \in Seq(Seq(Nat)) /\ Len(P) = Len(J)
  <2>1. P \in [1 .. Len(J) -> Seq(Nat)]
    BY <1>0, <1>1, <1>2
  <2>2. P \in Seq(Seq(Nat)) /\ DOMAIN P = 1 .. Len(J)
    <3>1. [1 .. Len(J) -> Seq(Nat)] \in {[1 .. n -> Seq(Nat)] : n \in Nat}
      BY <1>1
    <3>2. P \in UNION {[1 .. n -> Seq(Nat)] : n \in Nat}
      BY <2>1, <3>1, Zenon
    <3>3. Seq(Seq(Nat)) = UNION {[1 .. n -> Seq(Nat)] : n \in Nat}
      BY SeqDef, Zenon
    <3> QED BY <2>1, <3>2, <3>3
  <2>3. Len(P) \in Nat /\ 1 .. Len(P) = 1 .. Len(J)
    BY <2>2, LenProperties
  <2> QED BY <1>1, <2>2, <2>3
<1>4. ASSUME s = << >> PROVE P = J
  <2>1. \A k \in DOMAIN J : P[k] = J[k]
    BY <1>0, <1>1, <1>2, <1>4
  <2> QED BY <1>1, <1>3, <2>1, SeqEqual
<1>5. DOMAIN P = DOMAIN J
  BY <1>0
<1> QED BY <1>0, <1>3, <1>4, <1>5 DEF P

(* What depends on the records taken and on the loop stays as it is. *)
LEMMA LoopRests ==
    ASSUME IInv,
           UNCHANGED <<script, rec, newjob, jobs, buffered, complete, Taken, pc>>
    PROVE  LoopInStep' /\ Counted' /\ JobsInOrder'
<1>1. \A m : Rank(m)' = Rank(m) /\ JobOf(m)' = JobOf(m)
  BY DEF Rank, JobOf, Answered
<1>2. Handled' = Handled /\ JobsBegun' = JobsBegun /\ Written' = Written
  BY <1>1 DEF Handled, JobsBegun, Written, Passed
<1>3. \A k : RecordsOfJob(k)' = RecordsOfJob(k)
  BY <1>1, <1>2 DEF RecordsOfJob
<1> QED BY <1>1, <1>2, <1>3
        DEF IInv, LoopInStep, Counted, JobsInOrder, Answered, Elements, Increasing

(* Killed, the program has nothing in its buffer to account for. *)
LEMMA KilledKeeps ==
    ASSUME IInv, Killed
    PROVE  IInv'
<1>1. Taken' = Taken /\ \A m : Rank(m)' = Rank(m)
  BY DEF Killed, Taken, Rank, Answered
<1>2. << >> \in Seq(Nat)
  OBVIOUS
<1>3. Types' /\ InTransit'
  BY <1>1, <1>2 DEF Killed, IInv, Types, InTransit
<1>4. LoopInStep' /\ Counted' /\ JobsInOrder'
  BY <1>1 DEF Killed, IInv, LoopInStep, Counted, JobsInOrder
<1> QED BY <1>3, <1>4 DEF IInv

(* When what is buffered is passed on, what was written stays the same. *)
LEMMA PassedOn ==
    ASSUME Types, jobs' = Passed(buffered), buffered' = << >>
    PROVE  /\ jobs' \in Seq(Seq(Nat)) /\ buffered' \in Seq(Nat)
           /\ Len(jobs') = Len(jobs) /\ DOMAIN jobs' = DOMAIN jobs
           /\ Written' = Written
<1>1. /\ jobs' \in Seq(Seq(Nat)) /\ Len(jobs') = Len(jobs) /\ DOMAIN jobs' = DOMAIN jobs
  BY PassedIs, PassedWith DEF Types
<1>2. << >> \in Seq(Nat)
  OBVIOUS
<1>3. Written' = jobs' /\ Written = jobs'
  BY <1>1, <1>2, PassedIs, PassedWith
<1> QED BY <1>1, <1>2, <1>3

(* The program ends and hands on what it has. *)
LEMMA ExitKeeps ==
    ASSUME IInv, SocketClosed, Taken' = Taken
    PROVE  LoopInStep' /\ Counted' /\ JobsInOrder'
<1>1. /\ Len(jobs') = Len(jobs) /\ DOMAIN jobs' = DOMAIN jobs /\ Written' = Written
      /\ buffered' = << >> /\ UNCHANGED <<script, newjob, complete>>
      /\ pc \in {"startup", "wait"} /\ pc' = "exit"
  BY PassedOn DEF IInv, SocketClosed
<1>2. \A m : Rank(m)' = Rank(m) /\ JobOf(m)' = JobOf(m)
  BY <1>1 DEF Rank, JobOf, Answered
<1>3. Handled' = Handled /\ JobsBegun' = JobsBegun
  BY <1>1, <1>2 DEF Handled, JobsBegun
<1>4. \A k : RecordsOfJob(k)' = RecordsOfJob(k)
  BY <1>1, <1>2, <1>3 DEF RecordsOfJob
<1>5. JobsInOrder'
  BY <1>1, <1>3, <1>4 DEF IInv, JobsInOrder, Elements, Increasing
<1>6. LoopInStep' /\ Counted'
  BY <1>1, <1>2 DEF IInv, LoopInStep, Counted
<1> QED BY <1>5, <1>6

LEMMA StartupKeeps ==
    ASSUME IInv, NEW n \in 0 .. Len(wire), Startup(n)
    PROVE  IInv'
<1>1. /\ Head(Received(n)) = Taken + 1 /\ Taken' = Taken + 1
      /\ Taken + 1 \in 1 .. Len(script)
      /\ wire' \in Seq(Nat) /\ records' \in Seq(Nat) /\ InTransit'
  BY TakesNext DEF IInv, Startup
<1>2. /\ Taken = 0 /\ jobs = << >> /\ newjob /\ complete = 0 /\ Taken' = 1
      /\ buffered = << >>
  BY <1>1 DEF IInv, LoopInStep, Startup
<1>3. Types'
  BY <1>1 DEF IInv, Types, Startup
<1>4. script[1] \in {"START", "REFUSED"} /\ script' = script
  BY <1>1, <1>2, PrintSessionAssumption DEF IInv, Types, Startup
<1>5. LoopInStep'
  BY <1>1, <1>2, <1>4 DEF Startup, LoopInStep
<1>6. Rank(1)' = Rank(1) /\ Rank(1) \in Nat
  BY <1>4, RankNext DEF Rank, Answered
<1>7. Counted'
  BY <1>2, <1>4, <1>6 DEF Startup, Counted
<1>8. JobsInOrder'
  BY <1>2 DEF Startup, JobsInOrder, JobsBegun
<1> QED BY <1>1, <1>3, <1>5, <1>7, <1>8 DEF IInv

(* The record taken opens a job of its own exactly when the one before it   *)
(* was the last of a job.                                                   *)
LEMMA GetRecordKeeps ==
    ASSUME IInv, NEW n \in 0 .. Len(wire), GetRecord(n)
    PROVE  IInv'
<1> PICK T \in Nat : T = Taken
  BY DEF IInv, InTransit
<1>1. /\ Head(Received(n)) = T + 1 /\ Taken' = T + 1
      /\ T + 1 \in 1 .. Len(script)
      /\ wire' \in Seq(Nat) /\ records' \in Seq(Nat) /\ InTransit'
  BY TakesNext DEF IInv, GetRecord
<1>2. /\ T \in Nat /\ T >= 1 /\ script[1] = "START"
      /\ (newjob <=> T = 1 \/ script[T] = "END")
      /\ Handled = T /\ rec' = T + 1
  BY <1>1 DEF IInv, LoopInStep, InTransit, GetRecord, Handled
<1>3. script[T + 1] \in {"CLEAR", "DATA", "END"} /\ script' = script
  BY <1>1, <1>2, ScriptFacts DEF IInv, GetRecord
<1>4. /\ jobs \in Seq(Seq(Nat)) /\ << >> \in Seq(Nat) /\ buffered \in Seq(Nat)
      /\ buffered' = buffered /\ (newjob => buffered = << >>)
  BY DEF IInv, Types, LoopInStep, GetRecord
<1>5. jobs' \in Seq(Seq(Nat))
  BY <1>4 DEF GetRecord
<1>6. Types'
  <2>1. pc' \in {"wait", "answer"} /\ newjob' = FALSE /\ rec' \in Nat
    BY <1>2 DEF GetRecord
  <2>2. UNCHANGED <<script, next, complete>>
    BY DEF GetRecord
  <2> QED BY <1>1, <1>4, <1>5, <2>1, <2>2 DEF IInv, Types
<1>7. LoopInStep'
  BY <1>1, <1>2, <1>3 DEF GetRecord, LoopInStep, Answered
<1>8. /\ newjob => Written = jobs /\ Written' = jobs'
      /\ ~newjob => Written' = Written
  <2>1. CASE newjob
    <3>1. Written = With(jobs, << >>) /\ Written' = With(jobs', << >>)
      BY <1>4, <2>1, PassedWith
    <3> QED BY <1>4, <1>5, <2>1, <3>1, PassedIs
  <2>2. CASE ~newjob
    BY <1>4, <2>2 DEF GetRecord, Written, Passed
  <2> QED BY <2>1, <2>2
<1>10. Counted'
  <2>2. complete <= Rank(T) /\ complete \in Nat
    BY DEF IInv, Counted, Types
  <2>3. Rank(T) \in Nat /\ Rank(T + 1) \in Nat /\ Rank(T) <= Rank(T + 1)
    <3>1. /\ Rank(T) \in Nat
          /\ Rank(T + 1) = Rank(T) + (IF Answered(T + 1) THEN 1 ELSE 0)
      BY RankNext
    <3> QED BY <3>1
  <2>4. Rank(T)' = Rank(T) /\ Rank(T + 1)' = Rank(T + 1)
    BY <1>3 DEF Rank, Answered
  <2> QED BY <1>1, <1>2, <1>3, <2>2, <2>3, <2>4 DEF Counted, GetRecord
<1>11. /\ Len(jobs) = JobsBegun
       /\ \A k \in DOMAIN jobs :
             Elements(Written[k]) = RecordsOfJob(k) /\ Increasing(Written[k])
  BY DEF IInv, JobsInOrder, GetRecord
<1>12. \A i : JobOf(i)' = JobOf(i)
  BY <1>3 DEF JobOf
<1>13. \A k : RecordsOfJob(k)' = RecordsOfJob(k)
  <2>1. (Handled' = T + 1 /\ script[T + 1] = "CLEAR") \/ Handled' = T
    BY <1>1, <1>2, <1>3 DEF Handled, GetRecord
  <2>2. \A i : i \in 1 .. Handled' /\ script[i] = "DATA" <=> i \in 1 .. T /\ script[i] = "DATA"
    BY <1>2, <2>1
  <2> QED BY <1>2, <1>3, <1>12, <2>2 DEF RecordsOfJob
<1>14. JobsBegun' = JobOf(T + 1)
  BY <1>1, <1>2, <1>12 DEF JobsBegun
<1>15. /\ JobOf(1) = 1 /\ JobOf(T) \in Nat \ {0}
       /\ JobOf(T + 1) = JobOf(T) + (IF script[T] = "END" THEN 1 ELSE 0)
  BY <1>2, JobOfNext
<1>16. JobsBegun = IF T = 1 THEN 0 ELSE JobOf(T)
  BY <1>2 DEF JobsBegun
<1>17. CASE newjob
  <2>1. jobs' = Append(jobs, << >>) /\ Len(jobs') = Len(jobs) + 1
    BY <1>4, <1>17 DEF GetRecord
  <2>2. Len(jobs') = JobsBegun'
    BY <1>2, <1>11, <1>14, <1>15, <1>16, <1>17, <2>1
  <2>3. \A i \in 1 .. T : script[i] = "DATA" => JobOf(i) # Len(jobs) + 1
    <3> SUFFICES ASSUME NEW i \in 1 .. T, script[i] = "DATA"
                 PROVE  JobOf(i) # Len(jobs) + 1
      OBVIOUS
    <3>1. i # 1
      BY <1>2
    <3>2. Len(jobs) = JobOf(T)
      BY <1>2, <1>11, <1>16, <3>1
    <3>3. JobOf(i) \in Nat /\ JobOf(i) <= JobOf(T)
      <4>1. i \in Nat \ {0} /\ T \in Nat \ {0} /\ i <= T
        BY <1>2
      <4> QED BY <4>1, JobOfNext, JobOfMonotonic
    <3> QED BY <1>15, <3>2, <3>3
  <2>4. RecordsOfJob(Len(jobs) + 1) = {}
    BY <1>2, <2>3 DEF RecordsOfJob
  <2>5. ASSUME NEW k \in DOMAIN jobs'
        PROVE  Elements(jobs'[k]) = RecordsOfJob(k) /\ Increasing(jobs'[k])
    <3>1. CASE k \in DOMAIN jobs
      BY <1>4, <1>8, <1>11, <1>17, <2>1, <3>1
    <3>2. CASE k \notin DOMAIN jobs
      <4>1. k = Len(jobs) + 1 /\ jobs'[k] = << >>
        BY <1>4, <2>1, <3>2
      <4> QED BY <2>4, <4>1 DEF Elements, Increasing
    <3> QED BY <3>1, <3>2
  <2>6. JobsInOrder'
    BY <1>8, <1>13, <1>17, <2>2, <2>5 DEF JobsInOrder, Elements, Increasing, GetRecord
  <2> QED BY <1>1, <1>6, <1>7, <1>10, <2>6 DEF IInv
<1>18. CASE ~newjob
  <2>1. jobs' = jobs /\ JobsBegun' = JobsBegun
    BY <1>2, <1>14, <1>15, <1>16, <1>18 DEF GetRecord
  <2>2. JobsInOrder'
    BY <1>8, <1>11, <1>13, <1>18, <2>1 DEF JobsInOrder, Elements, Increasing, GetRecord
  <2> QED BY <1>1, <1>6, <1>7, <1>10, <2>2 DEF IInv
<1> QED BY <1>17, <1>18

(* Print Complete moves the record in hand to the confirmed ones. *)
LEMMA SendPrintCompleteKeeps ==
    ASSUME IInv, SendPrintComplete
    PROVE  IInv'
<1>1. Taken' = Taken /\ Handled' = Handled /\ Taken \in Nat /\ Taken >= 2
  BY DEF SendPrintComplete, Taken, Handled, IInv, InTransit, LoopInStep
<1>2. Types' /\ InTransit'
  BY <1>1 DEF SendPrintComplete, IInv, Types, InTransit
<1>3. LoopInStep'
  BY <1>1 DEF SendPrintComplete, IInv, LoopInStep, Answered
<1>4. Counted'
  <2>1. complete <= Rank(Taken - 1) /\ Answered(Taken) /\ complete \in Nat
    BY DEF IInv, Counted, LoopInStep, SendPrintComplete, Types
  <2>2. Rank(Taken - 1) \in Nat /\ Rank(Taken) = Rank(Taken - 1) + 1
    BY <1>1, <2>1, RankNext
  <2>3. Rank(Taken)' = Rank(Taken)
    BY <1>1 DEF SendPrintComplete, Rank, Answered
  <2> QED BY <1>1, <2>1, <2>2, <2>3 DEF SendPrintComplete, IInv, Counted
<1>5. JobsInOrder'
  <2>1. /\ JobsBegun' = JobsBegun /\ Written' = Written
        /\ \A k : RecordsOfJob(k)' = RecordsOfJob(k)
    BY <1>1 DEF SendPrintComplete, JobsBegun, RecordsOfJob, JobOf, Written, Passed
  <2> QED BY <2>1 DEF SendPrintComplete, IInv, JobsInOrder, Elements, Increasing
<1> QED BY <1>2, <1>3, <1>4, <1>5 DEF IInv

(* A record is written behind the others of its job, however much of the     *)
(* buffer is passed on meanwhile.                                            *)
PassesOn(b, t, n) == SubSeq(Append(b, t), 1, n)
Keeps(b, t, n) == SubSeq(Append(b, t), n + 1, Len(Append(b, t)))
Apart(s, b, t, n) == (s \o PassesOn(b, t, n)) \o Keeps(b, t, n)
Behind(s, b, t) == Append(s \o b, t)

LEMMA WrittenBehind ==
    ASSUME NEW s \in Seq(Nat), NEW b \in Seq(Nat), NEW t \in Nat,
           NEW n \in Nat, n <= Len(b) + 1
    PROVE  /\ PassesOn(b, t, n) \in Seq(Nat) /\ Keeps(b, t, n) \in Seq(Nat)
           /\ Apart(s, b, t, n) = Behind(s, b, t)
<1> DEFINE w == Append(b, t)
           out == SubSeq(w, 1, n)
           rest == SubSeq(w, n + 1, Len(w))
<1>1. w \in Seq(Nat) /\ Len(w) = Len(b) + 1 /\ Len(b) \in Nat
  BY AppendProperties, LenProperties
<1>2. w = b \o <<t>> /\ <<t>> \in Seq(Nat)
  BY AppendIsConcat
<1>3. s \o b \in Seq(Nat) /\ Append(s \o b, t) = (s \o b) \o <<t>>
  BY ConcatProperties, AppendIsConcat
<1>4. (s \o b) \o <<t>> = s \o w
  BY <1>2, ConcatAssociative
<1> HIDE DEF w
<1>5. \A i \in 1 .. Len(w) : w[i] \in Nat
  BY <1>1
<1>6. out \in Seq(Nat) /\ rest \in Seq(Nat)
  <2>1. \A i \in 1 .. n : w[i] \in Nat
    BY <1>1, <1>5
  <2>2. \A i \in n + 1 .. Len(w) : w[i] \in Nat
    BY <1>1, <1>5, SMTT(30)
  <2> QED BY <1>1, <2>1, <2>2, SubSeqProperties
<1>7. out \o rest = w
  <2>1. 1 \in 1 .. Len(w) + 1 /\ n \in 1 - 1 .. Len(w) /\ Len(w) \in n .. Len(w)
    BY <1>1
  <2>2. SubSeq(w, 1, n) \o SubSeq(w, n + 1, Len(w)) = SubSeq(w, 1, Len(w))
    BY ONLY <1>1, <2>1, ConcatAdjacentSubSeq, Zenon
  <2>3. SubSeq(w, 1, Len(w)) = w
    BY <1>1, SubSeqFull
  <2> QED BY <2>2, <2>3
<1> HIDE DEF out, rest
<1>8. (s \o out) \o rest = s \o w
  <2>1. (s \o out) \o rest = s \o (out \o rest)
    BY ONLY s \in Seq(Nat), <1>6, ConcatAssociative
  <2> QED BY <1>7, <2>1
<1> QED BY <1>3, <1>4, <1>6, <1>8 DEF w, out, rest, PassesOn, Keeps, Apart, Behind

(* The record in hand goes behind what was written for the last of the jobs, *)
(* which is its own.                                                         *)
LEMMA WriteDataKeeps ==
    ASSUME IInv, NEW n \in 0 .. Len(buffered) + 1, WriteData(n)
    PROVE  IInv'
<1> PICK T \in Nat : T = Taken
  BY DEF IInv, InTransit
<1>1. /\ Taken' = T /\ T >= 2 /\ rec = T /\ ~newjob /\ script' = script
      /\ script[1] = "START" /\ script[T] = "DATA" /\ UNCHANGED <<rec, newjob, complete>>
      /\ Handled = T - 1 /\ Handled' = T
  BY DEF WriteData, Taken, Handled, IInv, LoopInStep, Answered
<1>2. \A i : JobOf(i)' = JobOf(i) /\ Rank(i)' = Rank(i)
  BY <1>1 DEF JobOf, Rank, Answered
<1> PICK L \in Nat \ {0} : L = JobOf(T)
  BY <1>1, JobOfNext
<1>3. /\ Len(jobs) = L /\ JobsBegun' = L
      /\ \A k \in DOMAIN jobs :
            Elements(Written[k]) = RecordsOfJob(k) /\ Increasing(Written[k])
  BY <1>1, <1>2 DEF WriteData, IInv, JobsInOrder, JobsBegun
<1>4. /\ jobs \in Seq(Seq(Nat)) /\ DOMAIN jobs = 1 .. L /\ L \in DOMAIN jobs
      /\ jobs[L] \in Seq(Nat) /\ buffered \in Seq(Nat)
  BY <1>3 DEF IInv, Types
<1> PICK s \in Seq(Nat) : s = jobs[L]
  BY <1>4
<1> DEFINE out == PassesOn(buffered, T, n)
           rest == Keeps(buffered, T, n)
<1>5. out \in Seq(Nat) /\ rest \in Seq(Nat) /\ (s \o out) \o rest = Append(s \o buffered, T)
  <2>1. n \in Nat /\ n <= Len(buffered) + 1
    BY <1>4
  <2>2. PassesOn(buffered, T, n) \in Seq(Nat) /\ Keeps(buffered, T, n) \in Seq(Nat)
    BY <1>4, <2>1, WrittenBehind
  <2>3. buffered \in Seq(Nat) /\ s \in Seq(Nat)
    BY <1>4
  <2>4. Apart(s, buffered, T, n) = Behind(s, buffered, T)
    BY ONLY T \in Nat, <2>1, <2>3, WrittenBehind
  <2> QED BY <2>2, <2>4, Zenon DEF Apart, Behind
<1>6. jobs' = With(jobs, out) /\ buffered' = rest
  BY <1>1, PassedWith, Zenon DEF WriteData, PassesOn, Keeps
<1> HIDE DEF out, rest
<1>7. /\ jobs' \in Seq(Seq(Nat)) /\ Len(jobs') = L /\ DOMAIN jobs' = DOMAIN jobs
      /\ \A k \in DOMAIN jobs : jobs'[k] = IF k = L THEN s \o out ELSE jobs[k]
  <2>1. /\ jobs' \in Seq(Seq(Nat)) /\ Len(jobs') = Len(jobs) /\ DOMAIN jobs' = DOMAIN jobs
        /\ \A k \in DOMAIN jobs :
              jobs'[k] = IF k = Len(jobs) THEN jobs[k] \o out ELSE jobs[k]
    BY <1>4, <1>5, <1>6, PassedIs, Zenon
  <2> QED BY <1>3, <2>1
<1>8. \A k \in DOMAIN jobs : Written[k] = IF k = L THEN s \o buffered ELSE jobs[k]
  <2>1. Written = With(jobs, buffered)
    BY PassedWith
  <2>2. \A k \in DOMAIN jobs :
           Written[k] = IF k = Len(jobs) THEN jobs[k] \o buffered ELSE jobs[k]
    BY <1>4, <2>1, PassedIs, Zenon
  <2> QED BY <1>3, <2>2
<1>9. \A k \in DOMAIN jobs : Written'[k] = IF k = L THEN Append(s \o buffered, T) ELSE jobs[k]
  <2>1. Written' = With(jobs', rest)
    BY <1>6, PassedWith
  <2>2. \A k \in DOMAIN jobs : Written'[k] = IF k = L THEN jobs'[k] \o rest ELSE jobs'[k]
    <3>1. \A k \in DOMAIN jobs' :
             Written'[k] = IF k = Len(jobs') THEN jobs'[k] \o rest ELSE jobs'[k]
      BY <1>5, <1>7, <2>1, PassedIs, Zenon
    <3> QED BY <1>7, <3>1
  <2> QED BY <1>5, <1>7, <2>2
<1> DEFINE u == s \o buffered
<1>10. u \in Seq(Nat) /\ Written[L] = u
  BY <1>4, <1>8, ConcatProperties
<1> HIDE DEF u
<1>11. /\ DOMAIN Append(u, T) = 1 .. Len(u) + 1 /\ DOMAIN u = 1 .. Len(u) /\ Len(u) \in Nat
       /\ \A i \in 1 .. Len(u) : Append(u, T)[i] = u[i]
       /\ Append(u, T)[Len(u) + 1] = T
  BY <1>10, AppendProperties, LenProperties
<1>12. Elements(Append(u, T)) = Elements(u) \cup {T}
  BY <1>11 DEF Elements
<1>13. Increasing(Append(u, T))
  <2>1. \A i \in 1 .. Len(u) : u[i] \in 1 .. T - 1
    <3>1. Elements(u) = RecordsOfJob(L)
      BY <1>3, <1>4, <1>10
    <3>2. RecordsOfJob(L) \subseteq 1 .. T - 1
      BY <1>1 DEF RecordsOfJob
    <3>3. \A i \in 1 .. Len(u) : u[i] \in Elements(u)
      BY <1>11 DEF Elements
    <3> QED BY <3>1, <3>2, <3>3
  <2>2. Increasing(u)
    BY <1>3, <1>4, <1>10
  <2> QED BY <1>11, <2>1, <2>2 DEF Increasing
<1>14. \A k : RecordsOfJob(k)' = IF k = L THEN RecordsOfJob(k) \cup {T} ELSE RecordsOfJob(k)
  <2>1. \A i : i \in 1 .. T /\ script[i] = "DATA"
                <=> (i \in 1 .. T - 1 /\ script[i] = "DATA") \/ i = T
    BY <1>1
  <2> QED BY <1>1, <1>2, <2>1 DEF RecordsOfJob
<1>15. ASSUME NEW k \in DOMAIN jobs
       PROVE  Elements(Written'[k]) = RecordsOfJob(k)' /\ Increasing(Written'[k])
  BY <1>3, <1>4, <1>8, <1>9, <1>10, <1>12, <1>13, <1>14 DEF u
<1>16. JobsInOrder'
  BY <1>3, <1>7, <1>15 DEF JobsInOrder, Elements, Increasing, WriteData
<1>17. Types' /\ InTransit'
  BY <1>1, <1>5, <1>6, <1>7 DEF IInv, Types, InTransit, WriteData
<1>18. LoopInStep'
  BY <1>1 DEF LoopInStep, WriteData
<1>19. Counted'
  BY <1>1, <1>2 DEF IInv, Counted, WriteData
<1> QED BY <1>16, <1>17, <1>18, <1>19 DEF IInv

(* The end of a job adds no record to it. *)
LEMMA EndJobKeeps ==
    ASSUME IInv, EndJob
    PROVE  IInv'
<1> PICK T \in Nat : T = Taken
  BY DEF IInv, InTransit
<1>1. /\ Taken' = T /\ T >= 2 /\ rec = T /\ newjob' = TRUE /\ script' = script
      /\ script[1] = "START" /\ script[T] = "END" /\ UNCHANGED <<rec, complete>>
      /\ Handled = T - 1 /\ Handled' = T /\ pc' = "wait" /\ buffered' = << >>
  BY DEF EndJob, Taken, Handled, IInv, LoopInStep, Answered
<1>2. \A i : JobOf(i)' = JobOf(i) /\ Rank(i)' = Rank(i)
  BY <1>1 DEF JobOf, Rank, Answered
<1>3. /\ jobs' \in Seq(Seq(Nat)) /\ buffered' \in Seq(Nat)
      /\ Len(jobs') = Len(jobs) /\ DOMAIN jobs' = DOMAIN jobs /\ Written' = Written
  BY PassedOn DEF IInv, EndJob
<1>4. \A k : RecordsOfJob(k)' = RecordsOfJob(k)
  <2>1. \A i : i \in 1 .. T /\ script[i] = "DATA" <=> i \in 1 .. T - 1 /\ script[i] = "DATA"
    BY <1>1
  <2> QED BY <1>1, <1>2, <2>1 DEF RecordsOfJob
<1>5. JobsBegun' = JobsBegun
  BY <1>1, <1>2 DEF JobsBegun
<1>6. JobsInOrder'
  BY <1>1, <1>3, <1>4, <1>5 DEF IInv, JobsInOrder, Elements, Increasing, EndJob
<1>7. Types' /\ InTransit'
  BY <1>1, <1>3 DEF IInv, Types, InTransit, EndJob
<1>8. LoopInStep' /\ Counted'
  BY <1>1, <1>2 DEF IInv, LoopInStep, Counted, EndJob
<1> QED BY <1>6, <1>7, <1>8 DEF IInv
------------------------------------------------------------------------------
LEMMA InitInvariant == Init => IInv
<1> SUFFICES ASSUME Init PROVE IInv
  OBVIOUS
<1>1. /\ script \in Seq(Kinds) /\ jobs = << >> /\ buffered = << >>
      /\ << >> \in Seq(Nat) /\ << >> \in Seq(Seq(Nat)) /\ Len(<< >>) = 0
  BY PrintSessionAssumption, EmptySeq DEF Init
<1>2. Types
  BY <1>1 DEF Init, Types
<1>3. Taken = 0
  <2>1. next = 1 /\ Len(wire) = 0 /\ Len(records) = 0
    BY <1>1 DEF Init
  <2> QED BY <2>1 DEF Taken
<1>5. Rank(0) \in Nat
  BY RankNext
<1> QED BY <1>1, <1>2, <1>3, <1>5 DEF Init, IInv, InTransit, LoopInStep, Counted,
                                     JobsInOrder, JobsBegun

LEMMA StepInvariant == IInv /\ [Next]_vars => IInv'
<1> SUFFICES ASSUME IInv, [Next]_vars PROVE IInv'
  OBVIOUS
<1>1. CASE HostSend
  <2>1. /\ wire' \in Seq(Nat) /\ Len(wire') = Len(wire) + 1
        /\ \A i \in 1 .. Len(wire) : wire'[i] = wire[i]
        /\ wire'[Len(wire) + 1] = next
    BY <1>1 DEF HostSend, IInv, Types
  <2>2. Taken' = Taken /\ Types'
    BY <1>1, <2>1 DEF HostSend, IInv, Types, Taken
  <2>3. next = Taken + Len(records) + Len(wire) + 1
    BY DEF IInv, Types, Taken
  <2>4. \A i \in 1 .. Len(wire) + 1 : wire'[i] = Taken + Len(records) + i
    <3> SUFFICES ASSUME NEW i \in 1 .. Len(wire) + 1
                 PROVE  wire'[i] = Taken + Len(records) + i
      OBVIOUS
    <3>1. Len(wire) \in Nat /\ Len(records) \in Nat /\ Taken \in Nat
      BY DEF IInv, Types, InTransit
    <3>2. CASE i \in 1 .. Len(wire)
      BY <2>1, <3>2 DEF IInv, InTransit
    <3>3. CASE i = Len(wire) + 1
      BY <2>1, <2>3, <3>1, <3>3
    <3> QED BY <3>1, <3>2, <3>3
  <2>5. InTransit'
    BY <1>1, <2>1, <2>2, <2>4 DEF HostSend, IInv, InTransit
  <2> QED BY <1>1, <2>2, <2>5, LoopRests DEF HostSend, IInv
<1>2. CASE HostClose \/ UNCHANGED vars
  <2>1. Types' /\ InTransit' /\ Taken' = Taken
    BY <1>2 DEF HostClose, vars, IInv, Types, InTransit, Taken
  <2> QED BY <1>2, <2>1, LoopRests DEF HostClose, vars, IInv
<1>3. CASE SocketClosed
  <2>1. /\ records' \in Seq(Nat) /\ Len(records') = Len(records) + Len(wire)
        /\ \A i \in 1 .. Len(records') :
              records'[i] = IF i <= Len(records) THEN records[i] ELSE wire[i - Len(records)]
    BY <1>3, ConcatProperties DEF SocketClosed, IInv, Types
  <2>2. wire' = << >> /\ Len(wire') = 0
    BY <1>3 DEF SocketClosed
  <2>3. Taken' = Taken /\ Types'
    <3>1. jobs' \in Seq(Seq(Nat)) /\ buffered' \in Seq(Nat)
      BY <1>3, PassedOn DEF SocketClosed, IInv
    <3>2. wire' \in Seq(Nat)
      BY <2>2
    <3> QED BY <1>3, <2>1, <2>2, <3>1, <3>2 DEF SocketClosed, IInv, Types, Taken
  <2>4. \A i \in 1 .. Len(records') : records'[i] = Taken + i
    <3> SUFFICES ASSUME NEW i \in 1 .. Len(records') PROVE records'[i] = Taken + i
      OBVIOUS
    <3>1. /\ Len(records) \in Nat /\ Len(wire) \in Nat /\ Taken \in Nat
      BY DEF IInv, Types, InTransit
    <3>2. CASE i <= Len(records)
      <4>1. i \in 1 .. Len(records)
        BY <2>1, <3>1, <3>2
      <4> QED BY <2>1, <3>2, <4>1 DEF IInv, InTransit
    <3>3. CASE i > Len(records)
      <4> DEFINE j == i - Len(records)
      <4>1. j \in 1 .. Len(wire) /\ records'[i] = wire[j]
        BY <2>1, <3>1, <3>3
      <4>2. wire[j] = Taken + Len(records) + j
        BY <4>1 DEF IInv, InTransit
      <4>3. Taken + Len(records) + j = Taken + i
        BY <3>1
      <4> QED BY <4>1, <4>2, <4>3
    <3> QED BY <3>1, <3>2, <3>3
  <2>5. InTransit'
    BY <2>2, <2>3, <2>4 DEF InTransit, IInv
  <2> QED BY <1>3, <2>3, <2>5, ExitKeeps DEF IInv
<1>4. CASE Loop
  BY <1>4, StartupKeeps, GetRecordKeeps, SendPrintCompleteKeeps, WriteDataKeeps,
     EndJobKeeps DEF Loop
<1>5. CASE Killed
  BY <1>5, KilledKeeps
<1> QED BY <1>1, <1>2, <1>3, <1>4, <1>5 DEF Next, Stopped

THEOREM Invariance == Spec => []IInv
BY InitInvariant, StepInvariant, PTL DEF Spec

(* Every job gets its records, in order and no others, for every script and  *)
(* however the records arrive.                                              *)
THEOREM JobsKeepOrder == Spec => []JobsInOrder
<1>1. IInv => JobsInOrder
  BY DEF IInv
<1> QED BY Invariance, <1>1, PTL

(* While the program runs, and when it has ended by itself, what is missing  *)
(* of the confirmed records is in the buffer or in hand.                     *)
LEMMA MissingAreLast ==
    ASSUME IInv, pc # "killed"
    PROVE  OnlyOpenJobLoses
<1> PICK T \in Nat : T = Taken
  BY DEF IInv, InTransit
<1>1. /\ Len(jobs) = JobsBegun /\ jobs \in Seq(Seq(Nat)) /\ buffered \in Seq(Nat)
      /\ DOMAIN jobs = 1 .. Len(jobs) /\ Len(jobs) \in Nat
      /\ \A k \in DOMAIN jobs : /\ Elements(Written[k]) = RecordsOfJob(k)
                               /\ Increasing(Written[k])
  BY DEF IInv, JobsInOrder, Types
<1>2. /\ \A k \in DOMAIN jobs :
            Written[k] = IF k = Len(jobs) THEN jobs[k] \o buffered ELSE jobs[k]
      /\ buffered = << >> => Written = jobs
  BY <1>1, PassedIs, PassedWith
<1>3. pc \in {"answer", "print"} => Handled = T - 1 /\ T >= 2
  BY DEF Handled, IInv, LoopInStep
<1>4. pc \notin {"answer", "print"} => Handled = T
  BY DEF Handled
(* What is printed of a job are the first of what was written for it. *)
<1>5. \A k \in DOMAIN jobs :
         /\ jobs[k] \in Seq(Nat) /\ Len(jobs[k]) <= Len(Written[k]) /\ Written[k] \in Seq(Nat)
         /\ \A i \in DOMAIN jobs[k] : i \in DOMAIN Written[k] /\ Written[k][i] = jobs[k][i]
  <2> SUFFICES ASSUME NEW k \in DOMAIN jobs
               PROVE  /\ jobs[k] \in Seq(Nat) /\ Len(jobs[k]) <= Len(Written[k])
                      /\ Written[k] \in Seq(Nat)
                      /\ \A i \in DOMAIN jobs[k] :
                            i \in DOMAIN Written[k] /\ Written[k][i] = jobs[k][i]
    OBVIOUS
  <2> DEFINE s == jobs[k]
  <2>1. s \in Seq(Nat)
    BY <1>1
  <2>2. Written[k] = s \/ Written[k] = s \o buffered
    BY <1>2
  <2> HIDE DEF s
  <2>3. /\ s \o buffered \in Seq(Nat) /\ Len(s \o buffered) = Len(s) + Len(buffered)
        /\ \A i \in 1 .. Len(s) : (s \o buffered)[i] = s[i]
        /\ Len(s) \in Nat /\ Len(buffered) \in Nat
    BY <1>1, <2>1, ConcatProperties, LenProperties
  <2>4. DOMAIN s = 1 .. Len(s) /\ DOMAIN (s \o buffered) = 1 .. Len(s) + Len(buffered)
    BY <2>1, <2>3, LenProperties
  <2>5. \A i \in DOMAIN s : i \in DOMAIN (s \o buffered)
    BY <2>3, <2>4
  <2>6. CASE Written[k] = s
    BY <2>1, <2>3, <2>6 DEF s
  <2>7. CASE Written[k] = s \o buffered
    BY <2>1, <2>3, <2>4, <2>5, <2>7 DEF s
  <2> QED BY <2>2, <2>6, <2>7
(* A record that is confirmed was taken, and the one in hand awaits no answer. *)
<1>6. ASSUME NEW i \in Lost
      PROVE  /\ i \in Nat \ {0} /\ i \notin Printed /\ script[i] = "DATA" /\ i <= T
             /\ i \in 1 .. Handled \/ (i = T /\ pc = "print")
  <2>1. /\ i \in 1 .. Len(script) /\ Answered(i) /\ Rank(i) <= complete
        /\ i \notin Printed /\ script[i] = "DATA"
    BY DEF Lost, Confirmed, Rank
  <2>2. i \in Nat \ {0} /\ complete \in Nat
    BY <2>1 DEF IInv, Types
  <2>3. Rank(i - 1) \in Nat /\ Rank(i) = Rank(i - 1) + 1
    <3>1. i - 1 \in Nat /\ (i - 1) + 1 = i
      BY <2>2
    <3> QED BY <2>1, <3>1, RankNext
  <2>4. ASSUME NEW m \in Nat, complete <= Rank(m) PROVE i <= m
    <3>1. SUFFICES ASSUME i > m PROVE FALSE
      BY <2>2
    <3>2. Rank(m) <= Rank(i - 1) /\ Rank(m) \in Nat
      BY <2>2, <3>1, RankMonotonic, RankNext
    <3> QED BY <2>1, <2>2, <2>3, <2>4, <3>2
  <2>5. i <= T
    BY <2>4 DEF IInv, Counted
  <2>6. pc = "answer" => i <= T - 1
    BY <1>3, <2>4 DEF IInv, Counted
  <2> QED BY <1>3, <1>4, <2>1, <2>2, <2>5, <2>6
(* It is of a job that was begun, and written unless it is in hand. *)
<1>7. ASSUME NEW i \in Lost
      PROVE  /\ T >= 2 /\ JobOf(i) \in Nat \ {0} /\ JobOf(i) <= JobOf(T)
             /\ JobOf(T) = Len(jobs) /\ JobOf(i) \in DOMAIN jobs
             /\ i \in 1 .. Handled => i \in Elements(Written[JobOf(i)])
  <2>1. i # 1
    <3>1. script \in Scripts /\ script \in Seq(Kinds)
      BY ScriptFacts DEF IInv, Types
    <3>2. i \in DOMAIN script
      <4>1. i \in 1 .. Len(script)
        BY DEF Lost, Confirmed
      <4> QED BY <3>1, <4>1
    <3>3. i = 1 <=> script[i] \in {"START", "REFUSED"}
      BY <3>1, <3>2, PrintSessionAssumption
    <3> QED BY <1>6, <3>3
  <2>2. T >= 2 /\ T \in Nat \ {0}
    BY <1>6, <2>1
  <2>3. JobOf(i) \in Nat \ {0} /\ JobOf(i) <= JobOf(T) /\ JobOf(T) = Len(jobs)
    <3>1. i \in Nat \ {0} /\ i <= T
      BY <1>6
    <3>2. JobOf(i) \in Nat \ {0}
      BY <3>1, JobOfNext
    <3>3. JobOf(i) <= JobOf(T)
      BY <2>2, <3>1, JobOfMonotonic
    <3>4. JobsBegun = JobOf(T)
      BY <2>2 DEF JobsBegun
    <3> QED BY <1>1, <3>2, <3>3, <3>4
  <2>4. JobOf(i) \in DOMAIN jobs
    BY <1>1, <2>3
  <2>5. i \in 1 .. Handled => i \in RecordsOfJob(JobOf(i))
    BY <1>6 DEF RecordsOfJob
  <2> QED BY <1>1, <2>2, <2>3, <2>4, <2>5
(* If nothing is buffered, what was written is printed. *)
<1>8. ASSUME NEW k \in DOMAIN jobs, Written[k] = jobs[k], NEW i \in Lost, i \in 1 .. Handled,
             JobOf(i) = k
      PROVE  FALSE
  BY <1>6, <1>7, <1>8 DEF Printed
<1>9. newjob \/ pc = "exit" => Lost = {}
  <2> SUFFICES ASSUME newjob \/ pc = "exit", NEW i \in Lost PROVE FALSE
    OBVIOUS
  <2>1. buffered = << >> /\ pc \notin {"answer", "print"}
    BY DEF IInv, LoopInStep, JobsInOrder
  <2>2. i \in 1 .. Handled /\ Written = jobs
    BY <1>2, <1>6, <2>1
  <2> QED BY <1>7, <1>8, <2>2
<1>10. ASSUME NEW i \in Lost
       PROVE  JobOf(i) = Len(jobs)
  <2>1. CASE i = T
    BY <1>7, <2>1
  <2>2. CASE i # T
    <3>1. i \in 1 .. Handled
      BY <1>6, <2>2
    <3>2. Written[JobOf(i)] # jobs[JobOf(i)]
      BY <1>7, <1>8, <3>1
    <3> QED BY <1>2, <1>7, <3>2
  <2> QED BY <2>1, <2>2
<1>11. ASSUME NEW i \in Lost, NEW j \in Printed
       PROVE  j < i
  <2>1. PICK k \in DOMAIN jobs : j \in Elements(jobs[k])
    BY DEF Printed
  <2>2. PICK a \in DOMAIN jobs[k] : j = jobs[k][a]
    BY <2>1 DEF Elements
  <2>3. a \in DOMAIN Written[k] /\ j = Written[k][a] /\ a \in 1 .. Len(jobs[k])
    BY <1>5, <2>2
  <2>4. j \in RecordsOfJob(k)
    BY <1>1, <2>3 DEF Elements
  <2>5. j \in 1 .. Handled /\ JobOf(j) = k /\ j \in Nat \ {0}
    <3>1. Handled \in Nat
      BY <1>3, <1>4
    <3> QED BY <2>4, <3>1 DEF RecordsOfJob
  <2>6. CASE i \notin 1 .. Handled
    BY <1>3, <1>4, <1>6, <2>5, <2>6
  <2>7. CASE i \in 1 .. Handled /\ k # Len(jobs)
    <3>1. SUFFICES ASSUME i <= j PROVE FALSE
      BY <1>6, <2>5
    <3>2. JobOf(i) <= JobOf(j)
      BY <1>6, <2>5, <3>1, JobOfMonotonic
    <3> QED BY <1>1, <1>10, <2>5, <2>7, <3>2
  <2>8. CASE i \in 1 .. Handled /\ k = Len(jobs)
    <3>1. i \in Elements(Written[k])
      BY <1>7, <1>10, <2>8
    <3>2. PICK c \in DOMAIN Written[k] : i = Written[k][c]
      BY <3>1 DEF Elements
    <3>3. c \notin DOMAIN jobs[k]
      <4>1. SUFFICES ASSUME c \in DOMAIN jobs[k] PROVE FALSE
        OBVIOUS
      <4>2. i \in Elements(jobs[k])
        BY <1>5, <3>2, <4>1 DEF Elements
      <4> QED BY <1>6, <4>2 DEF Printed
    <3>4. a < c
      BY <1>5, <2>3, <3>2, <3>3
    <3> QED BY <1>1, <2>3, <3>2, <3>4 DEF Increasing
  <2> QED BY <2>6, <2>7, <2>8
<1> QED BY <1>9, <1>10, <1>11 DEF OnlyOpenJobLoses

(* Whenever the program is killed, the confirmed records that are lost are   *)
(* the last ones of the job that was open; a closed job has all of its, and a *)
(* program that ends by itself loses none: for every script, every window    *)
(* and however much of the buffer had been passed on.                        *)
THEOREM CrashLosesOpenJob == Spec => []OnlyOpenJobLoses
<1>1. Init => OnlyOpenJobLoses
  BY InitInvariant, MissingAreLast DEF Init
<1>2. IInv /\ ~(pc = "killed") => OnlyOpenJobLoses
  BY MissingAreLast
<1>3. OnlyOpenJobLoses /\ [Next]_vars /\ (pc = "killed")' => OnlyOpenJobLoses'
  <2> SUFFICES ASSUME OnlyOpenJobLoses, [Next]_vars, pc' = "killed"
               PROVE  OnlyOpenJobLoses'
    OBVIOUS
  <2>1. HostSend \/ HostClose \/ Killed \/ UNCHANGED vars
    BY DEF Next, Loop, SocketClosed, Startup, GetRecord, SendPrintComplete, WriteData,
           EndJob, Stopped
  <2>2. UNCHANGED <<script, jobs, newjob, complete>>
    BY <2>1 DEF HostSend, HostClose, Killed, vars
  <2>3. Printed' = Printed /\ Confirmed' = Confirmed /\ \A i : JobOf(i)' = JobOf(i)
    BY <2>2 DEF Printed, Confirmed, Answered, JobOf, Elements
  <2>4. Lost' = Lost
    BY <2>2, <2>3 DEF Lost
  <2> QED BY <2>2, <2>3, <2>4 DEF OnlyOpenJobLoses
<1> QED BY <1>1, <1>2, <1>3, Invariance, PTL DEF Spec
------------------------------------------------------------------------------
(* scs2pdf *)
ObjectKinds == {"stream", "length", "catalog", "outlines", "procset", "courier", "bold",
          "pages", "page"}

(* What may be in a buffer: characters, and the backslash before a parenthesis. *)
Glyphs == {" ", "(", ")", "A", "\\"}

Parts == DOMAIN Document

IsDocument(d) ==
    /\ DOMAIN d = Parts
    /\ d.filesize \in Nat /\ d.streamsize \in Nat /\ d.written \in Nat /\ d.from \in Nat
    /\ d.ObjectList \in Seq(Nat) /\ d.begins \in Seq(Nat) /\ d.made \in Seq(ObjectKinds)
    /\ d.textobjects \in Seq(Nat) /\ d.pagenumber \in Nat
    /\ d.lengths \in Seq(Int) /\ d.ended \in Seq(Int)
    /\ d.buf \in Seq(Glyphs) /\ d.columncheck \in Int /\ d.boldchars \in Int

(* Streams and lengths take turns among the objects of n pages. *)
Turns(d, n) ==
    /\ Len(d.textobjects) = n
    /\ \A i \in 1 .. 2 * n : d.made[i] = IF i % 2 = 1 THEN "stream" ELSE "length"
    /\ \A k \in 1 .. n : d.textobjects[k] = 2 * k - 1

(* What is counted is what is written. *)
Listed(d) == /\ d.begins = d.ObjectList
             /\ Len(d.made) = Len(d.ObjectList)
             /\ d.lengths = d.ended

(* A page that is being written: its stream is not yet part of the file. *)
Open(d) ==
    /\ IsDocument(d)
    /\ Listed(d)
    /\ d.filesize + d.streamsize = d.written
    /\ d.written = d.from + d.streamsize
    /\ d.pagenumber >= 1 /\ Turns(d, d.pagenumber - 1)
    /\ Len(d.made) = 2 * d.pagenumber - 1
    /\ d.made[Len(d.made)] = "stream"
    /\ d.refs = << >>

Closed(d) ==
    /\ IsDocument(d)
    /\ Listed(d)
    /\ d.filesize = d.written
    /\ d.pagenumber >= 1 /\ Turns(d, d.pagenumber)
    /\ Len(d.made) = 2 * d.pagenumber
    /\ d.refs = << >>

Fields == DOMAIN Printer(<< >>, 0)

(* What the controls read of a printer. *)
Reader(q) ==
    /\ DOMAIN q = Fields
    /\ q.in \in Seq(Int) /\ q.cur \in Int
    /\ q.charwidth \in Int /\ q.column \in Int /\ q.row \in Int
    /\ q.state \in {"run", "dead"}

Writing(q) == Reader(q) /\ Open(q.own)

(* The fields of the two records, by name. *)
LEMMA PartsAre ==
    Parts = {"filesize", "streamsize", "ObjectList", "textobjects", "pagenumber", "buf",
             "newpage", "boldchars", "do_bold", "columncheck", "scaling", "written",
             "begins", "made", "from", "ended", "lengths", "refs", "xref", "startxref"}
  BY DEF Parts, Document

LEMMA FieldsAre ==
    Fields = {"in", "cur", "width", "length", "charwidth", "cpi", "lpi", "left", "right",
              "top", "bottom", "column", "row", "rotation", "own", "shown", "state"}
  BY DEF Fields, Printer

(* Reading on changes nothing of the document. *)
LEMMA Reading ==
    ASSUME NEW q, Writing(q), NEW n \in Nat
    PROVE  /\ Writing(Skip(q, n)) /\ Skip(q, n).own = q.own
           /\ Pdf!Skip(q, n) = Skip(q, n)
  <1>1. SubSeq(q.in, n + 1, Len(q.in)) \in Seq(Int)
    BY DEF Writing, Reader
  <1> QED
    BY <1>1, FieldsAre DEF Skip, Pdf!Skip, Writing, Reader

(* A parameter is a number, also where the input ends. *)
LEMMA Parameters ==
    ASSUME NEW q, Writing(q), NEW i \in Nat \ {0}
    PROVE  /\ Arg(q, i) \in Int /\ Byte(q, i) \in Int /\ Word(q, i) \in Int
           /\ Pdf!Arg(q, i) = Arg(q, i) /\ Pdf!Byte(q, i) = Byte(q, i)
           /\ Pdf!Word(q, i) = Word(q, i)
  <1>1. \A k \in Nat \ {0} : Arg(q, k) \in Int /\ Byte(q, k) \in Int
    BY DEF Writing, Reader, Arg, Byte
  <1> QED
    BY <1>1 DEF Word, Pdf!Word, Pdf!Arg, Pdf!Byte, Arg, Byte

LEMMA AtLeast ==
    ASSUME NEW n \in Int
    PROVE  AtLeast0(n) \in Nat /\ Pdf!AtLeast0(n) = AtLeast0(n)
  BY DEF AtLeast0, Pdf!AtLeast0

(* A page that goes on in the printer. *)
LEMMA Wrote ==
    ASSUME NEW q, Writing(q), NEW d, Open(d)
    PROVE  /\ Writing([q EXCEPT !.own = d])
           /\ \A shown : Writing([q EXCEPT !.own = d, !.shown = shown])
  BY FieldsAre DEF Writing, Reader

(* What a page does to the document before it ends. *)
SamePage(d, e) ==
    /\ e.ObjectList = d.ObjectList /\ e.begins = d.begins /\ e.made = d.made
    /\ e.textobjects = d.textobjects /\ e.pagenumber = d.pagenumber
    /\ e.lengths = d.lengths /\ e.ended = d.ended /\ e.refs = d.refs
    /\ e.from = d.from /\ e.filesize = d.filesize
    /\ e.written - d.written = e.streamsize - d.streamsize

LEMMA PageGoesOn ==
    ASSUME NEW d, Open(d), NEW e, IsDocument(e), SamePage(d, e)
    PROVE  Open(e)
  <1>1. /\ d.written \in Nat /\ e.written \in Nat /\ d.streamsize \in Nat
        /\ e.streamsize \in Nat /\ d.filesize \in Nat /\ d.from \in Nat
    BY PartsAre DEF Open, IsDocument
  <1>2. e.filesize + e.streamsize = e.written /\ e.written = e.from + e.streamsize
    <2>1. /\ e.filesize = d.filesize /\ e.from = d.from
          /\ e.written - d.written = e.streamsize - d.streamsize
      BY DEF SamePage
    <2>2. d.filesize + d.streamsize = d.written /\ d.written = d.from + d.streamsize
      BY DEF Open
    <2> QED
      BY <1>1, <2>1, <2>2
  <1> QED
    BY <1>2 DEF Open, SamePage, Listed, Turns

(* What is counted into the stream is written. *)
LEMMA Streamed ==
    ASSUME NEW d, Open(d), NEW n \in Nat
    PROVE  /\ Open(InStream(d, n))
           /\ \A b \in Seq(Glyphs) : Open([InStream(d, n) EXCEPT !.buf = b])
  <1>1. IsDocument(InStream(d, n)) /\ SamePage(d, InStream(d, n))
    <2>1. InStream(d, n) = [d EXCEPT !.written = @ + n, !.streamsize = @ + n]
      BY PartsAre DEF Open, IsDocument, InStream, Write
    <2>2. IsDocument(d) /\ d.written \in Nat /\ d.streamsize \in Nat
      BY PartsAre DEF Open, IsDocument
    <2>3. IsDocument(InStream(d, n))
      <3>1. \A a, b \in Nat : IsDocument([d EXCEPT !.written = a, !.streamsize = b])
        BY PartsAre, <2>2 DEF IsDocument
      <3>2. /\ InStream(d, n) = [d EXCEPT !.written = d.written + n,
                                          !.streamsize = d.streamsize + n]
            /\ d.written + n \in Nat /\ d.streamsize + n \in Nat
        BY <2>1, <2>2
      <3> QED
        BY <3>1, <3>2
    <2>4. /\ InStream(d, n).written = d.written + n
          /\ InStream(d, n).streamsize = d.streamsize + n
      BY PartsAre, <2>1, <2>2 DEF IsDocument
    <2>5. InStream(d, n).written - d.written = InStream(d, n).streamsize - d.streamsize
      BY <2>2, <2>4
    <2> QED
      BY PartsAre, <2>1, <2>2, <2>3, <2>5 DEF IsDocument, SamePage
  <1>2. ASSUME NEW b \in Seq(Glyphs)
        PROVE  /\ IsDocument([InStream(d, n) EXCEPT !.buf = b])
               /\ SamePage(d, [InStream(d, n) EXCEPT !.buf = b])
    BY PartsAre, <1>1, <1>2 DEF IsDocument, SamePage
  <1> QED
    BY <1>1, <1>2, PageGoesOn

(* Fields that only say how the text goes on. *)
LEMMA Marked ==
    ASSUME NEW d, Open(d)
    PROVE  /\ \A b \in Seq(Glyphs) : Open([d EXCEPT !.buf = b])
           /\ \A b \in BOOLEAN : Open([d EXCEPT !.newpage = b])
           /\ \A n \in Int : Open([d EXCEPT !.boldchars = n])
           /\ \A b \in BOOLEAN : Open([d EXCEPT !.do_bold = b])
           /\ \A n \in Int, b \in BOOLEAN : Open([d EXCEPT !.boldchars = n, !.do_bold = b])
           /\ \A n \in Int : Open([d EXCEPT !.columncheck = n])
           /\ \A n \in Int : Open([d EXCEPT !.scaling = n])
  <1>1. IsDocument(d) /\ d.written - d.written = d.streamsize - d.streamsize
    BY PartsAre DEF Open, IsDocument
  <1>2. \A b \in Seq(Glyphs) :
           IsDocument([d EXCEPT !.buf = b]) /\ SamePage(d, [d EXCEPT !.buf = b])
    BY PartsAre, <1>1 DEF IsDocument, SamePage
  <1>3. \A b \in BOOLEAN :
           /\ IsDocument([d EXCEPT !.newpage = b]) /\ SamePage(d, [d EXCEPT !.newpage = b])
           /\ IsDocument([d EXCEPT !.do_bold = b]) /\ SamePage(d, [d EXCEPT !.do_bold = b])
    BY PartsAre, <1>1 DEF IsDocument, SamePage
  <1>4. \A n \in Int :
           /\ IsDocument([d EXCEPT !.boldchars = n]) /\ SamePage(d, [d EXCEPT !.boldchars = n])
           /\ IsDocument([d EXCEPT !.columncheck = n]) /\ SamePage(d, [d EXCEPT !.columncheck = n])
           /\ IsDocument([d EXCEPT !.scaling = n]) /\ SamePage(d, [d EXCEPT !.scaling = n])
    BY PartsAre, <1>1 DEF IsDocument, SamePage
  <1>5. \A n \in Int, b \in BOOLEAN :
           /\ IsDocument([d EXCEPT !.boldchars = n, !.do_bold = b])
           /\ SamePage(d, [d EXCEPT !.boldchars = n, !.do_bold = b])
    BY PartsAre, <1>1 DEF IsDocument, SamePage
  <1> QED
    BY <1>2, <1>3, <1>4, <1>5, PageGoesOn
------------------------------------------------------------------------------
(* Text on the page. *)
LEMMA PutsOut ==
    ASSUME NEW q, Writing(q), NEW text \in Seq(Glyphs)
    PROVE  Writing(PutOut(q, text)) /\ Writing(Flush(q))
  <1>1. ASSUME NEW t \in Seq(Glyphs) PROVE Writing(PutOut(q, t))
    <2>1. Len(t) + 6 \in Nat /\ <<>> \in Seq(Glyphs) /\ Open(q.own)
      BY DEF Writing, Reader
    <2>2. Open([InStream(q.own, Len(t) + 6) EXCEPT !.buf = <<>>])
      BY <2>1, Streamed
    <2> QED
      BY <2>2, Wrote, FieldsAre DEF PutOut, Writing, Reader
  <1>2. q.own.buf \in Seq(Glyphs)
    BY PartsAre DEF Writing, Reader, Open, IsDocument
  <1> QED
    BY <1>1, <1>2 DEF Flush

(* pdf_process_char, with the buffer full or not, and drawing operators. *)
LEMMA PutsChar ==
    ASSUME NEW q, Writing(q), NEW c \in Glyphs
    PROVE  Writing(PutChar(q, c))
  <1>1. q.own.buf \in Seq(Glyphs) /\ Append(q.own.buf, c) \in Seq(Glyphs) /\ Open(q.own)
    BY PartsAre DEF Writing, Reader, Open, IsDocument
  <1>2. Writing(PutOut(q, Append(q.own.buf, c)))
    BY <1>1, PutsOut
  <1>3. Open([q.own EXCEPT !.buf = Append(@, c)])
    BY <1>1, Marked
  <1>4. Writing([q EXCEPT !.own.buf = Append(@, c)])
    BY <1>3, FieldsAre DEF Writing, Reader
  <1> QED
    BY <1>2, <1>4 DEF PutChar

LEMMA ProcessesChar ==
    ASSUME NEW q, Writing(q), NEW c \in Glyphs
    PROVE  Writing(ProcessChar(q, c))
  <1>1. Writing(PutChar(q, c)) /\ Writing(PutChar(q, "\\"))
    <2>1. "\\" \in Glyphs
      BY Zenon DEF Glyphs
    <2> QED
      BY <2>1, PutsChar
  <1>2. Writing(PutChar(PutChar(q, "\\"), c))
    BY <1>1, PutsChar
  <1> QED
    BY <1>1, <1>2 DEF ProcessChar

LEMMA Operates ==
    ASSUME NEW q, Writing(q), NEW kind \in Pieces
    PROVE  Writing(Operators(q, kind))
  <1>1. Writing(Flush(q)) /\ Size[kind] \in Nat
    BY PutsOut, ScsToPdfAssumption, EmptySeq
  <1>2. Open(InStream(Flush(q).own, Size[kind]))
    BY <1>1, Streamed DEF Writing, Reader
  <1> QED
    BY <1>1, <1>2, FieldsAre DEF Operators, Writing, Reader
------------------------------------------------------------------------------
(* Objects and pages. *)
(* o is the document d with one more object, of this kind and n characters. *)
Adds(o, d, kind, n) ==
    /\ o.ObjectList = Append(d.ObjectList, d.filesize)
    /\ o.begins = Append(d.begins, d.written)
    /\ o.made = Append(d.made, kind)
    /\ o.filesize = d.filesize + n /\ o.written = d.written + n
    /\ o.streamsize = d.streamsize /\ o.textobjects = d.textobjects
    /\ o.pagenumber = d.pagenumber /\ o.lengths = d.lengths
    /\ o.ended = d.ended /\ o.refs = d.refs /\ o.from = d.from

LEMMA Objects ==
    ASSUME NEW d, IsDocument(d), NEW kind \in ObjectKinds, NEW n \in Nat
    PROVE  IsDocument(Object(d, kind, n)) /\ Adds(Object(d, kind, n), d, kind, n)
  <1> PICK o : o = Object(d, kind, n)
    OBVIOUS
  <1>1. /\ Append(d.ObjectList, d.filesize) \in Seq(Nat)
        /\ Append(d.begins, d.written) \in Seq(Nat)
        /\ Append(d.made, kind) \in Seq(ObjectKinds)
        /\ d.filesize + n \in Nat /\ d.written + n \in Nat
    <2>1. /\ d.ObjectList \in Seq(Nat) /\ d.filesize \in Nat
          /\ d.begins \in Seq(Nat) /\ d.written \in Nat /\ d.made \in Seq(ObjectKinds)
      BY DEF IsDocument
    <2>2. Append(d.ObjectList, d.filesize) \in Seq(Nat)
      BY <2>1
    <2>3. Append(d.begins, d.written) \in Seq(Nat)
      BY <2>1
    <2>4. Append(d.made, kind) \in Seq(ObjectKinds)
      BY <2>1
    <2> QED
      BY <2>1, <2>2, <2>3, <2>4
  <1>2. /\ DOMAIN o = Parts
        /\ o.ObjectList = Append(d.ObjectList, d.filesize)
        /\ o.begins = Append(d.begins, d.written)
        /\ o.made = Append(d.made, kind)
        /\ o.filesize = d.filesize + n /\ o.written = d.written + n
    BY PartsAre DEF Object, IsDocument
  <1>3. /\ o.streamsize = d.streamsize /\ o.textobjects = d.textobjects
        /\ o.pagenumber = d.pagenumber /\ o.lengths = d.lengths
        /\ o.ended = d.ended /\ o.refs = d.refs /\ o.from = d.from
        /\ o.buf = d.buf /\ o.columncheck = d.columncheck /\ o.boldchars = d.boldchars
    BY PartsAre DEF Object, IsDocument
  <1>4. IsDocument(o)
    BY <1>1, <1>2, <1>3 DEF IsDocument
  <1> QED
    BY <1>2, <1>3, <1>4 DEF Adds

(* The beginning of the stream of page n + 1. *)
LEMMA Begins ==
    ASSUME NEW d, IsDocument(d), NEW n \in Nat, Listed(d), Turns(d, n),
           Len(d.made) = 2 * n, d.filesize = d.written, d.streamsize = 0, d.refs = <<>>
    PROVE  /\ d.pagenumber = n + 1 => Open(BeginStream(d))
           /\ Open([BeginStream(d) EXCEPT !.pagenumber = n + 1, !.newpage = FALSE])
           /\ BeginStream(d).pagenumber = d.pagenumber
  <1>1. Size["head"] \in Nat /\ Size["start"] \in Nat /\ "stream" \in ObjectKinds
    BY ScsToPdfAssumption DEF Pieces, ObjectKinds
  <1>2. PICK o, h : h = Size["head"] /\ o = Object(d, "stream", h)
    OBVIOUS
  <1>3. /\ IsDocument(o)
        /\ o.ObjectList = Append(d.ObjectList, d.filesize)
        /\ o.begins = Append(d.begins, d.written)
        /\ o.made = Append(d.made, "stream")
        /\ o.filesize = d.filesize + h /\ o.written = d.written + h /\ h \in Nat
        /\ o.streamsize = d.streamsize /\ o.textobjects = d.textobjects
        /\ o.pagenumber = d.pagenumber /\ o.lengths = d.lengths
        /\ o.ended = d.ended /\ o.refs = d.refs /\ o.from = d.from
    <2>1. h \in Nat
      BY <1>1, <1>2
    <2>2. IsDocument(o) /\ Adds(o, d, "stream", h)
      BY <1>1, <1>2, <2>1, Objects
    <2> QED
      BY <2>1, <2>2 DEF Adds
  <1>4. PICK e : e = InStream([o EXCEPT !.from = o.written], Size["start"])
    OBVIOUS
  <1>5. /\ DOMAIN e = Parts
        /\ e.from = o.written /\ e.written = o.written + Size["start"]
        /\ e.streamsize = o.streamsize + Size["start"]
    BY PartsAre, <1>3, <1>4 DEF InStream, Write, IsDocument
  <1>6. /\ e.ObjectList = o.ObjectList /\ e.begins = o.begins
        /\ e.made = o.made /\ e.filesize = o.filesize
        /\ e.textobjects = o.textobjects /\ e.pagenumber = o.pagenumber
        /\ e.lengths = o.lengths /\ e.ended = o.ended /\ e.refs = o.refs
        /\ e.buf = o.buf /\ e.columncheck = o.columncheck /\ e.boldchars = o.boldchars
    BY PartsAre, <1>3, <1>4 DEF InStream, Write, IsDocument
  <1>7. /\ d.filesize \in Nat /\ d.written \in Nat /\ d.made \in Seq(ObjectKinds)
        /\ d.begins \in Seq(Nat) /\ d.ObjectList \in Seq(Nat)
    BY PartsAre DEF IsDocument
  <1>8. e.filesize \in Nat /\ e.written \in Nat /\ e.from \in Nat /\ e.streamsize \in Nat
        /\ e.filesize + e.streamsize = e.written /\ e.written = e.from + e.streamsize
    <2>1. PICK m : m = Size["start"]
      OBVIOUS
    <2>2. /\ m \in Nat /\ e.from = o.written /\ e.written = o.written + m
          /\ e.streamsize = o.streamsize + m /\ e.filesize = o.filesize
      BY <1>1, <1>5, <1>6, <2>1
    <2>3. /\ o.streamsize = 0 /\ o.filesize = d.filesize + h /\ o.written = d.filesize + h
          /\ h \in Nat /\ d.filesize \in Nat
      BY <1>3, <1>7
    <2> QED
      BY <2>2, <2>3
  <1>9. IsDocument(e)
    BY <1>3, <1>5, <1>6, <1>8 DEF IsDocument
  <1>10. /\ e.made = Append(d.made, "stream") /\ Len(e.made) = 2 * n + 1
         /\ e.made[2 * n + 1] = "stream" /\ \A i \in 1 .. 2 * n : e.made[i] = d.made[i]
    <2>1. e.made = Append(d.made, "stream")
      BY <1>3, <1>6
    <2> DEFINE m == 2 * n
    <2>2. m \in Nat /\ Len(d.made) = m
      OBVIOUS
    <2> HIDE DEF m
    <2>3. /\ Len(e.made) = m + 1 /\ e.made[m + 1] = "stream"
          /\ \A i \in 1 .. m : e.made[i] = d.made[i]
      <3>1. PICK s : s = d.made
        OBVIOUS
      <3>2. s \in Seq(ObjectKinds) /\ Len(s) = m
        BY <1>7, <2>2, <3>1
      <3>3. Len(Append(s, "stream")) = m + 1 /\ Append(s, "stream")[m + 1] = "stream"
        BY <1>1, <2>2, <3>2
      <3>4. \A i \in 1 .. m : Append(s, "stream")[i] = s[i]
        BY <1>1, <2>2, <3>2
      <3> QED
        BY <2>1, <3>1, <3>3, <3>4
    <2> QED
      BY <2>1, <2>3 DEF m
  <1>11. Listed(e)
    <2>1. /\ e.ObjectList = Append(d.ObjectList, d.filesize)
          /\ e.begins = Append(d.begins, d.written)
          /\ e.lengths = d.lengths /\ e.ended = d.ended
      BY <1>3, <1>6
    <2>2. Len(e.ObjectList) = Len(d.ObjectList) + 1 /\ Len(e.made) = Len(d.made) + 1
      BY <1>1, <1>7, <1>10, <2>1
    <2> QED
      BY <2>1, <2>2 DEF Listed
  <1>12. Turns(e, n)
    <2>1. e.textobjects = d.textobjects
      BY <1>3, <1>6
    <2>2. \A i \in 1 .. 2 * n : d.made[i] = IF i % 2 = 1 THEN "stream" ELSE "length"
      BY DEF Turns
    <2>3. \A i \in 1 .. 2 * n : e.made[i] = IF i % 2 = 1 THEN "stream" ELSE "length"
      BY <1>10, <2>2, Zenon
    <2> QED
      BY <2>1, <2>3 DEF Turns
  <1>13. e.refs = <<>> /\ e = BeginStream(d)
    BY <1>2, <1>3, <1>4, <1>6 DEF BeginStream
  <1>14. ASSUME NEW f, IsDocument(f), f.pagenumber = n + 1,
                f.from = e.from, f.written = e.written, f.streamsize = e.streamsize,
                f.ObjectList = e.ObjectList, f.begins = e.begins, f.made = e.made,
                f.filesize = e.filesize, f.textobjects = e.textobjects,
                f.lengths = e.lengths, f.ended = e.ended, f.refs = e.refs
         PROVE  Open(f)
    <2>1. Turns(f, n) /\ Listed(f)
      BY <1>11, <1>12, <1>14 DEF Turns, Listed
    <2>2. f.pagenumber - 1 = n /\ 2 * f.pagenumber - 1 = 2 * n + 1 /\ f.pagenumber >= 1
      BY <1>14
    <2> QED
      BY <1>8, <1>10, <1>13, <1>14, <2>1, <2>2 DEF Open
  <1>15. d.pagenumber = n + 1 => Open(e)
    BY <1>3, <1>6, <1>9, <1>14
  <1>16. Open([e EXCEPT !.pagenumber = n + 1, !.newpage = FALSE])
    <2>1. PICK f : f = [e EXCEPT !.pagenumber = n + 1, !.newpage = FALSE]
      OBVIOUS
    <2>2. /\ DOMAIN f = Parts /\ f.pagenumber = n + 1
          /\ f.from = e.from /\ f.written = e.written /\ f.streamsize = e.streamsize
          /\ f.ObjectList = e.ObjectList /\ f.begins = e.begins
          /\ f.made = e.made /\ f.filesize = e.filesize
          /\ f.textobjects = e.textobjects
          /\ f.lengths = e.lengths /\ f.ended = e.ended /\ f.refs = e.refs
          /\ f.buf = e.buf /\ f.columncheck = e.columncheck /\ f.boldchars = e.boldchars
      BY PartsAre, <1>9, <2>1 DEF IsDocument
    <2>3. IsDocument(f)
      BY <1>9, <2>2 DEF IsDocument
    <2> QED
      BY <1>14, <2>1, <2>2, <2>3
  <1> QED
    BY <1>3, <1>6, <1>13, <1>15, <1>16

(* A page that has ended: its stream is whole, and its length is known. *)
LEMMA EndsPage ==
    ASSUME NEW q, Writing(q)
    PROVE  Reader(EndPage(q)) /\ Closed(EndPage(q).own)
  <1> DEFINE b == q.own
  <1>1. /\ Open(b) /\ IsDocument(b) /\ b.buf \in Seq(Glyphs) /\ b.textobjects \in Seq(Nat)
        /\ b.ObjectList \in Seq(Nat) /\ b.made \in Seq(ObjectKinds)
        /\ b.written \in Nat /\ b.streamsize \in Nat /\ b.filesize \in Nat
        /\ b.from \in Nat /\ b.pagenumber \in Nat /\ DOMAIN b = Parts
        /\ b.lengths \in Seq(Int) /\ b.ended \in Seq(Int) /\ b.begins \in Seq(Nat)
    BY PartsAre DEF Writing, Reader, Open, IsDocument
  <1>2. PICK k : k = Len(b.buf) + 6
    OBVIOUS
  <1>3. k \in Nat
    BY <1>1, <1>2
  <1> DEFINE marked == [q EXCEPT !.own.textobjects = Append(@, objcount(q.own))]
  <1>4. /\ marked.own = [b EXCEPT !.textobjects = Append(b.textobjects, objcount(b))]
        /\ marked.own.buf = b.buf /\ DOMAIN marked = Fields
        /\ marked.in = q.in /\ marked.cur = q.cur /\ marked.charwidth = q.charwidth
        /\ marked.column = q.column /\ marked.row = q.row /\ marked.state = q.state
    BY <1>1, PartsAre, FieldsAre DEF Writing, Reader
  <1> HIDE DEF marked
  <1>5. PICK r : r = Flush(marked)
    OBVIOUS
  <1>6. /\ r.own = [InStream(marked.own, k) EXCEPT !.buf = <<>>]
        /\ Reader(r)
    BY <1>2, <1>4, <1>5, FieldsAre DEF Flush, PutOut, Writing, Reader
  <1>7. PICK d : d = r.own
    OBVIOUS
  <1>8. /\ DOMAIN d = Parts
        /\ d.textobjects = Append(b.textobjects, objcount(b))
        /\ d.written = b.written + k /\ d.streamsize = b.streamsize + k
        /\ d.buf = << >>
    BY <1>1, <1>4, <1>6, <1>7, PartsAre, SMTT(30) DEF InStream, Write
  <1>9. /\ d.ObjectList = b.ObjectList /\ d.begins = b.begins /\ d.made = b.made
        /\ d.filesize = b.filesize /\ d.pagenumber = b.pagenumber
        /\ d.lengths = b.lengths /\ d.ended = b.ended /\ d.refs = b.refs
        /\ d.from = b.from /\ d.columncheck = b.columncheck /\ d.boldchars = b.boldchars
    BY <1>1, <1>4, <1>6, <1>7, PartsAre DEF InStream, Write
  <1>10. PICK z : z = Size["end"]
    OBVIOUS
  <1>11. z \in Nat /\ Size["length"] \in Nat /\ "length" \in ObjectKinds
    BY <1>10, ScsToPdfAssumption DEF Pieces, ObjectKinds
  <1>12. PICK e : e = [d EXCEPT !.streamsize = @ + 4,
                                !.filesize = @ + d.streamsize + Size["end"],
                                !.written = @ + Size["end"],
                                !.ended = Append(@, d.written + 4 - d.from)]
    OBVIOUS
  <1>13. /\ DOMAIN e = Parts /\ e.streamsize = d.streamsize + 4
         /\ e.filesize = d.filesize + d.streamsize + z /\ e.written = d.written + z
         /\ e.ended = Append(d.ended, d.written + 4 - d.from)
    BY <1>8, <1>10, <1>12, PartsAre
  <1>14. /\ e.ObjectList = b.ObjectList /\ e.begins = b.begins /\ e.made = b.made
         /\ e.pagenumber = b.pagenumber /\ e.textobjects = d.textobjects
         /\ e.lengths = b.lengths /\ e.refs = b.refs /\ e.buf = << >>
         /\ e.from = b.from /\ e.columncheck = b.columncheck /\ e.boldchars = b.boldchars
    BY <1>8, <1>9, <1>12, PartsAre
  <1>15. /\ e.streamsize \in Nat /\ e.filesize \in Nat /\ e.written \in Nat
         /\ e.filesize = e.written /\ d.written + 4 - d.from = e.streamsize
         /\ e.streamsize \in Int
    <2>1. b.filesize + b.streamsize = b.written /\ b.written = b.from + b.streamsize
      BY <1>1 DEF Open
    <2>2. PICK w, s, f, g : w = b.written /\ s = b.streamsize /\ f = b.filesize /\ g = b.from
      OBVIOUS
    <2>3. /\ w \in Nat /\ s \in Nat /\ f \in Nat /\ g \in Nat
          /\ f + s = w /\ w = g + s
      BY <1>1, <2>1, <2>2
    <2>4. /\ d.written = w + k /\ d.streamsize = s + k /\ d.filesize = f /\ d.from = g
      BY <1>8, <1>9, <2>2
    <2>5. /\ e.streamsize = (s + k) + 4 /\ e.filesize = f + (s + k) + z
          /\ e.written = (w + k) + z
      BY <1>13, <2>4
    <2> QED
      BY <1>3, <1>11, <2>3, <2>4, <2>5
  <1>16. e.ended = Append(b.ended, e.streamsize) /\ e.ended \in Seq(Int)
    <2>1. PICK v : v = d.written + 4 - d.from
      OBVIOUS
    <2>2. v = e.streamsize /\ e.ended = Append(d.ended, v) /\ v \in Int
      BY <1>13, <1>15, <2>1
    <2>3. b.ended \in Seq(Int) /\ d.ended = b.ended
      BY <1>1, <1>9
    <2> QED
      BY <2>2, <2>3
  <1>17. objcount(b) \in Nat /\ e.textobjects \in Seq(Nat) /\ << >> \in Seq(Glyphs)
    BY <1>1, <1>8, <1>14 DEF objcount
  <1>18. IsDocument(b)
    BY <1>1
  <1>19. IsDocument(e)
    BY <1>13, <1>14, <1>15, <1>16, <1>17, <1>18 DEF IsDocument
  <1>20. PICK o, size : size = Size["length"] /\ o = Object(e, "length", size)
    OBVIOUS
  <1>21. size \in Nat /\ IsDocument(o) /\ Adds(o, e, "length", size)
    BY <1>11, <1>19, <1>20, Objects
  <1>22. PICK c : c = [o EXCEPT !.lengths = Append(@, e.streamsize)]
    OBVIOUS
  <1>23. /\ EndPage(q) = [r EXCEPT !.own = c]
    BY <1>5, <1>7, <1>12, <1>20, <1>22 DEF EndPage, marked
  <1>24. /\ DOMAIN c = Parts /\ c.lengths = Append(b.lengths, e.streamsize)
         /\ c.ObjectList = Append(b.ObjectList, e.filesize)
         /\ c.begins = Append(b.begins, e.written)
         /\ c.made = Append(b.made, "length")
         /\ c.filesize = e.filesize + size /\ c.written = e.written + size
         /\ c.textobjects = e.textobjects /\ c.pagenumber = b.pagenumber
         /\ c.ended = e.ended /\ c.refs = b.refs
    BY <1>14, <1>21, <1>22, PartsAre DEF Adds, IsDocument
  <1>25. /\ c.streamsize = o.streamsize /\ c.from = o.from /\ c.buf = o.buf
         /\ c.columncheck = o.columncheck /\ c.boldchars = o.boldchars
         /\ c.filesize = o.filesize /\ c.written = o.written
         /\ c.ObjectList = o.ObjectList /\ c.begins = o.begins /\ c.made = o.made
         /\ c.textobjects = o.textobjects /\ c.pagenumber = o.pagenumber
         /\ c.ended = o.ended /\ c.refs = o.refs
    BY <1>21, <1>22, PartsAre DEF IsDocument
  <1>26. c.lengths \in Seq(Int)
    BY <1>1, <1>15, <1>24
  <1>27. IsDocument(c)
    BY <1>21, <1>24, <1>25, <1>26 DEF IsDocument
  <1>28. Listed(c)
    <2>1. Listed(b) /\ Len(c.made) = Len(b.made) + 1
          /\ Len(c.ObjectList) = Len(b.ObjectList) + 1
      BY <1>1, <1>11, <1>15, <1>24 DEF Open
    <2> QED
      BY <1>15, <1>16, <1>24, <2>1 DEF Listed
  <1>29. c.filesize = c.written /\ c.refs = << >> /\ c.pagenumber >= 1
    BY <1>1, <1>15, <1>24 DEF Open
  <1> DEFINE m == b.pagenumber - 1
  <1>30. /\ m \in Nat /\ Turns(b, m) /\ Len(b.made) = 2 * m + 1
         /\ b.made[2 * m + 1] = "stream" /\ objcount(b) = 2 * m + 1
         /\ c.pagenumber = m + 1
    <2>1. /\ b.pagenumber >= 1 /\ Turns(b, m) /\ Len(b.made) = 2 * b.pagenumber - 1
          /\ b.made[Len(b.made)] = "stream" /\ Len(b.made) = Len(b.ObjectList)
      BY <1>1 DEF Open, Listed
    <2>2. m \in Nat /\ 2 * b.pagenumber - 1 = 2 * m + 1 /\ b.pagenumber = m + 1
      <3>1. PICK l : l = b.pagenumber
        OBVIOUS
      <3>2. l \in Nat /\ l >= 1 /\ m = l - 1
        BY <1>1, <2>1, <3>1
      <3>3. l - 1 \in Nat /\ 2 * l - 1 = 2 * (l - 1) + 1 /\ l = (l - 1) + 1
        BY <3>2
      <3> QED
        BY <3>1, <3>2, <3>3
    <2> QED
      BY <1>24, <2>1, <2>2 DEF objcount
  <1> HIDE DEF m
  <1>31. /\ Len(c.made) = 2 * m + 2 /\ c.made[2 * m + 2] = "length"
         /\ \A i \in 1 .. 2 * m + 1 : c.made[i] = b.made[i]
    <2>1. PICK s, l : s = b.made /\ l = 2 * m + 1
      OBVIOUS
    <2>2. s \in Seq(ObjectKinds) /\ Len(s) = l /\ l \in Nat
      BY <1>1, <1>30, <2>1
    <2>3. Len(Append(s, "length")) = l + 1 /\ Append(s, "length")[l + 1] = "length"
      BY <1>11, <2>2
    <2>4. \A i \in 1 .. l : Append(s, "length")[i] = s[i]
      BY <1>11, <2>2
    <2>5. l + 1 = 2 * m + 2
      BY <1>30, <2>1
    <2> QED
      BY <1>24, <2>1, <2>3, <2>4, <2>5
  <1>32. /\ Len(c.textobjects) = m + 1 /\ c.textobjects[m + 1] = 2 * m + 1
         /\ \A i \in 1 .. m : c.textobjects[i] = b.textobjects[i]
    <2>1. PICK s : s = b.textobjects
      OBVIOUS
    <2>2. s \in Seq(Nat) /\ Len(s) = m /\ c.textobjects = Append(s, 2 * m + 1)
      BY <1>1, <1>8, <1>14, <1>24, <1>30, <2>1 DEF Turns
    <2>3. 2 * m + 1 \in Nat
      BY <1>30
    <2>4. /\ Len(Append(s, 2 * m + 1)) = m + 1 /\ Append(s, 2 * m + 1)[m + 1] = 2 * m + 1
      BY <1>30, <2>2, <2>3
    <2>5. \A i \in 1 .. m : Append(s, 2 * m + 1)[i] = s[i]
      BY <1>30, <2>2, <2>3
    <2> QED
      BY <2>1, <2>2, <2>4, <2>5
  <1>33. ASSUME NEW i \in 1 .. 2 * (m + 1)
         PROVE  c.made[i] = IF i % 2 = 1 THEN "stream" ELSE "length"
    <2>1. i \in 1 .. 2 * m \/ i = 2 * m + 1 \/ i = 2 * m + 2
      BY <1>30
    <2>2. CASE i \in 1 .. 2 * m
      <3>1. b.made[i] = IF i % 2 = 1 THEN "stream" ELSE "length"
        BY <1>30, <2>2 DEF Turns
      <3>2. i \in 1 .. 2 * m + 1
        BY <1>30, <2>2
      <3> QED
        BY <1>31, <3>1, <3>2
    <2>3. CASE i = 2 * m + 1
      <3>1. i % 2 = 1 /\ i \in 1 .. 2 * m + 1
        BY <1>30, <2>3
      <3> QED
        BY <1>30, <1>31, <2>3, <3>1
    <2>4. CASE i = 2 * m + 2
      <3>1. i % 2 = 0
        BY <1>30, <2>4
      <3> QED
        BY <1>31, <2>4, <3>1
    <2> QED
      BY <2>1, <2>2, <2>3, <2>4
  <1>34. ASSUME NEW k1 \in 1 .. m + 1 PROVE c.textobjects[k1] = 2 * k1 - 1
    <2>1. k1 \in 1 .. m \/ k1 = m + 1
      BY <1>30
    <2>2. CASE k1 \in 1 .. m
      BY <1>30, <1>32, <2>2 DEF Turns
    <2>3. CASE k1 = m + 1
      BY <1>30, <1>32, <2>3
    <2> QED
      BY <2>1, <2>2, <2>3
  <1>35. Turns(c, m + 1)
    BY <1>32, <1>33, <1>34 DEF Turns
  <1>36. Len(c.made) = 2 * c.pagenumber /\ Turns(c, c.pagenumber)
    BY <1>30, <1>31, <1>35
  <1>37. Closed(c)
    BY <1>27, <1>28, <1>29, <1>36 DEF Closed
  <1>38. Reader([r EXCEPT !.own = c]) /\ [r EXCEPT !.own = c].own = c
    BY <1>6, FieldsAre DEF Reader
  <1> QED
    BY <1>23, <1>37, <1>38

(* do_newpage, and the first page that main begins. *)
LEMMA NewPages ==
    ASSUME NEW q, Writing(q)
    PROVE  Writing(NewPage(q)) /\ Writing(OnPage(q))
  <1>1. PICK r : r = EndPage(q)
    OBVIOUS
  <1>2. Reader(r) /\ Closed(r.own)
    BY <1>1, EndsPage
  <1>3. PICK d, n : d = [r.own EXCEPT !.streamsize = 0] /\ n = r.own.pagenumber
    OBVIOUS
  <1>4. IsDocument(d) /\ n \in Nat
    BY <1>2, <1>3, PartsAre DEF Closed, IsDocument
  <1>5. Listed(d) /\ Turns(d, n) /\ Len(d.made) = 2 * n /\ d.filesize = d.written
        /\ d.streamsize = 0 /\ d.refs = << >> /\ d.pagenumber = n
    BY <1>2, <1>3, PartsAre DEF Closed, IsDocument, Listed, Turns
  <1>6. /\ Open([BeginStream(d) EXCEPT !.pagenumber = n + 1, !.newpage = FALSE])
        /\ BeginStream(d).pagenumber = n
    BY <1>4, <1>5, Begins
  <1>7. PICK e : e = [BeginStream(d) EXCEPT !.pagenumber = @ + 1, !.newpage = FALSE]
    OBVIOUS
  <1>8. Open(e)
    BY <1>6, <1>7
  <1>9. NewPage(q) = [r EXCEPT !.own = e, !.column = 1]
    BY <1>1, <1>3, <1>7 DEF NewPage
  <1>10. Writing(NewPage(q))
    BY <1>2, <1>8, <1>9, FieldsAre DEF Writing, Reader
  <1> QED
    BY <1>10 DEF OnPage

LEMMA Starts ==
    ASSUME NEW bytes \in Seq(Int)
    PROVE  Writing(PdfStart(bytes))
  <1>1. PICK d, h : h = Size["header"] /\ d = [Write(Document, h) EXCEPT !.filesize = h]
    OBVIOUS
  <1>2. h \in Nat
    BY <1>1, ScsToPdfAssumption DEF Pieces
  <1>3. /\ DOMAIN d = Parts /\ d.filesize = h /\ d.written = h /\ d.streamsize = 0
        /\ d.ObjectList = << >> /\ d.begins = << >> /\ d.made = << >>
        /\ d.textobjects = << >> /\ d.pagenumber = 1 /\ d.buf = << >>
        /\ d.boldchars = 0 /\ d.columncheck = 0 /\ d.from = 0 /\ d.ended = << >>
        /\ d.lengths = << >> /\ d.refs = << >>
    BY <1>1, <1>2 DEF Write, Document, Parts
  <1>4. IsDocument(d) /\ Listed(d)
    BY <1>2, <1>3 DEF IsDocument, Listed
  <1>5. Turns(d, 0) /\ Len(d.made) = 2 * 0
    BY <1>3 DEF Turns
  <1>6. Open(BeginStream(d))
    <2>1. PICK n : n = 0
      OBVIOUS
    <2>2. n \in Nat /\ Turns(d, n) /\ Len(d.made) = 2 * n /\ d.pagenumber = n + 1
      BY <1>3, <1>5, <2>1
    <2> QED
      BY <1>3, <1>4, <2>2, Begins
  <1>7. PdfStart(bytes) = [Printer(bytes, BeginStream(d)) EXCEPT !.cpi = 10, !.top = 240]
    BY <1>1 DEF PdfStart
  <1> QED
    BY <1>6, <1>7, FieldsAre DEF Printer, Writing, Reader
------------------------------------------------------------------------------
(* The callbacks of scs2pdf. *)
LEMMA Moved ==
    ASSUME NEW q, Writing(q)
    PROVE  /\ \A n \in Int : Writing([q EXCEPT !.column = n])
           /\ \A n \in Int : Writing([q EXCEPT !.row = n])
           /\ \A m, n \in Int : Writing([q EXCEPT !.row = m, !.column = n])
           /\ \A n \in Int : Writing([q EXCEPT !.cur = n])
           /\ Writing([q EXCEPT !.state = "dead"])
  BY FieldsAre DEF Writing, Reader

LEMMA PrinterTypes ==
    ASSUME NEW q, Writing(q)
    PROVE  /\ q.column \in Int /\ q.row \in Int /\ q.cur \in Int /\ q.charwidth \in Int
           /\ q.own.columncheck \in Int /\ q.own.boldchars \in Int
           /\ Open(q.own) /\ q.in \in Seq(Int)
  BY PartsAre DEF Writing, Reader, Open, IsDocument

(* The column that the width of the pages is worked out from. *)
LEMMA Checks ==
    ASSUME NEW q, Writing(q), NEW column \in Int
    PROVE  Writing(Checked(q, column)) /\ Checked(q, column).column = q.column
  <1>1. Open([q.own EXCEPT !.columncheck = column])
    BY PrinterTypes, Marked
  <1> QED
    BY <1>1, FieldsAre DEF Checked, Writing, Reader

(* scs2pdf_default, scs2pdf_nl, scs2pdf_cr, scs2pdf_ff and scs2pdf_setfont. *)
LEMMA Texts ==
    ASSUME NEW q, Writing(q)
    PROVE  Writing(PdfText(q))
  <1>1. PICK u : u = ProcessChar(OnPage(q), Local(q.cur))
    OBVIOUS
  <1>2. Writing(u)
    <2>1. Local(q.cur) \in Glyphs
      BY DEF Local, Glyphs
    <2> QED
      BY <1>1, <2>1, NewPages, ProcessesChar
  <1>3. PICK r : r = Checked([u EXCEPT !.column = @ + 1], u.column + 1)
    OBVIOUS
  <1>4. Writing(r)
    <2>1. u.column + 1 \in Int
      BY <1>2, PrinterTypes
    <2> QED
      BY <1>2, <1>3, <2>1, Moved, Checks
  <1>5. Writing([r EXCEPT !.own.boldchars = @ - 1])
    <2>1. PICK d, n : d = r.own /\ n = r.own.boldchars - 1
      OBVIOUS
    <2>2. Open(d) /\ n \in Int
      BY <1>4, <2>1, PrinterTypes
    <2>3. Open([r.own EXCEPT !.boldchars = @ - 1])
      BY <2>1, <2>2, Marked
    <2> QED
      BY <1>4, <2>3, FieldsAre DEF Writing, Reader
  <1>6. Writing([r EXCEPT !.own.boldchars = 0, !.own.do_bold = FALSE])
    <2>1. PICK d : d = r.own
      OBVIOUS
    <2>2. Open(d) /\ 0 \in Int /\ FALSE \in BOOLEAN
      BY <1>4, <2>1, PrinterTypes
    <2>3. Open([d EXCEPT !.boldchars = 0, !.do_bold = FALSE])
      BY <2>2, Marked
    <2> QED
      BY <1>4, <2>1, <2>3, FieldsAre DEF Writing, Reader
  <1>7. Writing(Operators([r EXCEPT !.own.boldchars = 0, !.own.do_bold = FALSE], "font"))
    BY <1>6, Operates DEF Pieces
  <1> QED
    BY <1>1, <1>3, <1>4, <1>5, <1>7 DEF PdfText

LEMMA NewLinesOne ==
    ASSUME NEW q, Writing(q)
    PROVE  Writing(PdfNewLine(q))
  <1>1. PICK u : u = OnPage(q)
    OBVIOUS
  <1>2. Writing(u)
    BY <1>1, NewPages
  <1>3. Writing(NewLine(u)) /\ Writing(Dead(u))
    BY <1>2, FieldsAre DEF NewLine, Dead, Writing, Reader
  <1>4. Writing(Operators(Checked(NewLine(u), u.column), "down"))
    BY <1>2, <1>3, PrinterTypes, Checks, Operates DEF Pieces
  <1> QED
    BY <1>1, <1>3, <1>4 DEF PdfNewLine

LEMMA Returns ==
    ASSUME NEW q, Writing(q)
    PROVE  Writing(PdfReturn(q))
  <1>1. PICK u : u = OnPage(q)
    OBVIOUS
  <1>2. Writing(u)
    BY <1>1, NewPages
  <1>3. Writing(CarriageReturn(u))
    BY <1>2, FieldsAre DEF CarriageReturn, Writing, Reader
  <1> QED
    BY <1>1, <1>3, Checks, Operates DEF PdfReturn, Pieces

LEMMA FormFeeds ==
    ASSUME NEW q, Writing(q)
    PROVE  Writing(PdfFormFeed(q))
  <1>1. PICK u : u = FormFeed(q)
    OBVIOUS
  <1>2. Writing(u)
    BY <1>1, FieldsAre DEF FormFeed, Writing, Reader
  <1>3. Open([u.own EXCEPT !.newpage = TRUE])
    BY <1>2, PrinterTypes, Marked
  <1> QED
    BY <1>1, <1>2, <1>3, FieldsAre DEF PdfFormFeed, Writing, Reader

LEMMA Fonts ==
    ASSUME NEW q, Writing(q)
    PROVE  Writing(PdfFont(q))
  <1>1. PICK n : n = (q.charwidth * 100) \div 144
    OBVIOUS
  <1>2. n \in Int
    BY <1>1, PrinterTypes
  <1>3. Open([q.own EXCEPT !.scaling = n])
    BY <1>2, PrinterTypes, Marked
  <1>4. Writing([q EXCEPT !.own.scaling = (q.charwidth * 100) \div 144])
    BY <1>1, <1>3, FieldsAre DEF Writing, Reader
  <1> QED
    BY <1>4, Operates DEF PdfFont, Pieces

LEMMA Induction ==
    ASSUME NEW T, 0 \in T, \A n \in Nat : n \in T => n + 1 \in T
    PROVE  Nat \subseteq T
  <1> DEFINE below == OpToRel(<, Nat)
             Out == Nat \ T
  <1>1. IsWellFoundedOn(below, Nat)
    BY NatLessThanWellFounded DEF OpToRel
  <1>2. \A m, n \in Nat : m < n => <<m, n>> \in below
    BY DEF OpToRel
  <1>3. SUFFICES ASSUME Out # {} PROVE FALSE
    OBVIOUS
  <1> HIDE DEF below
  <1>4. PICK n \in Out : \A m \in Out : <<m, n>> \notin below
    BY <1>1, <1>3, WFMin
  <1>5. n \in Nat /\ n # 0 /\ n \notin T
    BY <1>4
  <1>6. n - 1 \in Nat /\ (n - 1) + 1 = n /\ n - 1 < n
    BY <1>5
  <1>7. n - 1 \notin T
    BY <1>5, <1>6
  <1> QED
    BY <1>2, <1>4, <1>5, <1>6, <1>7

(* Many lines, and many blanks. *)
LEMMA ManyLines ==
    ASSUME NEW q, Writing(q), NEW n \in Int
    PROVE  Writing(NewLines(q, n))
  <1> DEFINE N == AtLeast0(n)
             Step(x) == PdfNewLine(x)
             down[k \in 0 .. N] == IF k = 0 THEN q ELSE Step(down[k - 1])
  <1>1. N \in Nat
    BY DEF AtLeast0
  <1> HIDE DEF Step
  <1>2. down = [k \in 0 .. N |-> IF k = 0 THEN q ELSE Step(down[k - 1])]
    <2> DEFINE Good(m, f) == /\ f = [k \in 0 .. m |-> f[k]] /\ f[0] = q
                             /\ \A k \in 1 .. m : f[k] = Step(f[k - 1])
               T == {m \in Nat : \E f : Good(m, f)}
    <2>1. 0 \in T
      <3>1. Good(0, [k \in 0 .. 0 |-> q])
        OBVIOUS
      <3> QED
        BY <3>1
    <2>2. ASSUME NEW m \in Nat, m \in T PROVE m + 1 \in T
      <3>1. PICK f : Good(m, f)
        BY <2>2
      <3> DEFINE new == [k \in 0 .. m + 1 |-> IF k = m + 1 THEN Step(f[m]) ELSE f[k]]
      <3>2. /\ new = [k \in 0 .. m + 1 |-> new[k]] /\ new[m + 1] = Step(f[m])
            /\ \A k \in 0 .. m : new[k] = f[k]
        OBVIOUS
      <3> HIDE DEF new
      <3>3. ASSUME NEW k \in 1 .. m + 1 PROVE new[k] = Step(new[k - 1])
        <4>1. CASE k = m + 1
          <5>1. k - 1 = m /\ m \in 0 .. m
            BY <4>1
          <5> QED
            BY <3>2, <4>1, <5>1
        <4>2. CASE k # m + 1
          <5>1. k \in 1 .. m /\ k - 1 \in 0 .. m /\ k \in 0 .. m
            BY <4>2
          <5> QED
            BY <3>1, <3>2, <5>1
        <4> QED
          BY <4>1, <4>2
      <3>4. new[0] = q
        BY <3>1, <3>2
      <3>5. Good(m + 1, new)
        BY <3>2, <3>3, <3>4, Zenon
      <3>6. m + 1 \in Nat
        OBVIOUS
      <3> HIDE DEF Good
      <3> QED
        BY <3>5, <3>6
    <2> HIDE DEF T
    <2>3. N \in T
      BY <1>1, <2>1, <2>2, Induction
    <2>4. PICK f : Good(N, f)
      BY <2>3 DEF T
    <2>5. ASSUME NEW k \in 0 .. N
          PROVE  f[k] = IF k = 0 THEN q ELSE Step(f[k - 1])
      <3>1. k = 0 \/ (k # 0 /\ k \in 1 .. N)
        BY <1>1
      <3> QED
        BY <2>4, <3>1
    <2>6. f = [k \in 0 .. N |-> IF k = 0 THEN q ELSE Step(f[k - 1])]
      <3>1. f = [k \in 0 .. N |-> f[k]]
        BY <2>4
      <3> QED
        BY <2>5, <3>1, Zenon
    <2> QED
      BY <2>6
  <1> HIDE DEF down, N
  <1> DEFINE T == {m \in Nat : m <= N => Writing(down[m])}
  <1>3. 0 \in T
    BY <1>1, <1>2
  <1>4. ASSUME NEW m \in Nat, m \in T PROVE m + 1 \in T
    <2> SUFFICES ASSUME m + 1 <= N PROVE Writing(down[m + 1])
      OBVIOUS
    <2>1. Writing(down[m])
      BY <1>1, <1>4
    <2>2. m + 1 \in 0 .. N /\ m + 1 # 0 /\ (m + 1) - 1 = m
      BY <1>1
    <2>3. down[m + 1] = Step(down[m])
      BY <1>2, <2>2
    <2> QED
      BY <2>1, <2>3, NewLinesOne DEF Step
  <1> HIDE DEF T
  <1>5. N \in T
    BY <1>1, <1>3, <1>4, Induction
  <1>6. NewLines(q, n) = down[N]
    BY DEF NewLines, down, N, Step
  <1> QED
    BY <1>1, <1>5, <1>6 DEF T

LEMMA ManyBlanks ==
    ASSUME NEW q, Writing(q), NEW n \in Int
    PROVE  Writing(Blanks(q, n))
  <1> DEFINE N == AtLeast0(n)
             Step(x) == ProcessChar(x, " ")
             right[k \in 0 .. N] == IF k = 0 THEN q ELSE Step(right[k - 1])
  <1>1. N \in Nat
    BY DEF AtLeast0
  <1> HIDE DEF Step
  <1>2. right = [k \in 0 .. N |-> IF k = 0 THEN q ELSE Step(right[k - 1])]
    <2> DEFINE Good(m, f) == /\ f = [k \in 0 .. m |-> f[k]] /\ f[0] = q
                             /\ \A k \in 1 .. m : f[k] = Step(f[k - 1])
               T == {m \in Nat : \E f : Good(m, f)}
    <2>1. 0 \in T
      <3>1. Good(0, [k \in 0 .. 0 |-> q])
        OBVIOUS
      <3> QED
        BY <3>1
    <2>2. ASSUME NEW m \in Nat, m \in T PROVE m + 1 \in T
      <3>1. PICK f : Good(m, f)
        BY <2>2
      <3> DEFINE new == [k \in 0 .. m + 1 |-> IF k = m + 1 THEN Step(f[m]) ELSE f[k]]
      <3>2. /\ new = [k \in 0 .. m + 1 |-> new[k]] /\ new[m + 1] = Step(f[m])
            /\ \A k \in 0 .. m : new[k] = f[k]
        OBVIOUS
      <3> HIDE DEF new
      <3>3. ASSUME NEW k \in 1 .. m + 1 PROVE new[k] = Step(new[k - 1])
        <4>1. CASE k = m + 1
          <5>1. k - 1 = m /\ m \in 0 .. m
            BY <4>1
          <5> QED
            BY <3>2, <4>1, <5>1
        <4>2. CASE k # m + 1
          <5>1. k \in 1 .. m /\ k - 1 \in 0 .. m /\ k \in 0 .. m
            BY <4>2
          <5> QED
            BY <3>1, <3>2, <5>1
        <4> QED
          BY <4>1, <4>2
      <3>4. new[0] = q
        BY <3>1, <3>2
      <3>5. Good(m + 1, new)
        BY <3>2, <3>3, <3>4, Zenon
      <3>6. m + 1 \in Nat
        OBVIOUS
      <3> HIDE DEF Good
      <3> QED
        BY <3>5, <3>6
    <2> HIDE DEF T
    <2>3. N \in T
      BY <1>1, <2>1, <2>2, Induction
    <2>4. PICK f : Good(N, f)
      BY <2>3 DEF T
    <2>5. ASSUME NEW k \in 0 .. N
          PROVE  f[k] = IF k = 0 THEN q ELSE Step(f[k - 1])
      <3>1. k = 0 \/ (k # 0 /\ k \in 1 .. N)
        BY <1>1
      <3> QED
        BY <2>4, <3>1
    <2>6. f = [k \in 0 .. N |-> IF k = 0 THEN q ELSE Step(f[k - 1])]
      <3>1. f = [k \in 0 .. N |-> f[k]]
        BY <2>4
      <3> QED
        BY <2>5, <3>1, Zenon
    <2> QED
      BY <2>6
  <1> HIDE DEF right, N
  <1> DEFINE T == {m \in Nat : m <= N => Writing(right[m])}
  <1>3. 0 \in T
    BY <1>1, <1>2
  <1>4. ASSUME NEW m \in Nat, m \in T PROVE m + 1 \in T
    <2> SUFFICES ASSUME m + 1 <= N PROVE Writing(right[m + 1])
      OBVIOUS
    <2>1. Writing(right[m])
      BY <1>1, <1>4
    <2>2. m + 1 \in 0 .. N /\ m + 1 # 0 /\ (m + 1) - 1 = m
      BY <1>1
    <2>3. right[m + 1] = Step(right[m])
      BY <1>2, <2>2
    <2> QED
      BY <2>1, <2>3, ProcessesChar DEF Step, Glyphs
  <1> HIDE DEF T
  <1>5. N \in T
    BY <1>1, <1>3, <1>4, Induction
  <1>6. Blanks(q, n) = right[N]
    BY DEF Blanks, right, N, Step
  <1> QED
    BY <1>1, <1>5, <1>6 DEF T
------------------------------------------------------------------------------
(* Moves on the paper: scs2pdf_avpp, scs2pdf_ahpp and scs2pdf_pp. *)
LEMMA Verticals ==
    ASSUME NEW q, Writing(q)
    PROVE  Writing(PdfVertical(q))
  <1>1. PICK to, n : to = Arg(q, 1) /\ n = to - q.row
    OBVIOUS
  <1>2. to \in Int /\ n \in Int
    BY <1>1, PrinterTypes, Parameters
  <1>3. Writing(NewLines(Skip(q, 1), n))
    BY <1>2, Reading, ManyLines
  <1> QED
    BY <1>1, <1>2, <1>3, Moved DEF PdfVertical

LEMMA Horizontals ==
    ASSUME NEW q, Writing(q)
    PROVE  Writing(PdfHorizontal(q))
  <1>1. PICK u, to : u = Skip(OnPage(q), 1) /\ to = Arg(q, 1)
    OBVIOUS
  <1>2. Writing(u) /\ to \in Int
    BY <1>1, NewPages, Reading, Parameters
  <1>3. to - u.column \in Int /\ u.column - to \in Int /\ to - 1 \in Int
    BY <1>2, PrinterTypes
  <1>4. Writing(Blanks(u, to - u.column))
    BY <1>2, <1>3, ManyBlanks
  <1>5. PICK v : v = [u EXCEPT !.own.boldchars = u.column - to]
    OBVIOUS
  <1>6. Writing(v)
    <2>1. Open([u.own EXCEPT !.boldchars = u.column - to])
      BY <1>2, <1>3, PrinterTypes, Marked
    <2> QED
      BY <1>2, <1>5, <2>1, FieldsAre DEF Writing, Reader
  <1>7. Writing(Operators(v, "left"))
    BY <1>6, Operates DEF Pieces
  <1>8. Writing(Blanks(Operators(v, "left"), to - 1))
    BY <1>3, <1>7, ManyBlanks
  <1>9. PICK r : r = IF u.column - 1 > to THEN Blanks(Operators(v, "left"), to - 1)
                     ELSE Blanks(u, to - u.column)
    OBVIOUS
  <1>10. Writing(r)
    BY <1>4, <1>8, <1>9
  <1>11. PdfHorizontal(q) = [r EXCEPT !.column = to]
    BY <1>1, <1>5, <1>9 DEF PdfHorizontal
  <1>12. Writing([r EXCEPT !.column = to])
    BY <1>2, <1>10, Moved
  <1> QED
    BY <1>11, <1>12

LEMMA Positions ==
    ASSUME NEW q, Writing(q)
    PROVE  Writing(PdfPosition(q))
  <1>1. PICK u : u = [Skip(q, 1) EXCEPT !.own.boldchars = 0]
    OBVIOUS
  <1>2. Writing(u)
    <2>1. PICK v, d : v = Skip(q, 1) /\ d = v.own
      OBVIOUS
    <2>2. Writing(v) /\ Open(d)
      BY <2>1, Reading, PrinterTypes
    <2>3. Open([d EXCEPT !.boldchars = 0])
      <3>1. \A n \in Int : Open([d EXCEPT !.boldchars = n])
        BY <2>2, Marked
      <3> QED
        BY <3>1
    <2> QED
      BY <1>1, <2>1, <2>2, <2>3, FieldsAre DEF Writing, Reader
  <1>3. Writing(Skip(u, 1)) /\ Arg(u, 1) \in Int
    BY <1>2, Reading, Parameters
  <1>4. Writing(RelativeDown(u)) /\ Writing(RelativeRight(u))
    <2>1. PICK v, a : v = Skip(u, 1) /\ a = Arg(u, 1)
      OBVIOUS
    <2>2. Writing([v EXCEPT !.row = @ + a]) /\ Writing([v EXCEPT !.column = @ + a])
      BY <1>3, <2>1, FieldsAre DEF Writing, Reader
    <2> QED
      BY <2>1, <2>2 DEF RelativeDown, RelativeRight
  <1>5. Writing(PdfVertical(u)) /\ Writing(PdfHorizontal(u))
    BY <1>2, Verticals, Horizontals
  <1>6. PICK r : r = CASE Byte(q, 1) = 76 -> RelativeDown(u)
                       [] Byte(q, 1) = 196 -> PdfVertical(u)
                       [] Byte(q, 1) = 192 -> PdfHorizontal(u)
                       [] Byte(q, 1) = 200 -> RelativeRight(u)
                       [] OTHER -> u
    OBVIOUS
  <1>7. Writing(r)
    BY <1>2, <1>4, <1>5, <1>6
  <1>8. PICK w : w = [r EXCEPT !.own.do_bold = TRUE]
    OBVIOUS
  <1>9. Writing(w)
    <2>1. Open([r.own EXCEPT !.do_bold = TRUE])
      BY <1>7, PrinterTypes, Marked
    <2> QED
      BY <1>7, <1>8, <2>1, FieldsAre DEF Writing, Reader
  <1>10. Writing(Operators(w, "font"))
    BY <1>9, Operates DEF Pieces
  <1>11. PdfPosition(q) = IF r.own.boldchars > 0 /\ ~r.own.do_bold
                          THEN Operators(w, "font") ELSE r
    BY <1>1, <1>6, <1>8 DEF PdfPosition
  <1> QED
    BY <1>7, <1>10, <1>11
------------------------------------------------------------------------------
(* The interpreter: every control leaves a page that is being written. *)
LEMMA Ends ==
    ASSUME NEW q, Writing(q)
    PROVE  /\ Writing(Pdf!Dead(q)) /\ Writing(Pdf!CodePage(q)) /\ Writing(Pdf!IndentLevel(q))
           /\ Writing(Pdf!Ignored(q)) /\ Writing(Pdf!InitialConditions(q))
           /\ Writing(Pdf!OneByte(q)) /\ Writing(Pdf!EmphasisArea(q))
  <1>1. Writing(Pdf!Dead(q))
    BY Moved DEF Pdf!Dead
  <1>2. Writing(Pdf!Skip(q, 1)) /\ Writing(Pdf!Skip(q, 3))
    BY Reading
  <1> QED
    BY <1>1, <1>2 DEF Pdf!CodePage, Pdf!IndentLevel, Pdf!Ignored, Pdf!InitialConditions,
                      Pdf!OneByte, Pdf!EmphasisArea

(* Lists, as long as the length of the control says. *)
LEMMA Lists ==
    ASSUME NEW q, Writing(q)
    PROVE  /\ Writing(Pdf!List(q)) /\ Writing(Pdf!PrintSetup(q))
           /\ Writing(Pdf!PagePresentationMedia(q)) /\ Writing(Pdf!ExceptionAction(q))
           /\ Writing(Transparent(q))
  <1>1. /\ q.cur - 2 \in Int /\ q.cur - 4 \in Int /\ q.cur - 5 \in Int
        /\ Pdf!Arg(q, 1) \in Int
    BY PrinterTypes, Parameters
  <1>2. \A n \in Int : Pdf!AtLeast0(n) \in Nat
    BY AtLeast
  <1>3. \A n \in Nat : Writing(Pdf!Skip(q, n))
    BY Reading
  <1>4. Writing(Pdf!List(q))
    BY <1>1, <1>2, <1>3 DEF Pdf!List
  <1>5. Writing(Pdf!PrintSetup(q))
    <2>1. PICK n : n = Pdf!AtLeast0(q.cur - 4)
      OBVIOUS
    <2>2. 2 + n \in Nat
      BY <1>1, <1>2, <2>1
    <2> QED
      BY <1>3, <2>1, <2>2 DEF Pdf!PrintSetup
  <1>6. Writing(Pdf!PagePresentationMedia(q))
    <2>1. PICK n : n = Pdf!AtLeast0(q.cur - 5)
      OBVIOUS
    <2>2. 3 + Pdf!AtMost(n, 5) \in Nat
      BY <1>1, <1>2, <2>1 DEF Pdf!AtMost
    <2> QED
      BY <1>3, <2>1, <2>2 DEF Pdf!PagePresentationMedia
  <1>7. Writing(Pdf!ExceptionAction(q))
    <2>1. PICK n : n = Pdf!AtLeast0(q.cur - 2)
      OBVIOUS
    <2>2. n \in Nat
      BY <1>1, <1>2, <2>1
    <2>3. 2 * ((n + 1) \div 2) \in Nat
      BY <2>2
    <2> QED
      BY <1>3, <2>1, <2>3 DEF Pdf!ExceptionAction
  <1>8. Writing(Transparent(q))
    <2>1. PICK n : n = AtLeast0(Arg(q, 1))
      OBVIOUS
    <2>2. 1 + n \in Nat
      BY <2>1, Parameters, AtLeast
    <2> QED
      BY <2>1, <2>2, Reading DEF Transparent
  <1> QED
    BY <1>4, <1>5, <1>6, <1>7, <1>8

(* Formats and margins are kept by the printer, and no page depends on them. *)
LEMMA Settings ==
    ASSUME NEW q, Writing(q)
    PROVE  /\ \A v, w : Writing([q EXCEPT !.width = v, !.length = w])
           /\ \A v, w, x : Writing([q EXCEPT !.width = v, !.length = w, !.rotation = x])
           /\ \A v : Writing([q EXCEPT !.width = v]) /\ Writing([q EXCEPT !.length = v])
           /\ \A v : Writing([q EXCEPT !.rotation = v]) /\ Writing([q EXCEPT !.lpi = v])
           /\ \A v : Writing([q EXCEPT !.cpi = v])
           /\ \A v, w : Writing([q EXCEPT !.left = v, !.right = w])
           /\ \A v, w : Writing([q EXCEPT !.top = v, !.bottom = w])
           /\ \A v : Writing([q EXCEPT !.left = v]) /\ Writing([q EXCEPT !.top = v])
           /\ \A v \in Int : \A w : Writing([q EXCEPT !.charwidth = v, !.cpi = w])
  BY FieldsAre DEF Writing, Reader

(* The controls that set formats, margins and fonts. *)
LEMMA Formats ==
    ASSUME NEW q, Writing(q)
    PROVE  /\ Writing(Pdf!AfterFormat(q)) /\ Writing(Pdf!HorizontalFormat(q))
           /\ Writing(Pdf!VerticalFormat(q)) /\ Writing(Pdf!LineDensity(q))
           /\ Writing(Pdf!LineDistance(q)) /\ Writing(Pdf!PresentationPageSize(q))
           /\ Writing(Pdf!TextOrientation(q))
           /\ Writing(Pdf!HorizontalMargins(q)) /\ Writing(Pdf!VerticalMargins(q))
  <1>1. /\ Writing(Pdf!Skip(q, 1)) /\ Writing(Pdf!Skip(q, 2)) /\ Writing(Pdf!Skip(q, 4))
    BY Reading
  <1>2. Writing(Pdf!AfterFormat(q))
    BY <1>1 DEF Pdf!AfterFormat
  <1>3. Writing(Pdf!HorizontalFormat(q))
    <2>1. \A v : Writing([Pdf!AfterFormat(q) EXCEPT !.width = v])
      BY <1>2, Settings
    <2> DEFINE perInch == IF q.cpi # 0 THEN q.cpi ELSE 10
    <2> DEFINE v == IF Pdf!FormatOf(q) # 0 THEN (Pdf!FormatOf(q) \div perInch) * 1440
                                              ELSE 19008
    <2>2. Pdf!HorizontalFormat(q) = [Pdf!AfterFormat(q) EXCEPT !.width = v]
      BY DEF Pdf!HorizontalFormat
    <2> HIDE DEF v
    <2> QED
      BY <2>1, <2>2
  <1>4. Writing(Pdf!VerticalFormat(q))
    <2>1. \A v : Writing([Pdf!AfterFormat(q) EXCEPT !.length = v])
      BY <1>2, Settings
    <2> DEFINE perInch == IF q.lpi # 0 THEN q.lpi ELSE 6
    <2> DEFINE v == IF Pdf!FormatOf(q) # 0 THEN (Pdf!FormatOf(q) \div perInch) * 1440
                                              ELSE 15840
    <2>2. Pdf!VerticalFormat(q) = [Pdf!AfterFormat(q) EXCEPT !.length = v]
      BY DEF Pdf!VerticalFormat
    <2> HIDE DEF v
    <2> QED
      BY <2>1, <2>2
  <1>5. Writing(Pdf!LineDensity(q))
    <2>1. \A v : Writing([Pdf!AfterFormat(q) EXCEPT !.lpi = v])
      BY <1>2, Settings
    <2> QED
      BY <2>1 DEF Pdf!LineDensity
  <1>6. Writing(Pdf!LineDistance(q))
    <2>1. \A v : Writing([Pdf!Skip(q, 2) EXCEPT !.lpi = v])
      BY <1>1, Settings
    <2> DEFINE v == IF Pdf!Word(q, 1) > 0 THEN 1440 \div Pdf!Word(q, 1) ELSE 6
    <2>2. Pdf!LineDistance(q) = [Pdf!Skip(q, 2) EXCEPT !.lpi = v]
      BY DEF Pdf!LineDistance
    <2> HIDE DEF v
    <2> QED
      BY <2>1, <2>2
  <1>7. Writing(Pdf!PresentationPageSize(q))
    <2>1. \A v, w, x : Writing([Pdf!Skip(q, 4) EXCEPT !.width = v, !.length = w,
                                                      !.rotation = x])
      BY <1>1, Settings
    <2> QED
      BY <2>1 DEF Pdf!PresentationPageSize
  <1>8. Writing(Pdf!TextOrientation(q))
    <2>1. \A v : Writing([Pdf!Skip(q, 4) EXCEPT !.rotation = v])
      BY <1>1, Settings
    <2> QED
      BY <2>1 DEF Pdf!TextOrientation
  <1>9. Writing(Pdf!HorizontalMargins(q))
    <2>1. /\ \A v, w : Writing([Pdf!Skip(q, 4) EXCEPT !.left = v, !.right = w])
          /\ \A v : Writing([Pdf!Skip(q, 2) EXCEPT !.left = v])
      BY <1>1, Settings
    <2> QED
      BY <2>1 DEF Pdf!HorizontalMargins
  <1>10. Writing(Pdf!VerticalMargins(q))
    <2>1. /\ \A v, w : Writing([Pdf!Skip(q, 4) EXCEPT !.top = v, !.bottom = w])
          /\ \A v : Writing([Pdf!Skip(q, 2) EXCEPT !.top = v])
      BY <1>1, Settings
    <2> QED
      BY <2>1 DEF Pdf!VerticalMargins
  <1> QED
    BY <1>2, <1>3, <1>4, <1>5, <1>6, <1>7, <1>8, <1>9, <1>10

LEMMA FontControls ==
    ASSUME NEW q, Writing(q)
    PROVE  /\ Writing(Pdf!SetFont(q)) /\ Writing(Pdf!SetDistance(q))
           /\ Writing(Pdf!FontControl(q))
  <1>1. ASSUME NEW u, Writing(u) PROVE Writing(Pdf!SetFont(u))
    <2>1. PICK v, w : v = Pdf!Skip(u, 4) /\ w = Pdf!Word(u, 3)
      OBVIOUS
    <2>2. Writing(v) /\ w \in Int
      BY <1>1, <2>1, Reading, Parameters
    <2>3. Writing(Pdf!FontWidth(u))
      <3> DEFINE x == 1440 \div w
      <3>1. Pdf!FontWidth(u) = [v EXCEPT !.charwidth = w, !.cpi = x]
        BY <2>1 DEF Pdf!FontWidth
      <3> HIDE DEF x
      <3>2. \A c : Writing([v EXCEPT !.charwidth = w, !.cpi = c])
        BY <2>2, FieldsAre DEF Writing, Reader
      <3> QED
        BY <3>1, <3>2
    <2>4. Writing(Pdf!Skip(PdfFont(Pdf!FontWidth(u)), 1))
      BY <2>3, Fonts, Reading
    <2> QED
      BY <1>1, <2>4, Ends DEF Pdf!SetFont
  <1>2. Writing(Pdf!SetDistance(q))
    <2>1. \A v : Writing([Pdf!Skip(q, 2) EXCEPT !.cpi = v])
      BY Reading, Settings
    <2> QED
      BY <2>1, Fonts, Reading DEF Pdf!SetDistance
  <1>3. Writing(Pdf!FontControl(q))
    <2>1. PICK u : u = Pdf!Skip(q, 2)
      OBVIOUS
    <2>2. /\ Writing(u) /\ Writing(Pdf!Skip(q, 1)) /\ Writing(Pdf!CodePage(u))
          /\ Writing(Pdf!SetFont(u)) /\ Writing(Pdf!OneByte(u))
      BY <1>1, <2>1, Reading, Ends
    <2> QED
      BY <2>1, <2>2 DEF Pdf!FontControl
  <1> QED
    BY <1>1, <1>2, <1>3

(* scs_processd2, scs_processd3, scs_process2b and the loop of scs_main. *)
LEMMA PageControls ==
    ASSUME NEW q, Writing(q)
    PROVE  Writing(Pdf!PageControl(q)) /\ Writing(Pdf!Orientation(q))
  <1>1. PICK u : u = [Pdf!Skip(q, 2) EXCEPT !.cur = Pdf!Byte(q, 1)]
    OBVIOUS
  <1>2. Writing(u)
    <2>1. PICK v, b : v = Pdf!Skip(q, 2) /\ b = Pdf!Byte(q, 1)
      OBVIOUS
    <2>2. Writing(v) /\ b \in Int
      BY <2>1, Reading, Parameters
    <2> QED
      BY <1>1, <2>1, <2>2, Moved
  <1>3. PICK kind : kind = Pdf!Byte(q, 2)
    OBVIOUS
  <1>4. Writing(Pdf!ShortControl(u, kind))
    BY <1>2, Ends, Formats, FontControls DEF Pdf!ShortControl
  <1>5. Writing(Pdf!PageControl(q))
    <2>1. /\ Writing(Pdf!List(u)) /\ Writing(Pdf!Ignored(u))
          /\ Writing(Pdf!PresentationPageSize(u)) /\ Writing(Pdf!PagePresentationMedia(u))
          /\ Writing(Pdf!VerticalMargins(u)) /\ Writing(Pdf!PrintSetup(u))
          /\ Writing(Pdf!ExceptionAction(u)) /\ Writing(Pdf!HorizontalMargins(u))
      BY <1>2, Lists, Ends, Formats
    <2> QED
      BY <1>1, <1>3, <1>4, <2>1 DEF Pdf!PageControl
  <1>6. Writing(Pdf!Orientation(q))
    BY <1>1, <1>2, Formats DEF Pdf!Orientation
  <1> QED
    BY <1>5, <1>6

LEMMA Escapes ==
    ASSUME NEW q, Writing(q)
    PROVE  Writing(Pdf!Escape(q))
  <1>1. PICK u : u = Pdf!Skip(q, 1)
    OBVIOUS
  <1>2. Writing(u)
    BY <1>1, Reading
  <1>3. /\ Writing(Pdf!FontControl(u)) /\ Writing(Pdf!PageControl(u))
        /\ Writing(Pdf!Orientation(u)) /\ Writing(Pdf!EmphasisArea(u))
        /\ Writing(Pdf!HorizontalFormat(u)) /\ Writing(Pdf!VerticalFormat(u))
        /\ Writing(Pdf!LineDensity(u))
    BY <1>2, FontControls, PageControls, Ends, Formats
  <1> QED
    BY <1>1, <1>2, <1>3 DEF Pdf!Escape

LEMMA ControlsKeep ==
    ASSUME NEW q, Writing(q), q.in # << >>
    PROVE  Writing(Pdf!Control(q))
  <1>1. PICK u : u = [Pdf!Skip(q, 1) EXCEPT !.cur = Head(q.in)]
    OBVIOUS
  <1>2. Writing(u)
    <2>1. Head(q.in) \in Int
      BY PrinterTypes
    <2> QED
      BY <1>1, <2>1, Reading, Moved
  <1>3. /\ Writing(Transparent(u)) /\ Writing(Pdf!Ignored(u)) /\ Writing(PdfReturn(u))
        /\ Writing(PdfFormFeed(u)) /\ Writing(PdfNewLine(u)) /\ Writing(PdfPosition(u))
        /\ Writing(Pdf!Escape(u)) /\ Writing(PdfText(u))
    BY <1>2, Lists, Ends, Returns, FormFeeds, NewLinesOne, Positions, Escapes, Texts
  <1> QED
    BY <1>1, <1>2, <1>3 DEF Pdf!Control
------------------------------------------------------------------------------
(* The end of the document.  The kind of the j-th object after the pages. *)
Order == <<"catalog", "outlines", "procset", "courier", "bold", "pages">>
Named(j) == IF j <= 6 THEN Order[j] ELSE "page"

LEMMA NamesAre ==
    /\ Named(1) = "catalog" /\ Named(2) = "outlines" /\ Named(3) = "procset"
    /\ Named(4) = "courier" /\ Named(5) = "bold" /\ Named(6) = "pages"
    /\ \A j \in Nat : j > 6 => Named(j) = "page"
    /\ \A j \in Nat \ {0} : Named(j) \in ObjectKinds /\ Named(j) # "stream"
  <1>1. /\ Named(1) = "catalog" /\ Named(2) = "outlines" /\ Named(3) = "procset"
        /\ Named(4) = "courier" /\ Named(5) = "bold" /\ Named(6) = "pages"
    BY DEF Named, Order
  <1>2. \A j \in Nat : j > 6 => Named(j) = "page"
    BY DEF Named
  <1>3. ASSUME NEW j \in Nat \ {0} PROVE Named(j) \in ObjectKinds /\ Named(j) # "stream"
    <2>1. j = 1 \/ j = 2 \/ j = 3 \/ j = 4 \/ j = 5 \/ j = 6 \/ j > 6
      OBVIOUS
    <2> QED
      BY <1>1, <1>2, <2>1 DEF ObjectKinds
  <1> QED
    BY <1>1, <1>2, <1>3

(* References that are right, in a document of n pages. *)
Referred(n) ==
    {<<"stream", 2 * k - 1>> : k \in 1 .. n} \cup {<<Named(j), 2 * n + j>> : j \in 1 .. n + 6}

(* Of the objects after the n pages, the first m are there. *)
Built(d, n, m) ==
    /\ IsDocument(d)
    /\ Listed(d)
    /\ d.filesize = d.written
    /\ n \in Nat /\ d.pagenumber = n /\ Turns(d, n)
    /\ d.refs \in Seq(Referred(n))
    /\ m \in Nat /\ Len(d.made) = 2 * n + m
    /\ \A j \in 1 .. m : d.made[2 * n + j] = Named(j)

(* One more object, the next of those, and references to some of them. *)
LEMMA Adding ==
    ASSUME NEW d, NEW n \in Nat, NEW m \in Nat, Built(d, n, m), NEW size \in Nat,
           NEW kind, kind = Named(m + 1)
    PROVE  /\ Built(Object(d, kind, size), n, m + 1)
           /\ objcount(Object(d, kind, size)) = 2 * n + (m + 1)
           /\ Object(d, kind, size).textobjects = d.textobjects
  <1>1. PICK o : o = Object(d, kind, size)
    OBVIOUS
  <1>2. n \in Nat /\ m \in Nat /\ IsDocument(d) /\ Listed(d) /\ Turns(d, n)
        /\ Len(d.made) = 2 * n + m
    BY DEF Built
  <1>3. kind \in ObjectKinds
    BY <1>2, NamesAre
  <1>4. IsDocument(o) /\ Adds(o, d, kind, size)
    BY <1>1, <1>2, <1>3, Objects
  <1>5. d.made \in Seq(ObjectKinds) /\ d.ObjectList \in Seq(Nat) /\ d.begins \in Seq(Nat)
        /\ d.filesize \in Nat /\ d.written \in Nat
    BY <1>2, PartsAre DEF IsDocument
  <1>6. PICK s, l : s = d.made /\ l = 2 * n + m
    OBVIOUS
  <1>7. s \in Seq(ObjectKinds) /\ Len(s) = l /\ l \in Nat
    BY <1>2, <1>5, <1>6
  <1>8. /\ Len(Append(s, kind)) = l + 1 /\ Append(s, kind)[l + 1] = kind
        /\ \A i \in 1 .. l : Append(s, kind)[i] = s[i]
    BY <1>3, <1>7
  <1>9. /\ Len(o.made) = l + 1 /\ o.made[l + 1] = kind
        /\ \A i \in 1 .. l : o.made[i] = d.made[i]
    BY <1>4, <1>6, <1>8 DEF Adds
  <1>10. l + 1 = 2 * n + (m + 1) /\ l = 2 * n + m
    BY <1>2, <1>6
  <1>11. Listed(o) /\ o.filesize = o.written
    <2>1. /\ Len(o.ObjectList) = Len(d.ObjectList) + 1 /\ Len(o.made) = Len(d.made) + 1
      BY <1>4, <1>5, <1>7, <1>9, <1>6 DEF Adds
    <2>2. d.filesize = d.written
      BY DEF Built
    <2> QED
      BY <1>2, <1>4, <2>1, <2>2 DEF Adds, Listed
  <1>12. Turns(o, n)
    <2>1. o.textobjects = d.textobjects
      BY <1>4 DEF Adds
    <2>2. ASSUME NEW i \in 1 .. 2 * n
          PROVE  o.made[i] = IF i % 2 = 1 THEN "stream" ELSE "length"
      <3>1. i \in 1 .. l
        BY <1>2, <1>10
      <3>2. d.made[i] = IF i % 2 = 1 THEN "stream" ELSE "length"
        BY <1>2 DEF Turns
      <3> QED
        BY <1>9, <3>1, <3>2
    <2> QED
      BY <1>2, <2>1, <2>2 DEF Turns
  <1>13. ASSUME NEW j \in 1 .. m + 1 PROVE o.made[2 * n + j] = Named(j)
    <2>1. CASE j = m + 1
      BY <1>9, <1>10, <2>1
    <2>2. CASE j # m + 1
      <3>1. j \in 1 .. m /\ 2 * n + j \in 1 .. l
        BY <1>2, <1>10, <2>2
      <3>2. d.made[2 * n + j] = Named(j)
        BY <3>1 DEF Built
      <3> QED
        BY <1>9, <3>1, <3>2
    <2> QED
      BY <2>1, <2>2
  <1>14. /\ o.pagenumber = n /\ o.refs \in Seq(Referred(n)) /\ m + 1 \in Nat
         /\ Len(o.made) = 2 * n + (m + 1) /\ o.textobjects = d.textobjects
    BY <1>2, <1>4, <1>9, <1>10 DEF Adds, Built
  <1>15. objcount(o) = 2 * n + (m + 1)
    BY <1>11, <1>14 DEF Listed, objcount
  <1> QED
    BY <1>1, <1>2, <1>4, <1>11, <1>12, <1>13, <1>14, <1>15 DEF Built

LEMMA Referring ==
    ASSUME NEW d, NEW n, NEW m, Built(d, n, m), NEW refs \in Seq(Referred(n))
    PROVE  Built(Refer(d, refs), n, m) /\ objcount(Refer(d, refs)) = objcount(d)
           /\ Refer(d, refs).textobjects = d.textobjects
  <1>1. PICK e : e = Refer(d, refs)
    OBVIOUS
  <1>2. IsDocument(d)
    BY DEF Built
  <1>3. e.refs = d.refs \o refs /\ DOMAIN e = Parts
    BY <1>1, <1>2, PartsAre DEF Refer, IsDocument
  <1>4. /\ e.filesize = d.filesize /\ e.streamsize = d.streamsize /\ e.written = d.written
        /\ e.from = d.from /\ e.ObjectList = d.ObjectList /\ e.begins = d.begins
        /\ e.made = d.made /\ e.textobjects = d.textobjects /\ e.pagenumber = d.pagenumber
        /\ e.lengths = d.lengths /\ e.ended = d.ended /\ e.buf = d.buf
        /\ e.columncheck = d.columncheck /\ e.boldchars = d.boldchars
    BY <1>1, <1>2, PartsAre DEF Refer, IsDocument
  <1>5. IsDocument(e) /\ Listed(e)
    BY <1>2, <1>3, <1>4 DEF IsDocument, Listed, Built
  <1>6. Turns(e, n)
    BY <1>4 DEF Turns, Built
  <1>7. e.refs \in Seq(Referred(n))
    BY <1>3 DEF Built
  <1> QED
    BY <1>1, <1>4, <1>5, <1>6, <1>7 DEF Built, objcount

(* The catalog up to the page tree, then a leaf for each page. *)
LEMMA Tails ==
    ASSUME NEW d, NEW n, Built(d, n, 0), n >= 1
    PROVE  LET e == Font(Font(ProcSet(Outlines(Catalog(d))), "courier"), "bold")
           IN  Built(PageTree(e), n, 6) /\ objcount(PageTree(e)) = 2 * n + 6
  <1>1. /\ Size["catalog"] \in Nat /\ Size["outlines"] \in Nat /\ Size["procset"] \in Nat
        /\ Size["courier"] \in Nat /\ Size["bold"] \in Nat /\ Size["pages"] \in Nat
    BY ScsToPdfAssumption DEF Pieces
  <1>2. n \in Nat
    BY DEF Built
  <1>3. \A j \in 1 .. n + 6 : <<Named(j), 2 * n + j>> \in Referred(n)
    BY DEF Referred
  <1>4. PICK a : a = Catalog(d)
    OBVIOUS
  <1>5. Built(a, n, 1)
    <2>1. PICK o : o = Object(d, "catalog", Size["catalog"])
      OBVIOUS
    <2>2. Built(o, n, 1) /\ objcount(o) = 2 * n + 1
      <3>1. "catalog" = Named(0 + 1) /\ 0 + 1 = 1
        BY NamesAre
      <3>2. Built(o, n, 0 + 1)
        BY <1>1, <1>2, <2>1, <3>1, Adding
      <3>3. Built(o, n, 1)
        BY <3>2
      <3> QED
        BY <3>3 DEF Built, Listed, objcount
    <2>3. <<"outlines", objcount(o) + 1>> \in Referred(n)
      <3>1. 2 \in 1 .. n + 6 /\ objcount(o) + 1 = 2 * n + 2
        BY <1>2, <2>2
      <3> QED
        BY <1>3, <3>1, NamesAre
    <2>4. <<"pages", objcount(o) + 5>> \in Referred(n)
      <3>1. 6 \in 1 .. n + 6 /\ objcount(o) + 5 = 2 * n + 6
        BY <1>2, <2>2
      <3> QED
        BY <1>3, <3>1, NamesAre
    <2>5. PICK refs : refs = <<(<<"outlines", objcount(o) + 1>>), <<"pages", objcount(o) + 5>>>>
      OBVIOUS
    <2>6. refs \in Seq(Referred(n))
      BY <2>3, <2>4, <2>5
    <2>7. Built(Refer(o, refs), n, 1)
      BY <2>2, <2>6, Referring
    <2>8. a = Refer(o, refs)
      BY <1>4, <2>1, <2>5 DEF Catalog
    <2> QED
      BY <2>7, <2>8
  <1>6. PICK b : b = Outlines(a)
    OBVIOUS
  <1>7. Built(b, n, 2)
    <2>1. "outlines" = Named(1 + 1) /\ 1 + 1 = 2
      BY NamesAre
    <2>2. Built(b, n, 1 + 1)
      BY <1>1, <1>5, <1>6, <1>2, <2>1, Adding DEF Outlines
    <2> QED
      BY <2>1, <2>2
  <1>8. PICK c : c = ProcSet(b)
    OBVIOUS
  <1>9. Built(c, n, 3)
    <2>1. "procset" = Named(2 + 1) /\ 2 + 1 = 3
      BY NamesAre
    <2>2. Built(c, n, 2 + 1)
      BY <1>1, <1>7, <1>8, <1>2, <2>1, Adding DEF ProcSet
    <2> QED
      BY <2>1, <2>2
  <1>10. PICK f : f = Font(c, "courier")
    OBVIOUS
  <1>11. Built(f, n, 4)
    <2>1. "courier" = Named(3 + 1) /\ 3 + 1 = 4
      BY NamesAre
    <2>2. Built(f, n, 3 + 1)
      BY <1>1, <1>9, <1>10, <1>2, <2>1, Adding DEF Font
    <2> QED
      BY <2>1, <2>2
  <1>12. PICK g : g = Font(f, "bold")
    OBVIOUS
  <1>13. Built(g, n, 5)
    <2>1. "bold" = Named(4 + 1) /\ 4 + 1 = 5
      BY NamesAre
    <2>2. Built(g, n, 4 + 1)
      BY <1>1, <1>11, <1>12, <1>2, <2>1, Adding DEF Font
    <2> QED
      BY <2>1, <2>2
  <1>14. Built(PageTree(g), n, 6) /\ objcount(PageTree(g)) = 2 * n + 6
    <2>1. g.pagenumber = n
      BY <1>13 DEF Built
    <2>2. PICK o, size : size = Size["pages"] + 20 * g.pagenumber /\ o = Object(g, "pages", size)
      OBVIOUS
    <2>3. size \in Nat
      BY <1>1, <1>2, <2>1, <2>2
    <2>4. Built(o, n, 6) /\ objcount(o) = 2 * n + 6
      <3>1. "pages" = Named(5 + 1) /\ 5 + 1 = 6
        BY NamesAre
      <3>2. Built(o, n, 5 + 1) /\ objcount(o) = 2 * n + (5 + 1)
        BY <1>2, <1>13, <2>2, <2>3, <3>1, Adding
      <3> QED
        BY <3>1, <3>2
    <2>5. PICK refs : refs = [i \in 1 .. g.pagenumber |-> <<"page", objcount(o) + i>>]
      OBVIOUS
    <2>6. ASSUME NEW i \in 1 .. n PROVE <<"page", objcount(o) + i>> \in Referred(n)
      <3>1. 6 + i \in 1 .. n + 6 /\ objcount(o) + i = 2 * n + (6 + i) /\ 6 + i \in Nat /\ 6 + i > 6
        BY <1>2, <2>4
      <3> QED
        BY <1>3, <3>1, NamesAre
    <2>7. refs \in Seq(Referred(n))
      BY <1>2, <2>1, <2>5, <2>6
    <2>8. Built(Refer(o, refs), n, 6) /\ objcount(Refer(o, refs)) = 2 * n + 6
      BY <2>4, <2>7, Referring
    <2>9. PageTree(g) = Refer(o, refs)
      BY <2>2, <2>5 DEF PageTree
    <2> QED
      BY <2>8, <2>9
  <1> QED
    BY <1>4, <1>6, <1>8, <1>10, <1>12, <1>14

LEMMA AddingPage ==
    ASSUME NEW d, NEW n \in Nat, NEW m \in Nat, m >= 6, Built(d, n, m), NEW size \in Nat
    PROVE  /\ Built(Object(d, "page", size), n, m + 1)
           /\ Object(d, "page", size).textobjects = d.textobjects
  <1>1. m + 1 > 6 /\ m + 1 \in Nat
    OBVIOUS
  <1>2. Named(m + 1) = "page"
    BY <1>1, NamesAre
  <1>3. ASSUME NEW kind, kind = Named(m + 1)
        PROVE  /\ Built(Object(d, kind, size), n, m + 1)
               /\ Object(d, kind, size).textobjects = d.textobjects
    BY <1>3, Adding
  <1> QED
    BY <1>2, <1>3

LEMMA Leaf ==
    ASSUME NEW d, NEW n, NEW m \in Nat, Built(d, n, m), NEW i \in 1 .. n, m = i + 5,
           NEW parent, parent = 2 * n + 6
    PROVE  Built(PageLeaf(d, i, parent), n, m + 1)
  <1>1. n \in Nat /\ Size["page"] \in Nat /\ Turns(d, n)
    BY ScsToPdfAssumption DEF Pieces, Built
  <1>2. PICK o, size, kind : /\ size = Size["page"] /\ kind = "page"
                             /\ o = Object(d, kind, size)
    OBVIOUS
  <1>3. Built(o, n, m + 1) /\ o.textobjects = d.textobjects
    <2>1. m >= 6 /\ size \in Nat
      BY <1>1, <1>2
    <2> QED
      BY <1>1, <1>2, <2>1, AddingPage
  <1>4. \A j \in 1 .. n + 6 : <<Named(j), 2 * n + j>> \in Referred(n)
    BY DEF Referred
  <1>5. <<"pages", parent>> \in Referred(n)
    <2>1. 6 \in 1 .. n + 6 /\ parent = 2 * n + 6
      BY <1>1
    <2> QED
      BY <1>4, <2>1, NamesAre
  <1>6. <<"procset", parent - 3>> \in Referred(n)
    <2>1. 3 \in 1 .. n + 6 /\ parent - 3 = 2 * n + 3
      BY <1>1
    <2> QED
      BY <1>4, <2>1, NamesAre
  <1>7. <<"courier", parent - 2>> \in Referred(n)
    <2>1. 4 \in 1 .. n + 6 /\ parent - 2 = 2 * n + 4
      BY <1>1
    <2> QED
      BY <1>4, <2>1, NamesAre
  <1>8. <<"bold", parent - 1>> \in Referred(n)
    <2>1. 5 \in 1 .. n + 6 /\ parent - 1 = 2 * n + 5
      BY <1>1
    <2> QED
      BY <1>4, <2>1, NamesAre
  <1>9. <<"stream", d.textobjects[i]>> \in Referred(n)
    <2>1. d.textobjects[i] = 2 * i - 1
      BY <1>1 DEF Turns
    <2> QED
      BY <2>1 DEF Referred
  <1>10. PICK refs : refs = <<(<<"pages", parent>>), <<"stream", d.textobjects[i]>>,
                             <<"procset", parent - 3>>, <<"courier", parent - 2>>,
                             <<"bold", parent - 1>>>>
    OBVIOUS
  <1>11. refs \in Seq(Referred(n))
    BY <1>5, <1>6, <1>7, <1>8, <1>9, <1>10
  <1>12. Built(Refer(o, refs), n, m + 1)
    BY <1>3, <1>11, Referring
  <1>13. PageLeaf(d, i, parent) = Refer(o, refs)
    BY <1>2, <1>10 DEF PageLeaf
  <1> QED
    BY <1>12, <1>13

LEMMA Leaves ==
    ASSUME NEW d, NEW n, Built(d, n, 6), objcount(d) = 2 * n + 6
    PROVE  Built(PageLeaves(d), n, 6 + n)
  <1> DEFINE N == d.pagenumber
             Step(x, k) == PageLeaf(x, k, objcount(d))
             upto[k \in 0 .. N] == IF k = 0 THEN d ELSE Step(upto[k - 1], k)
  <1>1. N \in Nat /\ N = n
    BY DEF Built
  <1> HIDE DEF Step
  <1>2. upto = [k \in 0 .. N |-> IF k = 0 THEN d ELSE Step(upto[k - 1], k)]
    <2> DEFINE Good(m, f) == /\ f = [k \in 0 .. m |-> f[k]] /\ f[0] = d
                             /\ \A k \in 1 .. m : f[k] = Step(f[k - 1], k)
               T == {m \in Nat : \E f : Good(m, f)}
    <2>1. 0 \in T
      <3>1. Good(0, [k \in 0 .. 0 |-> d])
        OBVIOUS
      <3> QED
        BY <3>1
    <2>2. ASSUME NEW m \in Nat, m \in T PROVE m + 1 \in T
      <3>1. PICK f : Good(m, f)
        BY <2>2
      <3> DEFINE new == [k \in 0 .. m + 1 |-> IF k = m + 1 THEN Step(f[m], m + 1) ELSE f[k]]
      <3>2. /\ new = [k \in 0 .. m + 1 |-> new[k]] /\ new[m + 1] = Step(f[m], m + 1)
            /\ \A k \in 0 .. m : new[k] = f[k]
        OBVIOUS
      <3> HIDE DEF new
      <3>3. ASSUME NEW k \in 1 .. m + 1 PROVE new[k] = Step(new[k - 1], k)
        <4>1. CASE k = m + 1
          <5>1. k - 1 = m /\ m \in 0 .. m
            BY <4>1
          <5> QED
            BY <3>2, <4>1, <5>1
        <4>2. CASE k # m + 1
          <5>1. k \in 1 .. m /\ k - 1 \in 0 .. m /\ k \in 0 .. m
            BY <4>2
          <5> QED
            BY <3>1, <3>2, <5>1
        <4> QED
          BY <4>1, <4>2
      <3>4. new[0] = d
        <4>1. 0 \in 0 .. m /\ f[0] = d
          BY <3>1
        <4> QED
          BY <3>2, <4>1
      <3>5. Good(m + 1, new)
        BY <3>2, <3>3, <3>4, Zenon
      <3>6. m + 1 \in Nat
        OBVIOUS
      <3> HIDE DEF Good
      <3> QED
        BY <3>5, <3>6
    <2> HIDE DEF T
    <2>3. N \in T
      BY <1>1, <2>1, <2>2, Induction
    <2>4. PICK f : Good(N, f)
      BY <2>3 DEF T
    <2>5. ASSUME NEW k \in 0 .. N
          PROVE  f[k] = IF k = 0 THEN d ELSE Step(f[k - 1], k)
      <3>1. k = 0 \/ (k # 0 /\ k \in 1 .. N)
        BY <1>1
      <3> QED
        BY <2>4, <3>1
    <2>6. f = [k \in 0 .. N |-> IF k = 0 THEN d ELSE Step(f[k - 1], k)]
      <3>1. f = [k \in 0 .. N |-> f[k]]
        BY <2>4
      <3> QED
        BY <2>5, <3>1, Zenon
    <2> QED
      BY <2>6
  <1> HIDE DEF upto, N
  <1> DEFINE T == {m \in Nat : m <= N => Built(upto[m], n, 6 + m)}
  <1>3. 0 \in T
    <2>1. upto[0] = d /\ 6 + 0 = 6
      BY <1>1, <1>2
    <2> QED
      BY <2>1
  <1>4. ASSUME NEW m \in Nat, m \in T PROVE m + 1 \in T
    <2> SUFFICES ASSUME m + 1 <= N PROVE Built(upto[m + 1], n, 6 + (m + 1))
      OBVIOUS
    <2>1. Built(upto[m], n, 6 + m)
      BY <1>1, <1>4
    <2>2. m + 1 \in 0 .. N /\ m + 1 # 0 /\ (m + 1) - 1 = m /\ m + 1 \in 1 .. n
      BY <1>1
    <2>3. upto[m + 1] = Step(upto[m], m + 1)
      BY <1>2, <2>2
    <2>4. PICK e, i, k, parent : /\ e = upto[m] /\ i = m + 1 /\ k = 6 + m
                                 /\ parent = objcount(d)
      OBVIOUS
    <2>5. /\ Built(e, n, k) /\ i \in 1 .. n /\ parent = 2 * n + 6
          /\ k \in Nat /\ k = i + 5 /\ k + 1 = 6 + (m + 1)
      BY <2>1, <2>2, <2>4
    <2>6. Built(PageLeaf(e, i, parent), n, k + 1)
      BY <2>5, Leaf
    <2> QED
      BY <2>3, <2>4, <2>5, <2>6 DEF Step
  <1> HIDE DEF T
  <1>5. N \in T
    BY <1>1, <1>3, <1>4, Induction
  <1>6. PageLeaves(d) = upto[N]
    BY DEF PageLeaves, upto, N, Step
  <1> QED
    BY <1>1, <1>5, <1>6 DEF T

(* What XrefRight says of a document. *)
Readable(d) ==
    /\ d.xref = d.begins /\ d.startxref = d.written
    /\ d.lengths = d.ended
    /\ Len(d.textobjects) = d.pagenumber
    /\ IsInjective(d.textobjects)
    /\ \A i \in DOMAIN d.refs : d.made[d.refs[i][2]] = d.refs[i][1]
    /\ \A i \in DOMAIN d.made : d.made[i] = "stream" => d.made[i + 1] = "length"

(* All of it together can be read. *)
LEMMA Readables ==
    ASSUME NEW d, NEW n, Built(d, n, 6 + n), NEW root, root = 2 * n + 1
    PROVE  Readable(Trailer(XrefTable(d), root))
  <1>1. PICK e : e = Trailer(XrefTable(d), root)
    OBVIOUS
  <1>2. n \in Nat /\ IsDocument(d) /\ Listed(d) /\ Turns(d, n) /\ DOMAIN d = Parts
        /\ d.ObjectList \in Seq(Nat) /\ d.textobjects \in Seq(Nat) /\ d.made \in Seq(ObjectKinds)
        /\ Len(d.made) = 2 * n + (6 + n) /\ d.filesize = d.written /\ d.pagenumber = n
    BY PartsAre DEF Built, IsDocument
  <1>3. /\ e.xref = [i \in 1 .. objcount(d) |-> d.ObjectList[i]]
        /\ e.startxref = d.filesize /\ e.refs = d.refs \o <<(<<"catalog", root>>)>>
        /\ e.written = d.written /\ e.begins = d.begins /\ e.made = d.made
    BY <1>1, <1>2, PartsAre DEF Trailer, XrefTable, Refer
  <1>4. /\ e.lengths = d.lengths /\ e.ended = d.ended
        /\ e.textobjects = d.textobjects /\ e.pagenumber = d.pagenumber
    BY <1>1, <1>2, PartsAre DEF Trailer, XrefTable, Refer
  <1>5. e.xref = e.begins
    <2>1. ASSUME NEW s \in Seq(Nat) PROVE s = [i \in 1 .. Len(s) |-> s[i]]
      OBVIOUS
    <2> QED
      BY <1>2, <1>3, <2>1 DEF objcount, Listed
  <1>6. e.startxref = e.written /\ e.lengths = e.ended
    BY <1>2, <1>3, <1>4 DEF Listed
  <1>7. Len(e.textobjects) = e.pagenumber /\ IsInjective(e.textobjects)
    <2>1. Len(d.textobjects) = n /\ DOMAIN d.textobjects = 1 .. n
      BY <1>2 DEF Turns
    <2>2. ASSUME NEW a \in 1 .. n, NEW b \in 1 .. n, d.textobjects[a] = d.textobjects[b]
          PROVE  a = b
      <3>1. d.textobjects[a] = 2 * a - 1 /\ d.textobjects[b] = 2 * b - 1
        BY <1>2 DEF Turns
      <3>2. 2 * a - 1 = 2 * b - 1
        BY <2>2, <3>1, Zenon
      <3>3. a \in Int /\ b \in Int
        BY <1>2
      <3> QED
        BY <3>2, <3>3
    <2> QED
      BY <1>2, <1>4, <2>1, <2>2 DEF IsInjective
  <1>8. ASSUME NEW r \in Referred(n) PROVE d.made[r[2]] = r[1]
    <2>1. CASE r \in {<<"stream", 2 * k - 1>> : k \in 1 .. n}
      <3>1. PICK k \in 1 .. n : r = <<"stream", 2 * k - 1>>
        BY <2>1
      <3>2. 2 * k - 1 \in 1 .. 2 * n /\ (2 * k - 1) % 2 = 1
        BY <1>2
      <3>3. d.made[2 * k - 1] = "stream"
        BY <1>2, <3>2 DEF Turns
      <3> QED
        BY <3>1, <3>3
    <2>2. CASE r \in {<<Named(j), 2 * n + j>> : j \in 1 .. n + 6}
      <3>1. PICK j \in 1 .. n + 6 : r = <<Named(j), 2 * n + j>>
        BY <2>2
      <3>2. j \in 1 .. 6 + n
        BY <1>2
      <3>3. d.made[2 * n + j] = Named(j)
        BY <3>2 DEF Built
      <3> QED
        BY <3>1, <3>3
    <2> QED
      BY <2>1, <2>2 DEF Referred
  <1>9. ASSUME NEW i \in DOMAIN e.refs PROVE e.made[e.refs[i][2]] = e.refs[i][1]
    <2>1. <<"catalog", root>> \in Referred(n)
      <3>1. 1 \in 1 .. n + 6 /\ root = 2 * n + 1
        BY <1>2
      <3> QED
        BY <3>1, NamesAre DEF Referred
    <2>2. e.refs \in Seq(Referred(n))
      BY <1>3, <2>1 DEF Built
    <2>3. e.refs[i] \in Referred(n)
      BY <2>2
    <2> QED
      BY <1>3, <1>8, <2>3
  <1>10. ASSUME NEW i \in DOMAIN e.made, e.made[i] = "stream" PROVE e.made[i + 1] = "length"
    <2>1. i \in 1 .. 2 * n + (6 + n)
      BY <1>2, <1>3
    <2>2. CASE i \in 1 .. 2 * n
      <3>1. d.made[i] = IF i % 2 = 1 THEN "stream" ELSE "length"
        BY <1>2, <2>2 DEF Turns
      <3>2. i % 2 = 1
        BY <1>3, <1>10, <3>1
      <3>3. i + 1 \in 1 .. 2 * n /\ (i + 1) % 2 # 1
        <4>1. i # 2 * n
          BY <1>2, <3>2
        <4>2. PICK m : m = 2 * n
          OBVIOUS
        <4>3. m \in Nat /\ i \in 1 .. m /\ i # m
          BY <1>2, <2>2, <4>1, <4>2
        <4>4. i + 1 \in 1 .. m /\ (i + 1) % 2 # 1
          BY <3>2, <4>3
        <4> QED
          BY <4>2, <4>4
      <3> QED
        BY <1>2, <1>3, <3>3 DEF Turns
    <2>3. CASE ~(i \in 1 .. 2 * n)
      <3>1. PICK j : j = i - 2 * n
        OBVIOUS
      <3>2. j \in 1 .. 6 + n /\ i = 2 * n + j /\ j \in Nat \ {0}
        BY <1>2, <2>1, <2>3, <3>1
      <3>3. d.made[i] = Named(j)
        BY <3>2 DEF Built
      <3> QED
        BY <1>3, <1>10, <3>2, <3>3, NamesAre
    <2> QED
      BY <2>2, <2>3
  <1> QED
    BY <1>1, <1>5, <1>6, <1>7, <1>9, <1>10 DEF Readable

(* pdf main after the last control. *)
LEMMA EndsDocument ==
    ASSUME NEW q, Writing(q)
    PROVE  PdfEnd(q).state = "done" /\ Readable(PdfEnd(q).own)
  <1>1. PICK r, d, n : r = EndPage(q) /\ d = r.own /\ n = d.pagenumber
    OBVIOUS
  <1>2. Reader(r) /\ Closed(d)
    BY <1>1, EndsPage
  <1>3. n \in Nat /\ n >= 1 /\ Built(d, n, 0) /\ objcount(d) = 2 * n
    BY <1>1, <1>2, PartsAre DEF Closed, IsDocument, Built, Listed, objcount
  <1>4. PICK e : e = Font(Font(ProcSet(Outlines(Catalog(d))), "courier"), "bold")
    OBVIOUS
  <1>5. Built(PageTree(e), n, 6) /\ objcount(PageTree(e)) = 2 * n + 6
    BY <1>3, <1>4, Tails
  <1>6. Built(PageLeaves(PageTree(e)), n, 6 + n)
    BY <1>5, Leaves
  <1>7. PICK root, own : /\ root = objcount(d) + 1
                         /\ own = Trailer(XrefTable(PageLeaves(PageTree(e))), root)
    OBVIOUS
  <1>8. Readable(own)
    BY <1>3, <1>6, <1>7, Readables
  <1>9. PdfEnd(q) = [r EXCEPT !.own = own, !.width = PageWidth(r), !.state = "done"]
    BY <1>1, <1>4, <1>7 DEF PdfEnd
  <1> QED
    BY <1>2, <1>8, <1>9, FieldsAre DEF Reader
------------------------------------------------------------------------------
(* The bytes of a stream of controls. *)
LEMMA Flat ==
    ASSUME NEW s \in Seq(Seq(Int))
    PROVE  FlattenSeq(s) \in Seq(Int)
  <1> DEFINE N == Len(s)
             flatten[i \in 1 .. N] == IF i = 1 THEN s[i] ELSE flatten[i - 1] \o s[i]
  <1>1. N \in Nat /\ \A i \in 1 .. N : s[i] \in Seq(Int)
    OBVIOUS
  <1>2. CASE N = 0
    BY <1>2 DEF FlattenSeq
  <1>3. CASE N # 0
    <2>1. flatten = [i \in 1 .. N |-> IF i = 1 THEN s[i] ELSE flatten[i - 1] \o s[i]]
      <3> DEFINE Good(m, f) == /\ f = [k \in 1 .. m |-> f[k]] /\ f[1] = s[1]
                               /\ \A k \in 2 .. m : f[k] = f[k - 1] \o s[k]
                 T == {m \in Nat : \E f : Good(m + 1, f)}
      <3>1. 0 \in T
        <4>1. Good(1, [k \in 1 .. 1 |-> s[1]])
          OBVIOUS
        <4>2. 0 + 1 = 1 /\ 0 \in Nat
          OBVIOUS
        <4> HIDE DEF Good
        <4> QED
          BY <4>1, <4>2
      <3>2. ASSUME NEW m \in Nat, m \in T PROVE m + 1 \in T
        <4>1. PICK f : Good(m + 1, f)
          BY <3>2
        <4> DEFINE joined == f[m + 1] \o s[m + 2]
                   new == [k \in 1 .. m + 2 |-> IF k = m + 2 THEN joined ELSE f[k]]
        <4> HIDE DEF joined
        <4>2. /\ new = [k \in 1 .. m + 2 |-> new[k]] /\ new[m + 2] = joined
              /\ \A k \in 1 .. m + 1 : new[k] = f[k]
          OBVIOUS
        <4> HIDE DEF new
        <4>3. ASSUME NEW k \in 2 .. m + 2 PROVE new[k] = new[k - 1] \o s[k]
          <5>1. CASE k = m + 2
            <6>1. k - 1 = m + 1 /\ m + 1 \in 1 .. m + 1
              BY <5>1
            <6> QED
              BY <4>2, <5>1, <6>1 DEF joined
          <5>2. CASE k # m + 2
            <6>1. k \in 2 .. m + 1 /\ k - 1 \in 1 .. m + 1 /\ k \in 1 .. m + 1
              BY <5>2
            <6> QED
              BY <4>1, <4>2, <6>1
          <5> QED
            BY <5>1, <5>2
        <4>4. new[1] = s[1]
          <5>1. 1 \in 1 .. m + 1 /\ f[1] = s[1]
            BY <4>1
          <5> QED
            BY <4>2, <5>1
        <4>5. Good(m + 2, new)
          BY <4>2, <4>3, <4>4, Zenon
        <4>6. m + 1 \in Nat /\ (m + 1) + 1 = m + 2
          OBVIOUS
        <4> HIDE DEF Good
        <4> QED
          BY <4>5, <4>6
      <3> HIDE DEF T
      <3>3. N - 1 \in Nat /\ (N - 1) + 1 = N
        BY <1>1, <1>3
      <3>4. N - 1 \in T
        BY <3>1, <3>2, <3>3, Induction
      <3>5. PICK f : Good(N, f)
        BY <3>3, <3>4 DEF T
      <3>6. ASSUME NEW k \in 1 .. N
            PROVE  f[k] = IF k = 1 THEN s[k] ELSE f[k - 1] \o s[k]
        <4>1. k = 1 \/ (k # 1 /\ k \in 2 .. N)
          BY <1>1
        <4> QED
          BY <3>5, <4>1
      <3>7. f = [k \in 1 .. N |-> IF k = 1 THEN s[k] ELSE f[k - 1] \o s[k]]
        <4>1. f = [k \in 1 .. N |-> f[k]]
          BY <3>5
        <4> QED
          BY <3>6, <4>1, Zenon
      <3> QED
        BY <3>7
    <2> HIDE DEF flatten, N
    <2> DEFINE T == {m \in Nat : m + 1 <= N => flatten[m + 1] \in Seq(Int)}
    <2>2. 0 \in T
      <3>1. 1 \in 1 .. N
        BY <1>1, <1>3
      <3>2. flatten[1] = s[1]
        BY <2>1, <3>1
      <3> QED
        BY <1>1, <3>1, <3>2
    <2>3. ASSUME NEW m \in Nat, m \in T PROVE m + 1 \in T
      <3> SUFFICES ASSUME m + 2 <= N PROVE flatten[m + 2] \in Seq(Int)
        OBVIOUS
      <3>1. flatten[m + 1] \in Seq(Int)
        BY <1>1, <2>3
      <3>2. m + 2 \in 1 .. N /\ m + 2 # 1 /\ (m + 2) - 1 = m + 1
        BY <1>1
      <3>3. flatten[m + 2] = flatten[m + 1] \o s[m + 2] /\ s[m + 2] \in Seq(Int)
        BY <1>1, <2>1, <3>2
      <3> QED
        BY <3>1, <3>3
    <2> HIDE DEF T
    <2>4. N - 1 \in Nat /\ (N - 1) + 1 = N
      BY <1>1, <1>3
    <2>5. N - 1 \in T
      BY <2>2, <2>3, <2>4, Induction
    <2>6. flatten[N] \in Seq(Int)
      BY <1>1, <2>4, <2>5 DEF T
    <2>7. FlattenSeq(s) = flatten[N]
      BY <1>3 DEF FlattenSeq, flatten, N
    <2> HIDE DEF flatten
    <2> QED
      BY <2>6, <2>7, ZenonT(40)
  <1> QED
    BY <1>2, <1>3

(* While scs2pdf runs a page is being written; when it is done the document *)
(* can be read.                                                             *)
DocumentInv ==
    conv = "pdf" => IF p.state = "done" THEN Readable(p.own) ELSE Writing(p)

(* It holds when the converter starts, and every step keeps it. *)
LEMMA DocumentBegins == ConverterInit => DocumentInv
  <1> SUFFICES ASSUME ConverterInit, conv = "pdf" PROVE Writing(p) /\ p.state # "done"
    BY DEF DocumentInv
  <1>1. stream \in Seq(Controls)
    BY PrintFormatsAssumption DEF ConverterInit
  <1>2. PICK s : s = [i \in DOMAIN stream |-> stream[i].bytes]
    OBVIOUS
  <1>3. s \in Seq(Seq(Int))
    <2>1. ASSUME NEW i \in 1 .. Len(stream) PROVE stream[i].bytes \in Seq(Int)
      <3>1. stream[i] \in Controls
        BY <1>1
      <3>2. stream[i].bytes \in Seq(0 .. 255)
        BY <3>1 DEF Controls
      <3>3. PICK t : t = stream[i].bytes
        OBVIOUS
      <3>4. t \in Seq(0 .. 255)
        BY <3>2, <3>3
      <3>5. t \in Seq(Int)
        <4>1. PICK B : B = 0 .. 255
          OBVIOUS
        <4>2. B \subseteq Int /\ t \in Seq(B)
          BY <3>4, <4>1
        <4> QED
          BY <4>2, SeqMonotonic
      <3> QED
        BY <3>3, <3>5
    <2> QED
      BY <1>1, <1>2, <2>1
  <1>4. Bytes \in Seq(Int)
    BY <1>2, <1>3, Flat DEF Bytes
  <1>5. p = PdfStart(Bytes)
    BY DEF ConverterInit, Started
  <1>6. Writing(p)
    BY <1>4, <1>5, Starts
  <1> QED
    BY <1>6 DEF Writing, Reader

LEMMA DocumentKept == DocumentInv /\ [ConverterNext]_converterVars => DocumentInv'
  <1> SUFFICES ASSUME DocumentInv, [ConverterNext]_converterVars, conv' = "pdf"
               PROVE  DocumentInv'
    BY DEF DocumentInv
  <1>1. CASE PdfStep
    <2>1. Writing(p) /\ p.in # << >>
      BY <1>1 DEF PdfStep, Running, DocumentInv
    <2>2. Writing(p')
      BY <1>1, <2>1, ControlsKeep DEF PdfStep
    <2> QED
      BY <2>2 DEF DocumentInv, Writing, Reader
  <1>2. CASE DocumentEnd
    <2>1. Writing(p)
      BY <1>2 DEF DocumentEnd, DocumentInv
    <2>2. p'.state = "done" /\ Readable(p'.own)
      BY <1>2, <2>1, EndsDocument DEF DocumentEnd
    <2> QED
      BY <2>2 DEF DocumentInv
  <1>3. CASE AsciiStep \/ PsStep \/ TextEnd
    BY <1>3 DEF AsciiStep, PsStep, TextEnd
  <1>4. CASE UNCHANGED converterVars
    BY <1>4 DEF converterVars, DocumentInv
  <1> QED
    BY <1>1, <1>2, <1>3, <1>4 DEF ConverterNext

(* The document scs2pdf leaves behind can be read, for every stream of      *)
(* controls, buffer length and size of the pieces of the file.              *)
THEOREM DocumentRight == ConverterSpec => []XrefRight
  <1>1. DocumentInv => XrefRight
    BY DEF DocumentInv, XrefRight, Readable
  <1> QED
    BY <1>1, DocumentBegins, DocumentKept, PTL DEF ConverterSpec
==============================================================================
