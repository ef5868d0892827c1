------------------------------- MODULE KeyRing -------------------------------
(***************************************************************************)
(* The ring key_queue / key_queue_head / key_queue_tail of Tn5250Display   *)
(* as waitevent and do_keys use it.  The ring is empty when both indices   *)
(* are equal, so one slot always stays free.                               *)
(***************************************************************************)
EXTENDS Naturals, Sequences

CONSTANTS Key,        (* the keys that can be typed                        *)
          KEYQ_SIZE,  (* TN5250_DISPLAY_KEYQ_SIZE                          *)
          NoKey       (* what calloc leaves in a slot that was not written *)

ASSUME RingAssumption == /\ KEYQ_SIZE \in Nat \ {0, 1}
                         /\ NoKey \notin Key

VARIABLES head, tail, slots

vars == <<head, tail, slots>>

Index == 0 .. KEYQ_SIZE - 1

TypeOK == /\ head \in Index
          /\ tail \in Index
          /\ slots \in [Index -> Key \cup {NoKey}]

Init == /\ head = 0
        /\ tail = 0
        /\ slots = [i \in Index |-> NoKey]

(* An index moves one slot on and wraps at the end of the array. *)
After(i) == IF i + 1 = KEYQ_SIZE THEN 0 ELSE i + 1

(* do_keys stores a key it may not act upon yet.  Its test for a full ring *)
(* only beeps: the key is stored and tail moves all the same.             *)
Enqueue(k) == /\ slots' = [slots EXCEPT ![tail] = k]
              /\ tail' = After(tail)
              /\ UNCHANGED head

(* A mutant: the emptiness of the ring is not tested. *)
DequeueAlways == /\ head' = After(head)
                 /\ UNCHANGED <<tail, slots>>

(* waitevent hands the key at head to do_key, then moves head. *)
Dequeue == /\ head # tail
           /\ head' = After(head)
           /\ UNCHANGED <<tail, slots>>

(* A mutant: only the head goes back. *)
ClearHeadOnly == /\ head # tail
                 /\ head' = 0
                 /\ UNCHANGED <<tail, slots>>

(* do_keys acts upon a key at once and clears the queue before. *)
Clear == /\ head # tail
         /\ head' = 0
         /\ tail' = 0
         /\ UNCHANGED slots

Next == (\E k \in Key : Enqueue(k)) \/ Dequeue \/ Clear

Spec == Init /\ [][Next]_vars
------------------------------------------------------------------------------
(* The number of keys between the indices, and the keys themselves. *)
Count == IF head <= tail THEN tail - head ELSE tail + KEYQ_SIZE - head

SlotOf(i) == IF head + i - 1 < KEYQ_SIZE THEN head + i - 1
                                         ELSE head + i - 1 - KEYQ_SIZE

Pending == [i \in 1 .. Count |-> slots[SlotOf(i)]]

Queue == INSTANCE TypeAhead WITH Size <- KEYQ_SIZE, pending <- Pending

(* The ring is a first-in first-out queue of the keys typed ahead: wrapping *)
(* the two indices independently never reorders, repeats or invents a key.  *)
FifoQueue == Queue!Spec

(* No slot the queue will hand out was left unwritten. *)
NoUnwrittenSlot == \A i \in 1 .. Count : Pending[i] \in Key
==============================================================================
