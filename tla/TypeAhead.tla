------------------------------ MODULE TypeAhead ------------------------------
(***************************************************************************)
(* What the type-ahead queue of a display promises: keys wait in the order *)
(* they were typed, the oldest is handed out first, and all of them can be *)
(* dropped at once.  A queue of Size slots holds at most Size - 1 keys;    *)
(* what tn5250_display_do_keys makes of one more is part of the contract:  *)
(* the whole queue is lost.                                                *)
(***************************************************************************)
EXTENDS Naturals, Sequences

CONSTANTS Key,   (* the keys that can be typed                *)
          Size   (* the number of slots of the queue          *)

VARIABLE pending (* the keys that wait, the oldest first      *)

TypeOK == pending \in Seq(Key) /\ Len(pending) < Size

Init == pending = <<>>

(* A mutant: the test for a full queue comes one key late. *)
RoomOneMore == Len(pending) < Size

Room == Len(pending) + 1 < Size

(* A key typed ahead.  A queue without room loses all it holds. *)
Put(k) == pending' = IF Room THEN Append(pending, k) ELSE <<>>

(* The oldest key is handed to the display. *)
Take == /\ pending # <<>>
        /\ pending' = Tail(pending)

(* A key that is acted upon at once discards what was typed before it. *)
Flush == pending' = <<>>

Next == (\E k \in Key : Put(k)) \/ Take \/ Flush

Spec == Init /\ [][Next]_pending
==============================================================================
