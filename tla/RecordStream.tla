----------------------------- MODULE RecordStream ------------------------------
(***************************************************************************)
(* What a 5250 stream promises the session: the bytes the host put between *)
(* two end-of-record marks arrive as one record, whatever telnet sends in   *)
(* between, and the records are handed over in their order.                 *)
(***************************************************************************)
EXTENDS Naturals, Sequences

VARIABLES script,    (* the tokens of the host, in order: records with a    *)
                     (* field kind ("data", "eor" and others) and a byte     *)
          taken,     (* how many of them have been taken                     *)
          current,   (* the bytes of the record that is not complete        *)
          records,   (* complete records not yet handed over                *)
          delivered  (* the records handed over                             *)

vars == <<script, taken, current, records, delivered>>

Init == /\ taken = 0
        /\ current = <<>>
        /\ records = <<>>
        /\ delivered = <<>>

Token == script[taken + 1]

Take == /\ taken < Len(script)
        /\ taken' = taken + 1
        /\ UNCHANGED <<script, delivered>>

Data == /\ Take
        /\ Token.kind = "data"
        /\ current' = Append(current, Token.byte)
        /\ UNCHANGED records

EndOfRecord == /\ Take
               /\ Token.kind = "eor"
               /\ records' = Append(records, current)
               /\ current' = <<>>

(* Negotiation of options leaves the records alone. *)
Negotiation == /\ Take
               /\ Token.kind \notin {"data", "eor"}
               /\ UNCHANGED <<current, records>>

HandOver == /\ records # <<>>
            /\ delivered' = Append(delivered, Head(records))
            /\ records' = Tail(records)
            /\ UNCHANGED <<script, taken, current>>

Next == Data \/ EndOfRecord \/ Negotiation \/ HandOver

Spec == Init /\ [][Next]_vars
==============================================================================
