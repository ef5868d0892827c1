----------------------------- MODULE PrintSession ------------------------------
(***************************************************************************)
(* A printer session (lp5250d): tn5250_print_session_main_loop waits for    *)
(* data, lets the stream form records of it, handles one of them and waits  *)
(* again.  Each record but Clear is answered with Print Complete; a record  *)
(* goes to the output command of its job, a short one ends the job.         *)
(*                                                                         *)
(* The host is external: it sends a script of records and has at most       *)
(* Window of them unanswered.  A record is its number in the script.        *)
(***************************************************************************)
EXTENDS Naturals, Sequences, FiniteSets

CONSTANTS Scripts,   (* the sequences of records the host may send *)
          Window     (* the answers the host goes on without       *)

(* START: the startup response, with a code that reports success.  REFUSED:  *)
(* one with another code.  END: a record of 0x11 bytes.                      *)
Kinds == {"START", "REFUSED", "CLEAR", "DATA", "END"}

ASSUME PrintSessionAssumption ==
    /\ Scripts \subseteq Seq(Kinds)
    /\ \A s \in Scripts : \A i \in DOMAIN s :
          (i = 1 <=> s[i] \in {"START", "REFUSED"})
    /\ Window \in Nat \ {0}

VARIABLES
    script,    (* what this host sends                                      *)
    next,      (* the number of the record the host sends next              *)
    closed,    (* the host has closed the connection                        *)
    wire,      (* records sent and not yet read                             *)
    records,   (* stream->records, complete records not yet handled         *)
    pc,        (* "startup" or "wait", where the two loops wait, "answer",    *)
               (* "print", "exit" or "killed"                               *)
    rec,       (* the record it handles, 0 for none                         *)
    newjob,    (* the next record starts a job                              *)
    jobs,      (* what each output command has read                         *)
    buffered,  (* records written to printfile and still in its buffer      *)
    complete   (* the Print Complete records sent                           *)

vars == <<script, next, closed, wire, records, pc, rec, newjob, jobs, buffered,
          complete>>

Init ==
    /\ script \in Scripts
    /\ next = 1
    /\ closed = FALSE
    /\ wire = <<>>
    /\ records = <<>>
    /\ pc = "startup"
    /\ rec = 0
    /\ newjob = TRUE
    /\ jobs = <<>>
    /\ buffered = <<>>
    /\ complete = 0
------------------------------------------------------------------------------
(* The host. *)
Answered(n) == script[n] \in {"DATA", "END"}
Unanswered == Cardinality({i \in 1 .. next - 1 : Answered(i)}) - complete

HostSend ==
    /\ ~closed
    /\ next <= Len(script)
    /\ Answered(next) => Unanswered < Window
    /\ wire' = Append(wire, next)
    /\ next' = next + 1
    /\ UNCHANGED <<script, closed, records, pc, rec, newjob, jobs, buffered,
                   complete>>

HostClose ==
    /\ ~closed
    /\ closed' = TRUE
    /\ UNCHANGED <<script, next, wire, records, pc, rec, newjob, jobs, buffered,
                   complete>>
------------------------------------------------------------------------------
(* telnet_stream_handle_receive: as much as has arrived is read, n complete  *)
(* records and perhaps part of another.                                      *)
ReadRecords(n) ==
    /\ pc \in {"startup", "wait"}
    /\ n <= Len(wire)
    /\ records \o SubSeq(wire, 1, n) # <<>>
    /\ wire' = SubSeq(wire, n + 1, Len(wire))

(* What the loop sees once it has read: the records, the oldest first. *)
Received(n) == records \o SubSeq(wire, 1, n)

(* The job that is being written once some records have left the buffer. *)
Passed(some) ==
    [k \in DOMAIN jobs |-> IF k = Len(jobs) THEN jobs[k] \o some ELSE jobs[k]]

(* The end of the connection is only found after all that was sent, and then *)
(* nothing that was read with it is handled.  exit flushes what is buffered.  *)
SocketClosed ==
    /\ pc \in {"startup", "wait"}
    /\ closed
    /\ records' = records \o wire
    /\ wire' = <<>>
    /\ pc' = "exit"
    /\ jobs' = Passed(buffered)
    /\ buffered' = <<>>
    /\ UNCHANGED <<script, next, closed, rec, newjob, complete>>

(* The first loop: the startup response record. *)
Startup(n) ==
    /\ pc = "startup"
    /\ wire # <<>>
    /\ ReadRecords(n)
    /\ records' = Tail(Received(n))
    /\ pc' = IF script[Head(Received(n))] = "START" THEN "wait" ELSE "exit"
    /\ UNCHANGED <<script, next, closed, rec, newjob, jobs, buffered, complete>>

(* A mutant: a record is only taken where a job begins. *)
GetFirstOfJob(n) ==
    /\ pc = "wait"
    /\ newjob
    /\ wire # <<>>
    /\ ReadRecords(n)
    /\ records' = Tail(Received(n))
    /\ rec' = Head(Received(n))
    /\ newjob' = FALSE
    /\ jobs' = Append(jobs, <<>>)
    /\ pc' = IF script[rec'] = "CLEAR" THEN "wait" ELSE "answer"
    /\ UNCHANGED <<script, next, closed, buffered, complete>>

(* The second loop: one record, for which a job is begun if there is none.  *)
(* Clear is not answered.                                                   *)
GetRecord(n) ==
    /\ pc = "wait"
    /\ wire # <<>>
    /\ ReadRecords(n)
    /\ records' = Tail(Received(n))
    /\ rec' = Head(Received(n))
    /\ newjob' = FALSE
    /\ jobs' = IF newjob THEN Append(jobs, <<>>) ELSE jobs
    /\ pc' = IF script[rec'] = "CLEAR" THEN "wait" ELSE "answer"
    /\ UNCHANGED <<script, next, closed, buffered, complete>>

(* tn5250_stream_send_packet (Print Complete) *)
SendPrintComplete ==
    /\ pc = "answer"
    /\ complete' = complete + 1
    /\ pc' = "print"
    /\ UNCHANGED <<script, next, closed, wire, records, rec, newjob, jobs, buffered>>

(* fprintf to printfile, byte by byte.  A stream from popen is buffered: what  *)
(* fits stays in the process, and when the buffer is full its oldest bytes go  *)
(* to the command.  A record of which some bytes stay is not passed on yet.    *)
WriteData(n) ==
    /\ pc = "print"
    /\ script[rec] = "DATA"
    /\ LET written == Append(buffered, rec)
       IN  /\ jobs' = Passed(SubSeq(written, 1, n))
           /\ buffered' = SubSeq(written, n + 1, Len(written))
    /\ pc' = "wait"
    /\ UNCHANGED <<script, next, closed, wire, records, rec, newjob, complete>>

(* A mutant: the end of a job does not ask for a new one. *)
EndNoJob ==
    /\ pc = "print"
    /\ script[rec] = "END"
    /\ jobs' = Passed(buffered)
    /\ buffered' = <<>>
    /\ pc' = "wait"
    /\ UNCHANGED <<script, next, closed, wire, records, rec, newjob, complete>>

(* A mutant: the job is not closed before a new one is asked for. *)
EndUnclosed ==
    /\ pc = "print"
    /\ script[rec] = "END"
    /\ newjob' = TRUE
    /\ pc' = "wait"
    /\ UNCHANGED <<script, next, closed, wire, records, rec, jobs, buffered, complete>>

(* pclose: what is buffered is flushed before the command sees its end. *)
EndJob ==
    /\ pc = "print"
    /\ script[rec] = "END"
    /\ jobs' = Passed(buffered)
    /\ buffered' = <<>>
    /\ newjob' = TRUE
    /\ pc' = "wait"
    /\ UNCHANGED <<script, next, closed, wire, records, rec, complete>>

Over == pc \in {"exit", "killed"}

(* SIGTERM, or SIGPIPE when the output command is gone: nothing is flushed. *)
Killed ==
    /\ ~Over
    /\ pc' = "killed"
    /\ buffered' = <<>>
    /\ UNCHANGED <<script, next, closed, wire, records, rec, newjob, jobs, complete>>

Stopped == Over /\ UNCHANGED vars

Loop == \/ SendPrintComplete
        \/ EndJob
        \/ \E n \in 0 .. Len(buffered) + 1 : WriteData(n)
        \/ \E n \in 0 .. Len(wire) : Startup(n) \/ GetRecord(n)

Next == HostSend \/ HostClose \/ Loop \/ SocketClosed \/ Killed \/ Stopped

Spec == Init /\ [][Next]_vars

FairSpec == Spec /\ WF_vars(Loop) /\ WF_vars(SocketClosed) /\ WF_vars(HostSend)
------------------------------------------------------------------------------
(* The records taken from the stream, and those that are done with. *)
Taken == next - 1 - Len(wire) - Len(records)
Handled == IF pc \in {"answer", "print"} THEN Taken - 1 ELSE Taken

(* The job a record belongs to: a short record is the last of its job. *)
JobOf(i) == 1 + Cardinality({j \in 1 .. i - 1 : script[j] = "END"})

RecordsOfJob(k) == {i \in 1 .. Handled : script[i] = "DATA" /\ JobOf(i) = k}
JobsBegun == IF Taken < 2 THEN 0 ELSE JobOf(Taken)

Elements(s) == {s[i] : i \in DOMAIN s}
Increasing(s) == \A i, j \in DOMAIN s : i < j => s[i] < s[j]

(* What was written for each job, read by its command or buffered for it. *)
Written == Passed(buffered)

(* Every job gets the records the host sent in it, in their order, and no   *)
(* other: however the records arrive and whenever the buffer goes out, none  *)
(* is skipped, repeated, or handed to the output command of another job; and *)
(* a program that ends by itself leaves none behind (printsession.c:290-338). *)
JobsInOrder ==
    pc # "killed" =>
        /\ Len(jobs) = JobsBegun
        /\ \A k \in DOMAIN jobs : /\ Elements(Written[k]) = RecordsOfJob(k)
                                 /\ Increasing(Written[k])
        /\ pc = "exit" => buffered = <<>>

Printed == UNION {Elements(jobs[k]) : k \in DOMAIN jobs}
Confirmed == {i \in 1 .. Len(script) :
                 Answered(i) /\ Cardinality({j \in 1 .. i : Answered(j)}) <= complete}

(* The records the host takes for printed that no command has read: those    *)
(* that are lost if the program is killed now, or was killed before.         *)
Lost == {i \in Confirmed \ Printed : script[i] = "DATA"}

(* Print Complete is sent before the record is written, and what is written  *)
(* stays in the buffer of the pipe (printsession.c:301-329).  Wherever the   *)
(* program is killed, what the host takes for printed and is not is the end   *)
(* of the one job that was open: no job that was closed misses a record, no   *)
(* record is missing before one that was printed, and nothing is lost when    *)
(* the program ends because the host closed the connection.                  *)
OnlyOpenJobLoses ==
    /\ newjob \/ pc = "exit" => Lost = {}
    /\ \A i \in Lost : /\ JobOf(i) = Len(jobs)
                       /\ \A j \in Printed : j < i

(* As long as no two records are read at once, each one is handled. *)
KeepsUp ==
    [](pc = "wait" => records = <<>>)
        => (wire # <<>> ~> ((wire = <<>> /\ pc = "wait") \/ Over))

(* "This function continually loops, waiting for print jobs ... When it gets *)
(* one, it sends it to the output command": a record that was read is        *)
(* handled in the end.                                                       *)
EveryRecordHandled == records # <<>> ~> (records = <<>> \/ Over)
==============================================================================
