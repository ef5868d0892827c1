----------------------------- MODULE TelnetStream ------------------------------
(***************************************************************************)
(* The receiving half of a telnet 5250 stream: telnet_stream_get_byte        *)
(* decodes the bytes of the socket, telnet_stream_handle_receive forms        *)
(* records of what it returns, options are answered on the way.  A read may *)
(* find no more data after any byte; the state of the decoder stays in the   *)
(* stream, but the verb of a negotiation is a local variable.               *)
(*                                                                         *)
(* The host is external.  It sends tokens, each of at most three bytes.     *)
(***************************************************************************)
EXTENDS Naturals, Sequences

CONSTANT Scripts     (* what hosts send: sequences of tokens *)

(* TTYPE, ENVIRON and BINARY stand for the options the program supports      *)
(* (BINARY for END_OF_RECORD too), OTHER for the remaining ones, x for any   *)
(* other byte.  NOEOR is 0xE7, which is -END_OF_RECORD cut to eight bits.    *)
Verbs == {"DO", "DONT", "WILL", "WONT"}
Supported == {"TTYPE", "ENVIRON", "BINARY"}
Byte == Verbs \cup Supported \cup {"IAC", "SB", "SE", "EOR", "NOP", "SEND",
                                   "OTHER", "x", "NOEOR"}

(* A byte of a record, the end of one, a command without an option, a verb   *)
(* and its option, the start, a byte and the end of a sub-negotiation.       *)
TokenKinds == Verbs \cup {"data", "eor", "nop", "sb", "sbdata", "se"}
Tokens == [kind : TokenKinds, byte : Byte]

(* The bytes of a token: data that looks like IAC is escaped. *)
Encode(t) ==
    CASE t.kind \in {"data", "sbdata"} -> IF t.byte = "IAC" THEN <<"IAC", "IAC">>
                                                            ELSE <<t.byte>>
      [] t.kind = "eor" -> <<"IAC", "EOR">>
      [] t.kind = "nop" -> <<"IAC", "NOP">>
      [] t.kind = "sb"  -> <<"IAC", "SB">>
      [] t.kind = "se"  -> <<"IAC", "SE">>
      [] t.kind \in Verbs -> <<"IAC", t.kind, t.byte>>

InSb(s, i) == i > 1 /\ s[i - 1].kind \in {"sb", "sbdata"}

(* The host keeps to telnet: sub-negotiations are not interrupted, one about *)
(* the terminal type has its second byte (the code looks at it unchecked),   *)
(* and no record is empty (each one has a header).                          *)
WellFormed(s) ==
    /\ \A i \in DOMAIN s : InSb(s, i) <=> s[i].kind \in {"sbdata", "se"}
    /\ \A i \in DOMAIN s : i > 2 /\ s[i].kind = "se" /\ s[i - 2].kind = "sb"
          => s[i - 1].byte # "TTYPE"
    /\ \A i \in DOMAIN s :
          s[i].kind = "eor" =>
              \E j \in 1 .. i - 1 :
                  /\ s[j].kind = "data"
                  /\ \A k \in j .. i - 1 : s[k].kind # "eor"

ASSUME TelnetAssumption == /\ Scripts \subseteq Seq(Tokens)
                           /\ \A s \in Scripts : WellFormed(s)

VARIABLES
    script,     (* what this host sends                                      *)
    at,         (* the number of the token the next byte belongs to          *)
    off,        (* the number of bytes of it that were read                  *)
    phase,      (* "session", "receive" (in handle_receive), or "closed"     *)
    state,      (* stream->state                                             *)
    verb,       (* the local variable of get_byte                            *)
    sbBuf,      (* stream->sb_buf                                            *)
    current,    (* stream->current_record, empty for none                    *)
    records,    (* stream->records                                           *)
    delivered,  (* the records the session took                              *)
    reply       (* what the last step sent to the host                       *)

vars == <<script, at, off, phase, state, verb, sbBuf, current, records,
          delivered, reply>>

States == {"NO_DATA", "DATA", "HAVE_IAC", "HAVE_VERB", "HAVE_SB", "HAVE_SB_IAC"}
Undefined == "UNDEFINED"
NoReply == [verb |-> "NONE", option |-> "NONE"]

TypeOK ==
    /\ script \in Seq(Tokens)
    /\ at \in 1 .. Len(script) + 1
    /\ off \in 0 .. 2
    /\ phase \in {"session", "receive", "closed"}
    /\ state \in States
    /\ verb \in Verbs \cup {Undefined}
    /\ sbBuf \in Seq(Byte)
    /\ current \in Seq(Byte)
    /\ records \in Seq(Seq(Byte))
    /\ delivered \in Seq(Seq(Byte))
    /\ reply \in [verb : Byte, option : Byte] \cup {NoReply}

Init ==
    /\ script \in Scripts
    /\ at = 1
    /\ off = 0
    /\ phase = "session"
    /\ state = "DATA"
    /\ verb = Undefined
    /\ sbBuf = <<>>
    /\ current = <<>>
    /\ records = <<>>
    /\ delivered = <<>>
    /\ reply = NoReply
------------------------------------------------------------------------------
Bytes == Encode(script[at])

(* The next byte of the socket has arrived. *)
ReadByte ==
    /\ phase = "receive"
    /\ at <= Len(script)
    /\ IF off + 1 = Len(Bytes) THEN at' = at + 1 /\ off' = 0
                               ELSE at' = at /\ off' = off + 1
    /\ UNCHANGED <<script, phase, delivered>>

temp == Bytes[off + 1]

(* get_byte goes on to the next byte in state s. *)
GoOn(s) == /\ state' = s
           /\ UNCHANGED <<verb, sbBuf, current, records>>
           /\ reply' = NoReply

(* get_byte returns byte b, which handle_receive appends to the record. *)
ReturnByte(b) == /\ state' = "DATA"
                 /\ current' = Append(current, b)
                 /\ UNCHANGED <<verb, sbBuf, records>>
                 /\ reply' = NoReply

(* get_byte returns -END_OF_RECORD.  Without a record, the value is taken   *)
(* for a byte.                                                             *)
ReturnEndOfRecord ==
    /\ state' = "DATA"
    /\ current' = IF current = <<>> THEN <<"NOEOR">> ELSE <<>>
    /\ records' = IF current = <<>> THEN records ELSE Append(records, current)
    /\ UNCHANGED <<verb, sbBuf>>
    /\ reply' = NoReply

InData ==
    /\ state \in {"NO_DATA", "DATA"}
    /\ IF temp = "IAC" THEN GoOn("HAVE_IAC") ELSE ReturnByte(temp)

HaveIac ==
    /\ state = "HAVE_IAC"
    /\ \/ temp = "IAC" /\ ReturnByte("IAC")
       \/ /\ temp \in Verbs
          /\ state' = "HAVE_VERB"
          /\ verb' = temp
          /\ UNCHANGED <<sbBuf, current, records>>
          /\ reply' = NoReply
       \/ /\ temp = "SB"
          /\ state' = "HAVE_SB"
          /\ sbBuf' = <<>>
          /\ UNCHANGED <<verb, current, records>>
          /\ reply' = NoReply
       \/ temp = "EOR" /\ ReturnEndOfRecord
       \/ temp \notin Verbs \cup {"IAC", "SB", "EOR"} /\ GoOn("NO_DATA")

(* A mutant: the verb itself is sent back. *)
EchoVerb(v, option) ==
    CASE v = "DO"   -> {IF option \in Supported THEN "WILL" ELSE "WONT"}
      [] v = "WILL" -> {IF option \in Supported THEN "DO" ELSE "DONT"}
      [] OTHER      -> {v}

(* telnet_stream_do_verb: the verb of the answer, any byte when the code    *)
(* does not set it.                                                        *)
Answers(v, option) ==
    CASE v = "DO"   -> {IF option \in Supported THEN "WILL" ELSE "WONT"}
      [] v = "WILL" -> {IF option \in Supported THEN "DO" ELSE "DONT"}
      [] OTHER      -> Byte

(* A mutant: the verb is sent where the option belongs. *)
VerbTwice ==
    /\ state = "HAVE_VERB"
    /\ state' = "NO_DATA"
    /\ \E a \in Answers(verb, temp) : reply' = [verb |-> a, option |-> a]
    /\ UNCHANGED <<verb, sbBuf, current, records>>

HaveVerb ==
    /\ state = "HAVE_VERB"
    /\ state' = "NO_DATA"
    /\ \E a \in Answers(verb, temp) : reply' = [verb |-> a, option |-> temp]
    /\ UNCHANGED <<verb, sbBuf, current, records>>

HaveSb ==
    /\ state = "HAVE_SB"
    /\ IF temp = "IAC"
       THEN GoOn("HAVE_SB_IAC")
       ELSE /\ sbBuf' = Append(sbBuf, temp)
            /\ UNCHANGED <<state, verb, current, records>>
            /\ reply' = NoReply

(* telnet_stream_sb: the terminal type is sent when it is asked for, the    *)
(* environment always.                                                     *)
SbReply(buf) ==
    IF buf # <<>> /\ (buf[1] = "ENVIRON" \/ (Len(buf) > 1 /\ buf[1] = "TTYPE"
                                                          /\ buf[2] = "SEND"))
    THEN [verb |-> "SB", option |-> buf[1]]
    ELSE NoReply

(* An escaped IAC does not leave the state. *)
HaveSbIac ==
    /\ state = "HAVE_SB_IAC"
    /\ \/ /\ temp = "IAC"
          /\ sbBuf' = Append(sbBuf, "IAC")
          /\ UNCHANGED <<state, verb, current, records>>
          /\ reply' = NoReply
       \/ /\ temp = "SE"
          /\ reply' = SbReply(sbBuf)
          /\ sbBuf' = <<>>
          /\ state' = "NO_DATA"
          /\ UNCHANGED <<verb, current, records>>
       \/ temp \notin {"IAC", "SE"} /\ GoOn("HAVE_SB")

GetByte == ReadByte /\ (InData \/ HaveIac \/ HaveVerb \/ HaveSb \/ HaveSbIac)

(* The event loop finds the socket readable. *)
Receive ==
    /\ phase = "session"
    /\ phase' = "receive"
    /\ reply' = NoReply
    /\ UNCHANGED <<script, at, off, state, verb, sbBuf, current, records, delivered>>

(* A mutant: the state of the decoder is local too. *)
ForgetState ==
    /\ phase = "receive"
    /\ phase' = "session"
    /\ verb' = Undefined
    /\ state' = "NO_DATA"
    /\ reply' = NoReply
    /\ UNCHANGED <<script, at, off, sbBuf, current, records, delivered>>

(* No data waits: get_byte returns, and its local variable is gone. *)
NoMoreData ==
    /\ phase = "receive"
    /\ phase' = "session"
    /\ verb' = Undefined
    /\ reply' = NoReply
    /\ UNCHANGED <<script, at, off, state, sbBuf, current, records, delivered>>

Disconnected ==
    /\ phase = "receive"
    /\ phase' = "closed"
    /\ reply' = NoReply
    /\ UNCHANGED <<script, at, off, state, verb, sbBuf, current, records, delivered>>

(* tn5250_stream_get_record; the session takes one record or all of them.   *)
GetRecord ==
    /\ phase = "session"
    /\ records # <<>>
    /\ delivered' = Append(delivered, Head(records))
    /\ records' = Tail(records)
    /\ reply' = NoReply
    /\ UNCHANGED <<script, at, off, phase, state, verb, sbBuf, current>>

Stopped == phase = "closed" /\ UNCHANGED vars

Next == GetByte \/ Receive \/ NoMoreData \/ Disconnected \/ GetRecord \/ Stopped

Spec == Init /\ [][Next]_vars
------------------------------------------------------------------------------
(* Hosts that send no 0xFF right before a 0xF0 in a sub-negotiation: the ones *)
(* this decoder can serve, and of which the next two properties hold.        *)
SafeSb(s) == \A i \in DOMAIN s : i > 1 /\ s[i].kind = "sbdata" /\ s[i].byte = "SE"
                => ~(s[i - 1].kind = "sbdata" /\ s[i - 1].byte = "IAC")

Stream == INSTANCE RecordStream WITH taken <- at - 1

(* The session gets the records the host sent, byte for byte, wherever the   *)
(* reads end: a read may end inside an escape, a verb or a sub-negotiation.  *)
RecordsIntact == Stream!Spec

(* The data bytes of the sub-negotiation that ends with token i. *)
SbStart(i) == CHOOSE j \in 1 .. i : /\ script[j].kind = "sb"
                                    /\ \A k \in j + 1 .. i : script[k].kind # "sb"
SbData(i) == [n \in 1 .. i - SbStart(i) - 1 |-> script[SbStart(i) + n].byte]

(* An answer is sent when, and only when, the last byte of a verb or of a    *)
(* sub-negotiation has been read, and it answers what the host said, however *)
(* the reads were cut.  Two verbs are excepted: the code answers DONT and    *)
(* WONT with a byte it never set, and forgets the verb when a read ends      *)
(* between it and its option.                                              *)
AnswersTheHost ==
    [][at' # at =>
         CASE script[at].kind \in {"DO", "WILL"} /\ verb # Undefined ->
                /\ reply'.verb \in Answers(script[at].kind, script[at].byte)
                /\ reply'.option = script[at].byte
           [] script[at].kind \in Verbs -> reply'.option = script[at].byte
           [] script[at].kind = "se" -> reply' = SbReply(SbData(at))
           [] OTHER -> reply' = NoReply]_vars
==============================================================================
