--------------------------- MODULE TelnetConnection ----------------------------
(***************************************************************************)
(* A telnet 5250 stream from its start: the connection is made to the first *)
(* address that answers, then the session receives (module TelnetStream) and *)
(* sends.  telnet_stream_send_packet puts a header before the data, escapes  *)
(* both, and writes until the socket has taken everything; the answers of    *)
(* the negotiation are sent in one attempt.  The session is single-threaded: *)
(* nothing is read while a packet is written.                               *)
(***************************************************************************)
EXTENDS TelnetStream, SequencesExt

CONSTANTS
    Resolved,      (* what a host name may resolve to                       *)
    Outgoing,      (* the packets the session sends to the host of a script *)
    Room,          (* how many bytes the socket may take at once            *)
    TermType,      (* the terminal type                                     *)
    Environment    (* the names and values of the configured "env." entries *)

Octet == 0 .. 255
Packets == [flow : 0 .. 65535, flags : Octet, opcode : Octet, data : Seq(Octet)]

ASSUME TelnetConnectionAssumption ==
    /\ \A a \in Resolved : \A i \in DOMAIN a : a[i] \in {"answers", "refuses", "noSocket"}
    /\ Outgoing \in [Scripts -> Seq(Packets)]
    /\ Room \subseteq Nat \ {0} /\ Room # {}

(* The bytes of telnet. *)
Code(b) ==
    CASE b = "IAC" -> 255 [] b = "DONT" -> 254 [] b = "DO" -> 253 [] b = "WONT" -> 252
      [] b = "WILL" -> 251 [] b = "SB" -> 250 [] b = "SE" -> 240 [] b = "EOR" -> 239
      [] b = "ENVIRON" -> 39 [] b = "TTYPE" -> 24 [] b = "OTHER" -> 6 [] b = "BINARY" -> 0
IAC == Code("IAC")

(* What a telnet host makes of the bytes it gets. *)
HostStart == [at |-> "data", buf |-> <<>>, record |-> <<>>, records |-> <<>>, answers |-> <<>>]
HostReads(h, b) ==
    CASE h.at = "data" ->
            IF b = IAC THEN [h EXCEPT !.at = "iac"] ELSE [h EXCEPT !.record = Append(@, b)]
      [] h.at = "iac" ->
            CASE b = IAC         -> [h EXCEPT !.at = "data", !.record = Append(@, b)]
              [] b = Code("EOR") -> [h EXCEPT !.at = "data", !.record = <<>>,
                                              !.records = Append(@, h.record)]
              [] b = Code("SB")  -> [h EXCEPT !.at = "sb", !.buf = <<>>]
              [] OTHER           -> [h EXCEPT !.at = "verb", !.buf = <<b>>]
      [] h.at = "verb" -> [h EXCEPT !.at = "data", !.answers = Append(@, Append(h.buf, b))]
      [] h.at = "sb" -> IF b = IAC THEN [h EXCEPT !.at = "sbiac"]
                                   ELSE [h EXCEPT !.buf = Append(@, b)]
      [] h.at = "sbiac" ->
            IF b = Code("SE") THEN [h EXCEPT !.at = "data", !.answers = Append(@, h.buf)]
                              ELSE [h EXCEPT !.at = "sb", !.buf = Append(@, b)]
HostGets(h, bytes) ==
    LET read[n \in 0 .. Len(bytes)] == IF n = 0 THEN h ELSE HostReads(read[n - 1], bytes[n])
    IN read[Len(bytes)]

VARIABLES
    link,          (* "connecting", "connected", or "failed"; SslStream adds *)
                   (* "opening" and "handshake"                              *)
    addresses,     (* the addresses still to be tried                        *)
    outbox,        (* what the session still has to send                     *)
    out,           (* the bytes of the packet being written                  *)
    host,          (* ghost: what the host has read                          *)
    whole          (* ghost: every answer was defined and sent in one piece  *)

sendVars == <<outbox, out, host, whole>>
allVars == <<vars, link, addresses, sendVars>>

ConnectionInit ==
    /\ Init
    /\ link = "connecting" /\ addresses \in Resolved
    /\ outbox = Outgoing[script]
    /\ out = <<>> /\ host = HostStart /\ whole = TRUE
------------------------------------------------------------------------------
(* The addresses of the host are tried in turn. *)
TryAddressUntil(reached) ==
    /\ link = "connecting" /\ addresses # <<>>
    /\ CASE Head(addresses) = "answers"  -> link' = reached /\ addresses' = <<>>
         [] Head(addresses) = "refuses"  -> link' = link /\ addresses' = Tail(addresses)
         [] Head(addresses) = "noSocket" -> link' = "failed" /\ addresses' = <<>>
    /\ UNCHANGED <<vars, sendVars>>

TryAddress == TryAddressUntil("connected")

NoAddressLeft ==
    /\ link = "connecting" /\ addresses = <<>>
    /\ link' = "failed"
    /\ UNCHANGED <<vars, addresses, sendVars>>
------------------------------------------------------------------------------
(* A variable and its value in the answer to NEW-ENVIRON, as they are.      *)
VarValue(v) == <<0>> \o v.name \o <<1>> \o v.value

(* The bytes of an answer.  IS is zero. *)
AnswerBytes(r) ==
    CASE r = NoReply -> <<>>
      [] r.verb = "SB" -> <<IAC, Code("SB"), Code(r.option), 0>>
            \o (IF r.option = "TTYPE" THEN TermType
                ELSE FlattenSeq([i \in DOMAIN Environment |-> VarValue(Environment[i])]))
            \o <<IAC, Code("SE")>>
      [] r.verb \in Verbs -> <<IAC, Code(r.verb), Code(r.option)>>

(* The answer to DONT and WONT, and to a verb that was forgotten, begins     *)
(* with a byte nobody set; a socket without room takes a part of an answer.  *)
(* What the host gets after such an answer is not followed.                  *)
Defined == reply' # NoReply /\ state = "HAVE_VERB" => verb \in {"DO", "WILL"}

AnswerSent ==
    \/ /\ Defined /\ whole
       /\ host' = HostGets(host, AnswerBytes(reply')) /\ UNCHANGED whole
    \/ /\ reply' # NoReply
       /\ whole' = FALSE /\ UNCHANGED host
    \/ /\ Defined /\ ~whole
       /\ UNCHANGED <<host, whole>>

(* The session at work while no packet is being written. *)
Running == link = "connected" /\ out = <<>>

ReceiveByte ==
    /\ Running /\ GetByte /\ AnswerSent
    /\ UNCHANGED <<link, addresses, outbox, out>>

OtherStep ==
    /\ Running /\ (Receive \/ NoMoreData \/ Disconnected \/ GetRecord)
    /\ UNCHANGED <<link, addresses, sendVars>>
------------------------------------------------------------------------------
(* The header counts itself and the data, before escaping. *)
HeaderBytes(p) ==
    LET length == Len(p.data) + 10
    IN <<(length \div 256) % 256, length % 256, 18, 160,
         p.flow \div 256, p.flow % 256, 4, p.flags, 0, p.opcode>>

Escape(bytes) ==
    FlattenSeq([i \in DOMAIN bytes |-> IF bytes[i] = IAC THEN <<IAC, IAC>> ELSE <<bytes[i]>>])

(* A mutant: the header is not escaped. *)
DataEscaped(p) == HeaderBytes(p) \o Escape(p.data) \o <<IAC, Code("EOR")>>

PacketBytes(p) == Escape(HeaderBytes(p) \o p.data) \o <<IAC, Code("EOR")>>

SendPacket ==
    /\ Running /\ phase = "session" /\ outbox # <<>>
    /\ out' = PacketBytes(Head(outbox)) /\ outbox' = Tail(outbox)
    /\ reply' = NoReply
    /\ UNCHANGED <<script, at, off, phase, state, verb, sbBuf, current, records, delivered,
                   link, addresses, host, whole>>

(* telnet_stream_write: the socket takes some bytes.  An interrupted select  *)
(* and a socket without room change nothing.                                *)
WriteSome ==
    /\ out # <<>> /\ phase = "session"
    /\ \E room \in Room :
          LET n == IF room < Len(out) THEN room ELSE Len(out)
          IN /\ out' = SubSeq(out, n + 1, Len(out))
             /\ host' = IF whole THEN HostGets(host, SubSeq(out, 1, n)) ELSE host
    /\ UNCHANGED <<vars, link, addresses, outbox, whole>>

(* Any other error ends the program, also when an answer is sent. *)
WriteError ==
    /\ link = "connected" /\ phase \in {"session", "receive"}
    /\ out = <<>> => phase = "receive"
    /\ phase' = "closed" /\ reply' = NoReply
    /\ UNCHANGED <<script, at, off, state, verb, sbBuf, current, records, delivered,
                   link, addresses, sendVars>>

Ended == (link = "failed" \/ phase = "closed") /\ UNCHANGED allVars

ConnectionNext ==
    \/ TryAddress \/ NoAddressLeft
    \/ ReceiveByte \/ OtherStep
    \/ SendPacket \/ WriteSome \/ WriteError
    \/ Ended

ConnectionSpec == ConnectionInit /\ [][ConnectionNext]_allVars
------------------------------------------------------------------------------
Asked(i) == \/ script[i].kind \in {"DO", "WILL"}
            \/ script[i].kind = "se" /\ SbReply(SbData(i)) # NoReply

(* The host gets what the session sent: each packet is one record, whole, in *)
(* order and with its own length in front, however the socket cut it up, and *)
(* whatever was negotiated before, between and after them; and it gets one   *)
(* answer for each question.                                                *)
PacketsArrive ==
    whole =>
        LET sent == Outgoing[script]
        IN /\ Len(host.records) = Len(sent) - Len(outbox) - (IF out = <<>> THEN 0 ELSE 1)
           /\ \A i \in DOMAIN host.records :
                 LET r == host.records[i]
                 IN /\ r[1] * 256 + r[2] = Len(r) /\ r[8] = sent[i].flags
                    /\ r[10] = sent[i].opcode /\ SubSeq(r, 11, Len(r)) = sent[i].data
           /\ out = <<>> => host.at = "data" /\ host.record = <<>>
           /\ Len(host.answers) = Cardinality({i \in 1 .. at - 1 : Asked(i)})
================================================================================
