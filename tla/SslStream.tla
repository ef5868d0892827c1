------------------------------- MODULE SslStream -------------------------------
(***************************************************************************)
(* Both kinds of stream: tn5250_stream_open takes its type from what the     *)
(* name of the host begins with.  A telnet stream is module TelnetConnection. *)
(* An SSL stream decodes and forms records in the same way, with functions of *)
(* its own, and differs in how it connects and in how it reads and writes:    *)
(* OpenSSL takes what it is given whole or not at all, and may ask to be      *)
(* called again.  OpenSSL is external.                                       *)
(***************************************************************************)
EXTENDS TelnetConnection

CONSTANTS
    Urls,          (* what the name of a host may begin with                *)
    Certificates,  (* what a server may present                             *)
    CheckExpiry,   (* the option "ssl_check_exp"                            *)
    VerifyServer   (* the option "ssl_verify_server"                        *)

(* stream_types, without the type that replays trace files; a name without a
   prefix is telnet's. *)
stream_types == [prefix \in {"telnet:", "tn5250:", "ssl:", "telnet-ssl:", "telnets:", ""} |->
                    IF prefix \in {"telnet:", "tn5250:", ""} THEN "telnet" ELSE "ssl"]

ASSUME SslAssumption ==
    /\ Urls \subseteq DOMAIN stream_types
    /\ Certificates \subseteq [presented : BOOLEAN, expired : BOOLEAN, verified : BOOLEAN]
    /\ CheckExpiry \in BOOLEAN /\ VerifyServer \in BOOLEAN

VARIABLES
    type,      (* which functions the stream has: "none", "telnet" or "ssl"  *)
    broken     (* OpenSSL can neither read nor write any more                *)

streamVars == <<allVars, type, broken>>

StreamInit ==
    /\ Init
    /\ type = "none" /\ broken = FALSE
    /\ link = "opening" /\ addresses \in Resolved
    /\ outbox = Outgoing[script]
    /\ out = <<>> /\ host = HostStart /\ whole = TRUE

(* tn5250_stream_open, up to the call of connect *)
Open ==
    /\ link = "opening" /\ type = "none"
    /\ \E prefix \in Urls : type' = stream_types[prefix]
    /\ link' = IF type' = "telnet" THEN "connecting" ELSE "opening"
    /\ UNCHANGED <<vars, addresses, sendVars, broken>>
------------------------------------------------------------------------------
(* The context, with the authority's file and the client's certificate: a     *)
(* file that cannot be loaded, or an expired certificate of the client, ends   *)
(* the attempt.                                                              *)
SslContext ==
    /\ link = "opening" /\ type = "ssl"
    /\ link' \in {"connecting", "failed"}
    /\ UNCHANGED <<vars, addresses, sendVars, type, broken>>

SslTryAddress == (TryAddressUntil("handshake") \/ NoAddressLeft) /\ UNCHANGED <<type, broken>>

Accepted(c) == /\ c.presented
               /\ CheckExpiry => ~c.expired
               /\ VerifyServer => c.verified

(* SSL_connect.  When it fails, connect asks for the error of the result of    *)
(* its own comparison, which is positive and so no error, and reports that it  *)
(* is connected.                                                             *)
Handshake ==
    /\ link = "handshake"
    /\ \/ /\ link' \in {IF Accepted(c) THEN "connected" ELSE "failed" : c \in Certificates}
          /\ UNCHANGED broken
       \/ link' = "connected" /\ broken' = TRUE
    /\ UNCHANGED <<vars, addresses, sendVars, type>>
------------------------------------------------------------------------------
(* An answer is written whole: only the byte nobody set makes it undefined.   *)
SslAnswerSent ==
    IF Defined /\ whole
    THEN host' = HostGets(host, AnswerBytes(reply')) /\ UNCHANGED whole
    ELSE whole' = FALSE /\ UNCHANGED host

(* ssl_stream_get_byte: the same decoder on what SSL_read returns, with the    *)
(* answers of ssl_stream_do_verb to verbs and of ssl_stream_sb to the rest.    *)
SslAnswersVerb == HaveVerb /\ SslAnswerSent
SslAnswersSb == HaveSbIac /\ SslAnswerSent
SslGetByte ==
    /\ Running /\ ~broken /\ ReadByte
    /\ \/ (InData \/ HaveIac \/ HaveSb) /\ UNCHANGED <<host, whole>>
       \/ SslAnswersVerb
       \/ SslAnswersSb
    /\ UNCHANGED <<link, addresses, outbox, out, type, broken>>

(* ssl_stream_get_next without a byte: OpenSSL waits for the host, or for room *)
(* to write, which is waited for here; or the stream is at its end.           *)
SslGetNext == (~broken /\ NoMoreData) \/ Disconnected

(* ssl_stream_handle_receive, and the session that takes the records. *)
SslOtherStep ==
    /\ Running /\ (Receive \/ SslGetNext \/ GetRecord)
    /\ UNCHANGED <<link, addresses, sendVars, type, broken>>

(* An answer that cannot be written at once ends the program. *)
SslAnswerFails ==
    /\ out = <<>> /\ phase = "receive" /\ WriteError
    /\ UNCHANGED <<type, broken>>
------------------------------------------------------------------------------
(* ssl_stream_send_packet *)
SslSendPacket == SendPacket /\ UNCHANGED <<type, broken>>

(* ssl_stream_write: OpenSSL sends the packet in pieces of its own, and is     *)
(* called until it has sent all; also after an error from which it does not    *)
(* recover, and then for ever.                                               *)
SslWrite == ~broken /\ WriteSome /\ UNCHANGED <<type, broken>>
SslWriteAgain ==
    /\ out # <<>>
    /\ broken' = TRUE
    /\ UNCHANGED <<allVars, type>>

SslEnded == Ended /\ UNCHANGED <<type, broken>>

TelnetStep == type = "telnet" /\ ConnectionNext /\ UNCHANGED <<type, broken>>
SslStep ==
    /\ type = "ssl"
    /\ \/ SslContext \/ SslTryAddress \/ Handshake
       \/ SslGetByte \/ SslOtherStep \/ SslAnswerFails
       \/ SslSendPacket \/ SslWrite \/ SslWriteAgain
       \/ SslEnded

StreamNext == Open \/ TelnetStep \/ SslStep

StreamSpec == StreamInit /\ [][StreamNext]_streamVars
================================================================================
