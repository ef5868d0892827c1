-------------------------- MODULE TelnetStream_proofs --------------------------
(***************************************************************************)
(* Proofs about the receiving half of both kinds of stream: for every set of  *)
(* well-formed sessions whose sub-negotiations the decoder can serve, the     *)
(* records arrive intact and the host gets the answers it asked for.         *)
(*                                                                         *)
(* The argument: whenever a token begins, the decoder stands in a state that *)
(* only depends on whether a sub-negotiation is open (DecoderInStep); a       *)
(* record is begun whenever the host has sent a byte since the last end of   *)
(* one (RecordBegun), so an end of record is never taken for a byte; the      *)
(* option of a verb finds that verb or none (VerbHeld); and the buffer of a   *)
(* sub-negotiation agrees with its data as far as the code looks (Collected). *)
(*                                                                         *)
(* Everything is shown for the decoder alone (Spec) and for the streams it    *)
(* is a part of (StreamSpec), whose other steps leave it alone (Silent).      *)
(***************************************************************************)
EXTENDS SslStream, TLAPS

Here == script[at]

DecoderInStep ==
    /\ off > 0 => at <= Len(script) /\ off < Len(Encode(Here))
    /\ off = 0 /\ ~InSb(script, at) => state \in {"NO_DATA", "DATA"}
    /\ off = 0 /\ InSb(script, at) =>
          \/ state = "HAVE_SB"
          \/ /\ state = "HAVE_SB_IAC"
             /\ script[at - 1].kind = "sbdata"
             /\ script[at - 1].byte = "IAC"
    /\ off = 1 => state = IF Here.kind \in {"sbdata", "se"} THEN "HAVE_SB_IAC"
                                                            ELSE "HAVE_IAC"
    /\ off = 2 => state = "HAVE_VERB"

RecordBegun ==
    current = <<>> =>
        \A j \in 1 .. at - 1 :
            script[j].kind = "data" => \E k \in j .. at - 1 : script[k].kind = "eor"

VerbHeld == off = 2 => verb \in {Here.kind, Undefined}

(* The buffer of a sub-negotiation that began with token j and of which the  *)
(* tokens before i were read.  An escaped IAC may be kept twice and the byte *)
(* after it lost, but what comes before it is in place.                      *)
Agrees(buf, j, i) ==
    /\ i = j + 1 => buf = <<>>
    /\ i > j + 1 => Len(buf) >= 1 /\ buf[1] = script[j + 1].byte
    /\ script[j + 1].byte # "IAC" =>
          /\ i = j + 2 => Len(buf) = 1
          /\ i > j + 2 => Len(buf) >= 2 /\ buf[2] = script[j + 2].byte

Collected ==
    InSb(script, at) =>
        \E j \in 1 .. at - 1 :
            /\ script[j].kind = "sb"
            /\ \A k \in j + 1 .. at - 1 : script[k].kind = "sbdata"
            /\ Agrees(sbBuf, j, at)

IInv == /\ TypeOK
        /\ script \in Scripts
        /\ DecoderInStep
        /\ RecordBegun
        /\ VerbHeld
        /\ Collected

(* A step that is no step of the decoder, and any step of the stream. *)
Silent == /\ UNCHANGED <<script, at, off, state, sbBuf, current, records, delivered>>
          /\ verb' \in {verb, Undefined}
          /\ phase' \in {"session", "receive", "closed"}
          /\ reply' \in {reply, NoReply}
Step == GetByte \/ GetRecord \/ Silent

(* What the decoder does to the records when it has read a byte. *)
NoToken == at' = at /\ UNCHANGED <<current, records>>
DataToken == /\ at' = at + 1
             /\ Here.kind = "data"
             /\ current' = Append(current, Here.byte)
             /\ UNCHANGED records
EorToken == /\ at' = at + 1
            /\ Here.kind = "eor"
            /\ records' = Append(records, current)
            /\ current' = <<>>
OtherToken == /\ at' = at + 1
              /\ Here.kind \notin {"data", "eor"}
              /\ UNCHANGED <<current, records>>
Effect == NoToken \/ DataToken \/ EorToken \/ OtherToken
------------------------------------------------------------------------------
(* The encoding of a token, by its kind. *)
LEMMA Encoding ==
    ASSUME NEW t \in Tokens
    PROVE  /\ t.kind \in {"data", "sbdata"} /\ t.byte # "IAC" => Encode(t) = <<t.byte>>
           /\ t.kind \in {"data", "sbdata"} /\ t.byte = "IAC" => Encode(t) = <<"IAC", "IAC">>
           /\ t.kind = "eor" => Encode(t) = <<"IAC", "EOR">>
           /\ t.kind = "nop" => Encode(t) = <<"IAC", "NOP">>
           /\ t.kind = "sb" => Encode(t) = <<"IAC", "SB">>
           /\ t.kind = "se" => Encode(t) = <<"IAC", "SE">>
           /\ t.kind \in Verbs => Encode(t) = <<"IAC", t.kind, t.byte>>
  BY DEF Encode, Tokens, TokenKinds, Verbs

(* What is known of the token a byte is read of. *)
LEMMA Known ==
    ASSUME IInv, at <= Len(script)
    PROVE  /\ at \in DOMAIN script
           /\ Here \in Tokens
           /\ InSb(script, at) <=> Here.kind \in {"sbdata", "se"}
  <1>1. at \in DOMAIN script /\ Here \in Tokens
    BY DEF IInv, TypeOK, Here
  <1>2. WellFormed(script)
    BY TelnetAssumption DEF IInv
  <1> QED
    BY <1>1, <1>2 DEF WellFormed, Here

(* An end of record finds a record. *)
LEMMA NotEmpty ==
    ASSUME IInv, at <= Len(script), Here.kind = "eor"
    PROVE  current # <<>>
  <1>1. at \in DOMAIN script
    BY Known
  <1>2. WellFormed(script)
    BY TelnetAssumption DEF IInv
  <1>3. PICK j \in 1 .. at - 1 : /\ script[j].kind = "data"
                                 /\ \A k \in j .. at - 1 : script[k].kind # "eor"
    BY <1>1, <1>2 DEF WellFormed, Here
  <1> QED
    BY <1>3 DEF IInv, RecordBegun

(* Where the next byte is: in the same token or at the start of the next. *)
LEMMA Position ==
    ASSUME IInv, ReadByte
    PROVE  /\ off \in Nat
           /\ temp = Encode(Here)[off + 1]
           /\ off + 1 = Len(Encode(Here)) =>
                 /\ at' = at + 1
                 /\ off' = 0
                 /\ InSb(script, at)' <=> Here.kind \in {"sb", "sbdata"}
                 /\ script'[at' - 1] = Here
           /\ off + 1 # Len(Encode(Here)) =>
                 /\ at' = at
                 /\ off' = off + 1
                 /\ Here' = Here
                 /\ Encode(Here)' = Encode(Here)
                 /\ at' <= Len(script')
                 /\ InSb(script, at)' <=> InSb(script, at)
                 /\ script'[at' - 1] = script[at - 1]
  BY DEF IInv, TypeOK, ReadByte, temp, Bytes, Here, InSb

(* A byte that is not the last of its token: the states in step with it. *)
LEMMA InToken ==
    ASSUME IInv, ReadByte, off + 1 < Len(Encode(Here)), off \in {0, 1},
           off = 0 => state' = IF Here.kind \in {"sbdata", "se"} THEN "HAVE_SB_IAC"
                                                                ELSE "HAVE_IAC",
           off = 1 => state' = "HAVE_VERB"
    PROVE  at' = at /\ DecoderInStep'
  <1>1. /\ at' = at /\ off' = off + 1 /\ Here' = Here
        /\ Encode(Here)' = Encode(Here) /\ at' <= Len(script')
    BY Position
  <1>2. (off > 0 => at <= Len(script) /\ off < Len(Encode(Here)))'
    BY <1>1
  <1>3. (off = 1 => state = IF Here.kind \in {"sbdata", "se"} THEN "HAVE_SB_IAC"
                                                             ELSE "HAVE_IAC")'
    <2>1. Here'.kind = Here.kind
      BY <1>1
    <2>2. off' = 1 => off = 0
      BY <1>1
    <2> QED
      BY <2>1, <2>2
  <1>4. off' # 0 /\ (off' = 2 => state' = "HAVE_VERB")
    BY <1>1
  <1> QED
    BY <1>1, <1>2, <1>3, <1>4 DEF DecoderInStep

(* A byte of a record. *)
LEMMA DataByte ==
    ASSUME IInv, ReadByte, InData \/ HaveIac \/ HaveVerb \/ HaveSb \/ HaveSbIac,
           Here.kind = "data"
    PROVE  (NoToken \/ DataToken) /\ DecoderInStep'
  <1>1. at <= Len(script) /\ Here \in Tokens /\ ~InSb(script, at)
    BY Known DEF ReadByte
  <1>2. CASE Here.byte # "IAC"
    <2>1. Encode(Here) = <<Here.byte>>
      BY <1>1, <1>2, Encoding
    <2>2. off = 0 /\ temp = Here.byte
      BY <2>1, Position DEF IInv, DecoderInStep
    <2>3. ReturnByte(Here.byte)
      BY <1>1, <1>2, <2>2
      DEF IInv, DecoderInStep, InData, HaveIac, HaveVerb, HaveSb, HaveSbIac
    <2> QED
      BY <2>1, <2>2, <2>3, Position DEF ReturnByte, DataToken, DecoderInStep
  <1>3. CASE Here.byte = "IAC"
    <2>1. Encode(Here) = <<"IAC", "IAC">> /\ Len(Encode(Here)) = 2
      BY <1>1, <1>3, Encoding
    <2>2. off \in {0, 1} /\ temp = "IAC"
      BY <2>1, Position DEF IInv, DecoderInStep
    <2>3. CASE off = 0
      <3>1. GoOn("HAVE_IAC")
        BY <1>1, <2>2, <2>3
        DEF IInv, DecoderInStep, InData, HaveIac, HaveVerb, HaveSb, HaveSbIac
      <3> QED
        <4>1. Len(Encode(Here)) = 2
          BY <2>1
        <4> QED
          BY <2>3, <3>1, <4>1, InToken DEF GoOn, NoToken
    <2>4. CASE off = 1
      <3>1. ReturnByte("IAC")
        BY <2>2, <2>4
        DEF IInv, DecoderInStep, InData, HaveIac, HaveVerb, HaveSb, HaveSbIac, Verbs
      <3> QED
        BY <1>3, <2>1, <2>4, <3>1, Position DEF ReturnByte, DataToken, DecoderInStep
    <2> QED
      BY <2>2, <2>3, <2>4
  <1> QED
    BY <1>2, <1>3

(* A byte of an end of record, a command, or the start of a sub-negotiation. *)
LEMMA PlainByte ==
    ASSUME IInv, ReadByte, InData \/ HaveIac \/ HaveVerb \/ HaveSb \/ HaveSbIac,
           Here.kind \in {"eor", "nop", "sb"}
    PROVE  (NoToken \/ EorToken \/ OtherToken) /\ DecoderInStep'
  <1>1. at <= Len(script) /\ Here \in Tokens /\ ~InSb(script, at)
    BY Known DEF ReadByte
  <1>2. /\ Len(Encode(Here)) = 2
        /\ Encode(Here)[1] = "IAC"
        /\ Here.kind = "eor" => Encode(Here)[2] = "EOR"
        /\ Here.kind = "nop" => Encode(Here)[2] = "NOP"
        /\ Here.kind = "sb" => Encode(Here)[2] = "SB"
    BY <1>1, Encoding
  <1>3. off \in {0, 1}
    BY <1>2, Position DEF IInv, DecoderInStep
  <1>4. CASE off = 0
    <2>1. GoOn("HAVE_IAC")
      BY <1>1, <1>2, <1>4, Position
      DEF IInv, DecoderInStep, InData, HaveIac, HaveVerb, HaveSb, HaveSbIac
    <2> QED
      BY <1>2, <1>4, <2>1, InToken DEF GoOn, NoToken
  <1>5. CASE off = 1
    <2>1. state = "HAVE_IAC" /\ HaveIac
      BY <1>5 DEF IInv, DecoderInStep, InData, HaveIac, HaveVerb, HaveSb, HaveSbIac
    <2>2. CASE Here.kind = "eor"
      <3>1. temp = "EOR" /\ current # <<>>
        BY <1>1, <1>2, <1>5, <2>2, Position, NotEmpty
      <3>2. ReturnEndOfRecord
        BY <2>1, <3>1 DEF HaveIac, Verbs
      <3> QED
        BY <1>2, <1>5, <2>2, <3>1, <3>2, Position
        DEF ReturnEndOfRecord, EorToken, DecoderInStep
    <2>3. CASE Here.kind = "nop"
      <3>1. temp = "NOP"
        BY <1>2, <1>5, <2>3, Position
      <3>2. GoOn("NO_DATA")
        BY <2>1, <3>1 DEF HaveIac, Verbs
      <3> QED
        BY <1>2, <1>5, <2>3, <3>2, Position DEF GoOn, OtherToken, DecoderInStep
    <2>4. CASE Here.kind = "sb"
      <3>1. temp = "SB"
        BY <1>2, <1>5, <2>4, Position
      <3>2. state' = "HAVE_SB" /\ UNCHANGED <<current, records>>
        BY <2>1, <3>1 DEF HaveIac, Verbs
      <3> QED
        BY <1>2, <1>5, <2>4, <3>2, Position DEF OtherToken, DecoderInStep
    <2> QED
      BY <2>2, <2>3, <2>4
  <1> QED
    BY <1>3, <1>4, <1>5

(* A byte of a verb and its option. *)
LEMMA VerbByte ==
    ASSUME IInv, ReadByte, InData \/ HaveIac \/ HaveVerb \/ HaveSb \/ HaveSbIac,
           Here.kind \in Verbs
    PROVE  (NoToken \/ OtherToken) /\ DecoderInStep'
  <1>1. at <= Len(script) /\ Here \in Tokens /\ ~InSb(script, at)
    BY Known DEF ReadByte, Verbs
  <1>2. /\ Len(Encode(Here)) = 3
        /\ Encode(Here)[1] = "IAC"
        /\ Encode(Here)[2] = Here.kind
    BY <1>1, Encoding
  <1>3. off \in {0, 1, 2}
    BY <1>2, Position DEF IInv, DecoderInStep
  <1>4. Here.kind \notin {"data", "eor", "sb", "sbdata", "se", "IAC", "SB", "EOR"}
    BY DEF Verbs
  <1>5. CASE off = 0
    <2>1. GoOn("HAVE_IAC")
      BY <1>1, <1>2, <1>5, Position
      DEF IInv, DecoderInStep, InData, HaveIac, HaveVerb, HaveSb, HaveSbIac
    <2> QED
      BY <1>2, <1>4, <1>5, <2>1, InToken DEF GoOn, NoToken
  <1>6. CASE off = 1
    <2>1. state = "HAVE_IAC" /\ HaveIac
      BY <1>4, <1>6 DEF IInv, DecoderInStep, InData, HaveIac, HaveVerb, HaveSb, HaveSbIac
    <2>2. temp = Here.kind
      BY <1>2, <1>6, Position
    <2>3. state' = "HAVE_VERB" /\ UNCHANGED <<current, records>>
      BY <1>4, <2>1, <2>2 DEF HaveIac
    <2> QED
      BY <1>2, <1>6, <2>3, InToken DEF NoToken
  <1>7. CASE off = 2
    <2>1. state' = "NO_DATA" /\ UNCHANGED <<current, records>>
      BY <1>7 DEF IInv, DecoderInStep, InData, HaveIac, HaveVerb, HaveSb, HaveSbIac
    <2> QED
      BY <1>2, <1>4, <1>7, <2>1, Position DEF OtherToken, DecoderInStep
  <1> QED
    BY <1>3, <1>5, <1>6, <1>7

(* A byte within a sub-negotiation. *)
LEMMA SbByte ==
    ASSUME IInv, SafeSb(script), ReadByte,
           InData \/ HaveIac \/ HaveVerb \/ HaveSb \/ HaveSbIac,
           Here.kind = "sbdata"
    PROVE  (NoToken \/ OtherToken) /\ DecoderInStep'
  <1>1. /\ at <= Len(script) /\ Here \in Tokens /\ InSb(script, at)
        /\ at \in DOMAIN script
    BY Known DEF ReadByte
  <1>2. CASE Here.byte # "IAC"
    <2>1. Encode(Here) = <<Here.byte>>
      BY <1>1, <1>2, Encoding
    <2>2. off = 0 /\ temp = Here.byte
      BY <2>1, Position DEF IInv, DecoderInStep
    <2>3. \/ state = "HAVE_SB"
          \/ state = "HAVE_SB_IAC" /\ Here.byte # "SE"
      BY <1>1, <2>2 DEF IInv, DecoderInStep, SafeSb, Here, InSb
    <2>4. state' = "HAVE_SB" /\ UNCHANGED <<current, records>>
      BY <1>2, <2>2, <2>3 DEF InData, HaveIac, HaveVerb, HaveSb, HaveSbIac, GoOn
    <2> QED
      BY <2>1, <2>2, <2>4, Position DEF OtherToken, DecoderInStep
  <1>3. CASE Here.byte = "IAC"
    <2>1. Encode(Here) = <<"IAC", "IAC">>
      BY <1>1, <1>3, Encoding
    <2>2. Len(Encode(Here)) = 2
      BY <2>1
    <2>3. off \in {0, 1} /\ temp = "IAC"
      BY <2>1, Position DEF IInv, DecoderInStep
    <2>4. state \in {"HAVE_SB", "HAVE_SB_IAC"} /\ (off = 1 => state = "HAVE_SB_IAC")
      BY <1>1, <2>3 DEF IInv, DecoderInStep
    <2>5. state' = "HAVE_SB_IAC" /\ UNCHANGED <<current, records>>
      BY <2>3, <2>4 DEF InData, HaveIac, HaveVerb, HaveSb, HaveSbIac, GoOn
    <2>6. CASE off = 0
      BY <2>2, <2>5, <2>6, InToken DEF NoToken
    <2>7. CASE off = 1
      BY <1>3, <2>2, <2>5, <2>7, Position DEF OtherToken, DecoderInStep
    <2> QED
      BY <2>3, <2>6, <2>7
  <1> QED
    BY <1>2, <1>3

(* A byte of the end of a sub-negotiation. *)
LEMMA SeByte ==
    ASSUME IInv, ReadByte, InData \/ HaveIac \/ HaveVerb \/ HaveSb \/ HaveSbIac,
           Here.kind = "se"
    PROVE  (NoToken \/ OtherToken) /\ DecoderInStep'
  <1>1. at <= Len(script) /\ Here \in Tokens /\ InSb(script, at)
    BY Known DEF ReadByte
  <1>2. /\ Len(Encode(Here)) = 2
        /\ Encode(Here)[1] = "IAC"
        /\ Encode(Here)[2] = "SE"
    BY <1>1, Encoding
  <1>3. off \in {0, 1}
    BY <1>2, Position DEF IInv, DecoderInStep
  <1>4. CASE off = 0
    <2>1. temp = "IAC" /\ state \in {"HAVE_SB", "HAVE_SB_IAC"}
      BY <1>1, <1>2, <1>4, Position DEF IInv, DecoderInStep
    <2>2. state' = "HAVE_SB_IAC" /\ UNCHANGED <<current, records>>
      BY <2>1 DEF InData, HaveIac, HaveVerb, HaveSb, HaveSbIac, GoOn
    <2> QED
      BY <1>2, <1>4, <2>2, InToken DEF NoToken
  <1>5. CASE off = 1
    <2>1. temp = "SE" /\ state = "HAVE_SB_IAC"
      BY <1>2, <1>5, Position DEF IInv, DecoderInStep
    <2>2. state' = "NO_DATA" /\ UNCHANGED <<current, records>>
      BY <2>1 DEF InData, HaveIac, HaveVerb, HaveSb, HaveSbIac
    <2> QED
      BY <1>2, <1>5, <2>2, Position DEF OtherToken, DecoderInStep
  <1> QED
    BY <1>3, <1>4, <1>5

(* Whatever the byte, the decoder keeps in step with the host. *)
LEMMA GetByteEffect ==
    ASSUME IInv, SafeSb(script), GetByte
    PROVE  Effect /\ DecoderInStep'
  <1>1. Here.kind \in TokenKinds
    BY Known DEF GetByte, ReadByte, Tokens
  <1> QED
    BY <1>1, DataByte, PlainByte, VerbByte, SbByte, SeByte
    DEF GetByte, Effect, TokenKinds
------------------------------------------------------------------------------
(* The byte that is read, and the place of the next one. *)
LEMMA ByteTypes ==
    ASSUME IInv, ReadByte
    PROVE  /\ temp \in Byte
           /\ at' \in 1 .. Len(script') + 1
           /\ off' \in 0 .. 2
  <1>1. /\ at <= Len(script) /\ Here \in Tokens /\ Here.byte \in Byte
        /\ Here.kind \in TokenKinds
    BY Known DEF ReadByte, Tokens
  <1>2. Len(Encode(Here)) \in 1 .. 3
    BY <1>1, Encoding DEF TokenKinds
  <1>3. \A i \in 1 .. Len(Encode(Here)) : Encode(Here)[i] \in Byte
    <2>1. CASE Here.kind \in {"data", "sbdata"}
      <3>1. CASE Here.byte = "IAC"
        BY <1>1, <2>1, <3>1, Encoding
      <3>2. CASE Here.byte # "IAC"
        BY <1>1, <2>1, <3>2, Encoding
      <3> QED
        BY <3>1, <3>2
    <2>2. CASE Here.kind \in {"eor", "nop", "sb", "se"}
      BY <1>1, <2>2, Encoding DEF Byte
    <2>3. CASE Here.kind \in Verbs
      BY <1>1, <2>3, Encoding DEF Byte
    <2> QED
      BY <1>1, <2>1, <2>2, <2>3 DEF TokenKinds
  <1>4. off \in 0 .. 2 /\ off + 1 \in 1 .. Len(Encode(Here))
    <2>1. off \in 0 .. 2 /\ (off > 0 => off < Len(Encode(Here)))
      BY DEF IInv, TypeOK, DecoderInStep
    <2> QED
      BY <1>2, <2>1
  <1>5. temp \in Byte
    BY <1>3, <1>4, Position
  <1>6. off' \in 0 .. 2
    <2>1. CASE off + 1 = Len(Encode(Here))
      BY <2>1, Position
    <2>2. CASE off + 1 # Len(Encode(Here))
      <3>1. off' = off + 1
        BY <2>2, Position
      <3>2. \A n \in 1 .. 3, i \in 0 .. 2 :
               i + 1 \in 1 .. n /\ i + 1 # n => i + 1 \in 0 .. 2
        OBVIOUS
      <3> QED
        BY <1>2, <1>4, <2>2, <3>1, <3>2
    <2> QED
      BY <2>1, <2>2
  <1>7. at' \in 1 .. Len(script') + 1
    BY <1>1 DEF ReadByte, IInv, TypeOK
  <1> QED
    BY <1>5, <1>6, <1>7

LEMMA AnswerTypes ==
    /\ \A v \in Verbs \cup {Undefined}, o \in Byte : Answers(v, o) \subseteq Byte
    /\ \A buf \in Seq(Byte) : SbReply(buf) \in [verb : Byte, option : Byte] \cup {NoReply}
  <1>1. \A v \in Verbs \cup {Undefined}, o \in Byte : Answers(v, o) \subseteq Byte
    BY DEF Answers, Byte, Verbs
  <1>2. ASSUME NEW buf \in Seq(Byte), buf # <<>>
        PROVE  [verb |-> "SB", option |-> buf[1]] \in [verb : Byte, option : Byte]
    <2>1. buf[1] \in Byte
      BY <1>2
    <2>2. "SB" \in Byte
      BY DEF Byte
    <2> QED
      BY <2>1, <2>2
  <1> QED
    BY <1>1, <1>2 DEF SbReply

(* Types are kept by the decoder. *)
LEMMA GetByteTypes ==
    ASSUME IInv, GetByte
    PROVE  TypeOK'
  <1>1. ReadByte /\ temp \in Byte
    BY ByteTypes DEF GetByte
  <1>2. /\ script' \in Seq(Tokens) /\ at' \in 1 .. Len(script') + 1 /\ off' \in 0 .. 2
        /\ phase' \in {"session", "receive", "closed"}
        /\ delivered' \in Seq(Seq(Byte))
    BY <1>1, ByteTypes DEF ReadByte, IInv, TypeOK
  <1>3. state \in States /\ verb \in Verbs \cup {Undefined} /\ sbBuf \in Seq(Byte)
        /\ current \in Seq(Byte) /\ records \in Seq(Seq(Byte))
    BY DEF IInv, TypeOK
  <1> DEFINE Rest == /\ state' \in States
                     /\ verb' \in Verbs \cup {Undefined}
                     /\ sbBuf' \in Seq(Byte)
                     /\ current' \in Seq(Byte)
                     /\ records' \in Seq(Seq(Byte))
                     /\ reply' \in [verb : Byte, option : Byte] \cup {NoReply}
  <1>4. ASSUME NEW s \in States, GoOn(s) PROVE Rest
    BY <1>3, <1>4 DEF GoOn
  <1>5. ASSUME NEW b \in Byte, ReturnByte(b) PROVE Rest
    BY <1>3, <1>5 DEF ReturnByte, States
  <1>6. ASSUME InData PROVE Rest
    BY <1>1, <1>4, <1>5, <1>6 DEF InData, States
  <1>7. ASSUME HaveIac PROVE Rest
    <2>1. CASE temp = "IAC" /\ ReturnByte("IAC")
      BY <1>5, <2>1 DEF Byte
    <2>2. CASE temp \in Verbs /\ state' = "HAVE_VERB" /\ verb' = temp
               /\ UNCHANGED <<sbBuf, current, records>> /\ reply' = NoReply
      BY <1>3, <2>2 DEF States
    <2>3. CASE state' = "HAVE_SB" /\ sbBuf' = <<>>
               /\ UNCHANGED <<verb, current, records>> /\ reply' = NoReply
      BY <1>3, <2>3 DEF States
    <2>4. CASE ReturnEndOfRecord
      <3>1. <<"NOEOR">> \in Seq(Byte)
        BY DEF Byte
      <3>2. <<>> \in Seq(Byte) /\ Append(records, current) \in Seq(Seq(Byte))
        BY <1>3
      <3> QED
        BY <1>3, <2>4, <3>1, <3>2 DEF ReturnEndOfRecord, States
    <2>5. CASE GoOn("NO_DATA")
      BY <1>4, <2>5 DEF States
    <2> QED
      BY <1>7, <2>1, <2>2, <2>3, <2>4, <2>5 DEF HaveIac
  <1>8. ASSUME HaveVerb PROVE Rest
    <2>1. PICK a \in Answers(verb, temp) : reply' = [verb |-> a, option |-> temp]
      BY <1>8 DEF HaveVerb
    <2>2. a \in Byte
      BY <1>1, <1>3, AnswerTypes
    <2> QED
      BY <1>1, <1>3, <1>8, <2>1, <2>2 DEF HaveVerb, States
  <1>9. ASSUME HaveSb PROVE Rest
    <2>1. CASE GoOn("HAVE_SB_IAC")
      BY <1>4, <2>1 DEF States
    <2>2. CASE sbBuf' = Append(sbBuf, temp) /\ reply' = NoReply
               /\ UNCHANGED <<state, verb, current, records>>
      BY <1>1, <1>3, <2>2
    <2> QED
      BY <1>9, <2>1, <2>2 DEF HaveSb
  <1>10. ASSUME HaveSbIac PROVE Rest
    <2>1. CASE sbBuf' = Append(sbBuf, "IAC") /\ reply' = NoReply
               /\ UNCHANGED <<state, verb, current, records>>
      BY <1>3, <2>1 DEF Byte
    <2>2. CASE reply' = SbReply(sbBuf) /\ sbBuf' = <<>> /\ state' = "NO_DATA"
               /\ UNCHANGED <<verb, current, records>>
      BY <1>3, <2>2, AnswerTypes DEF States
    <2>3. CASE GoOn("HAVE_SB")
      BY <1>4, <2>3 DEF States
    <2> QED
      BY <1>10, <2>1, <2>2, <2>3 DEF HaveSbIac
  <1> QED
    BY <1>2, <1>6, <1>7, <1>8, <1>9, <1>10 DEF GetByte, TypeOK

(* A record stays begun until the host ends it. *)
LEMMA BegunStep ==
    ASSUME IInv, Effect, script' = script, at <= Len(script)
    PROVE  RecordBegun'
  <1>0. at \in Nat \ {0} /\ current \in Seq(Byte)
    BY DEF IInv, TypeOK
  <1>1. CASE NoToken
    BY <1>1 DEF NoToken, IInv, RecordBegun
  <1>2. CASE DataToken
    <2>1. current' # <<>>
      BY <1>0, <1>2 DEF DataToken
    <2> QED
      BY <2>1 DEF RecordBegun
  <1>3. CASE EorToken
    <2>1. \A j \in 1 .. at : at \in j .. at' - 1 /\ script'[at].kind = "eor"
      BY <1>0, <1>3 DEF EorToken, Here
    <2> QED
      BY <1>0, <1>3, <2>1 DEF EorToken, RecordBegun
  <1>4. CASE OtherToken
    <2> SUFFICES ASSUME current = <<>>,
                        NEW j \in 1 .. at, script[j].kind = "data"
                 PROVE  \E k \in j .. at : script[k].kind = "eor"
      BY <1>0, <1>4 DEF OtherToken, RecordBegun
    <2>1. j \in 1 .. at - 1
      BY <1>0, <1>4 DEF OtherToken, Here
    <2> QED
      BY <1>0, <2>1 DEF IInv, RecordBegun
  <1> QED
    BY <1>1, <1>2, <1>3, <1>4 DEF Effect

(* The decoder's local variable is set when a verb is read. *)
LEMMA VerbStep ==
    ASSUME IInv, GetByte
    PROVE  VerbHeld'
  <1> SUFFICES ASSUME off' = 2 PROVE verb' = Here.kind /\ Here' = Here
    BY DEF VerbHeld
  <1>1. ReadByte /\ at <= Len(script) /\ Here \in Tokens /\ Here.kind \in TokenKinds
    BY Known DEF GetByte, ReadByte, Tokens
  <1>2. off = 1 /\ off + 1 # Len(Encode(Here)) /\ Here' = Here
    BY <1>1, Position
  <1>3. off < Len(Encode(Here))
    BY <1>2 DEF IInv, DecoderInStep
  <1>4. Here.kind \in Verbs
    <2>1. Here.kind \notin Verbs => Len(Encode(Here)) \in {1, 2}
      BY <1>1, Encoding DEF TokenKinds
    <2> QED BY <1>2, <1>3, <2>1
  <1>5. temp = Here.kind
    BY <1>1, <1>2, <1>4, Position, Encoding
  <1>6. state = "HAVE_IAC"
    BY <1>2, <1>4 DEF IInv, DecoderInStep, Verbs
  <1> QED
    BY <1>2, <1>4, <1>5, <1>6 DEF GetByte, InData, HaveIac, HaveVerb, HaveSb, HaveSbIac, Verbs

(* The bytes of a sub-negotiation and of a verb, by their places. *)
LEMMA ByteOf ==
    ASSUME IInv, ReadByte
    PROVE  /\ Here.kind = "sb" /\ off + 1 = Len(Encode(Here)) => off = 1 /\ temp = "SB"
           /\ Here.kind = "se" /\ off + 1 = Len(Encode(Here)) => off = 1 /\ temp = "SE"
           /\ Here.kind \in {"sbdata", "se"} /\ off + 1 # Len(Encode(Here)) =>
                 off = 0 /\ temp = "IAC"
           /\ Here.kind = "sbdata" /\ off + 1 = Len(Encode(Here)) =>
                 /\ temp = Here.byte
                 /\ Here.byte # "IAC" => off = 0
                 /\ Here.byte = "IAC" => off = 1
           /\ Here.kind \in Verbs /\ off + 1 = Len(Encode(Here)) =>
                 off = 2 /\ temp = Here.byte
  <1>1. Here \in Tokens /\ off \in Nat /\ off < Len(Encode(Here))
    <2>1. at <= Len(script) /\ Here \in Tokens /\ Here.kind \in TokenKinds
      BY Known DEF ReadByte, Tokens
    <2>2. Len(Encode(Here)) \in 1 .. 3
      BY <2>1, Encoding DEF TokenKinds
    <2> QED
      BY <2>1, <2>2, Position DEF IInv, DecoderInStep
  <1>2. temp = Encode(Here)[off + 1]
    BY Position
  <1>3. CASE Here.kind = "sb"
    <2>1. Encode(Here) = <<"IAC", "SB">>
      BY <1>1, <1>3, Encoding
    <2> QED
      BY <1>1, <1>2, <1>3, <2>1 DEF Verbs
  <1>4. CASE Here.kind = "se"
    <2>1. Encode(Here) = <<"IAC", "SE">>
      BY <1>1, <1>4, Encoding
    <2> QED
      BY <1>1, <1>2, <1>4, <2>1 DEF Verbs
  <1>5. CASE Here.kind = "sbdata" /\ Here.byte = "IAC"
    <2>1. Encode(Here) = <<"IAC", "IAC">>
      BY <1>1, <1>5, Encoding
    <2> QED
      BY <1>1, <1>2, <1>5, <2>1 DEF Verbs
  <1>6. CASE Here.kind = "sbdata" /\ Here.byte # "IAC"
    <2>1. Encode(Here) = <<Here.byte>>
      BY <1>1, <1>6, Encoding
    <2> QED
      BY <1>1, <1>2, <1>6, <2>1 DEF Verbs
  <1>7. CASE Here.kind \in Verbs
    <2>1. Encode(Here) = <<"IAC", Here.kind, Here.byte>>
      BY <1>1, <1>7, Encoding
    <2> QED
      BY <1>1, <1>2, <1>7, <2>1 DEF Verbs
  <1> QED
    BY <1>3, <1>4, <1>5, <1>6, <1>7

(* A byte of the sub-negotiation is kept, or lost where nothing looks at it. *)
LEMMA AgreesKept ==
    ASSUME NEW buf \in Seq(Byte), NEW b \in Byte, NEW j \in Nat, NEW i \in Nat, i > j,
           Agrees(buf, j, i), b = script[i].byte
    PROVE  Agrees(Append(buf, b), j, i + 1)
  <1> DEFINE new == Append(buf, b)
  <1>1. /\ Len(new) = Len(buf) + 1 /\ new[Len(buf) + 1] = b
        /\ \A k \in 1 .. Len(buf) : new[k] = buf[k]
        /\ Len(buf) \in Nat
    OBVIOUS
  <1> HIDE DEF new
  <1>2. ASSUME i = j + 1 PROVE Agrees(new, j, i + 1)
    BY <1>1, <1>2 DEF Agrees
  <1>3. ASSUME i = j + 2 PROVE Agrees(new, j, i + 1)
    BY <1>1, <1>3 DEF Agrees
  <1>4. ASSUME i > j + 2 PROVE Agrees(new, j, i + 1)
    <2>1. Len(new) >= 1 /\ new[1] = script[j + 1].byte
      <3>1. Len(buf) >= 1 /\ buf[1] = script[j + 1].byte
        BY <1>4 DEF Agrees
      <3> QED
        BY <1>1, <3>1
    <2>2. script[j + 1].byte # "IAC" => Len(new) >= 2 /\ new[2] = script[j + 2].byte
      <3>1. script[j + 1].byte # "IAC" => Len(buf) >= 2 /\ buf[2] = script[j + 2].byte
        BY <1>4 DEF Agrees
      <3> QED
        BY <1>1, <3>1
    <2>3. i + 1 # j + 1 /\ i + 1 # j + 2
      BY <1>4
    <2> QED
      BY <2>1, <2>2, <2>3 DEF Agrees
  <1>5. i = j + 1 \/ i = j + 2 \/ i > j + 2
    OBVIOUS
  <1>6. Agrees(new, j, i + 1)
    BY <1>2, <1>3, <1>4, <1>5
  <1> QED
    BY <1>6 DEF new

LEMMA AgreesLost ==
    ASSUME NEW buf \in Seq(Byte), NEW b \in Byte, NEW j \in Nat, NEW i \in Nat, i > j + 1,
           Agrees(buf, j, i), i = j + 2 => script[j + 1].byte = "IAC"
    PROVE  Agrees(buf, j, i + 1) /\ Agrees(Append(buf, b), j, i)
  <1> DEFINE new == Append(buf, b)
  <1>1. /\ Len(new) = Len(buf) + 1
        /\ \A k \in 1 .. Len(buf) : new[k] = buf[k]
        /\ Len(buf) \in Nat
    OBVIOUS
  <1> HIDE DEF new
  <1>2. Agrees(buf, j, i + 1)
    BY <1>1 DEF Agrees
  <1>3. Agrees(new, j, i)
    BY <1>1 DEF Agrees
  <1> QED
    BY <1>2, <1>3 DEF new

(* The buffer of a sub-negotiation follows its data. *)
LEMMA CollectedStep ==
    ASSUME IInv, SafeSb(script), GetByte
    PROVE  Collected'
  <1> SUFFICES ASSUME InSb(script, at)'
               PROVE  \E j \in 1 .. at' - 1 :
                         /\ script[j].kind = "sb"
                         /\ \A k \in j + 1 .. at' - 1 : script[k].kind = "sbdata"
                         /\ Agrees(sbBuf', j, at')
    BY DEF Collected, GetByte, ReadByte, Agrees
  <1>1. /\ ReadByte /\ at <= Len(script) /\ Here \in Tokens /\ Here.byte \in Byte
        /\ InSb(script, at) <=> Here.kind \in {"sbdata", "se"}
        /\ InData \/ HaveIac \/ HaveVerb \/ HaveSb \/ HaveSbIac
    BY Known DEF GetByte, ReadByte, Tokens
  <1>2. at \in Nat \ {0} /\ sbBuf \in Seq(Byte) /\ "IAC" \in Byte
    BY DEF IInv, TypeOK, Byte
  <1>3. CASE Here.kind = "sb" /\ off + 1 = Len(Encode(Here))
    <2>1. off = 1 /\ temp = "SB"
      BY <1>1, <1>3, ByteOf
    <2>2. sbBuf' = <<>>
      BY <1>1, <1>3, <2>1 DEF IInv, DecoderInStep, InData, HaveIac, HaveVerb, HaveSb,
         HaveSbIac, Verbs
    <2>3. at' = at + 1
      BY <1>1, <1>3, Position
    <2>4. at \in 1 .. at' - 1 /\ script[at].kind = "sb"
          /\ \A k \in at + 1 .. at' - 1 : script[k].kind = "sbdata"
      BY <1>2, <1>3, <2>3 DEF Here
    <2>5. Agrees(sbBuf', at, at')
      BY <1>2, <2>2, <2>3 DEF Agrees
    <2> QED
      BY <2>4, <2>5
  <1>4. CASE InSb(script, at)
    <2>1. PICK j \in 1 .. at - 1 : /\ script[j].kind = "sb"
                                   /\ \A k \in j + 1 .. at - 1 : script[k].kind = "sbdata"
                                   /\ Agrees(sbBuf, j, at)
      BY <1>4 DEF IInv, Collected
    <2>2. state = "HAVE_SB_IAC" /\ off = 0 =>
             at > j + 1 /\ (at = j + 2 => script[j + 1].byte = "IAC")
      BY <1>2, <1>4, <2>1 DEF IInv, DecoderInStep
    <2>3. CASE off + 1 # Len(Encode(Here))
      <3>1. at' = at /\ temp = "IAC" /\ off = 0
        BY <1>1, <1>4, <2>3, ByteOf, Position
      <3>2. \/ state = "HAVE_SB" /\ sbBuf' = sbBuf
            \/ state = "HAVE_SB_IAC" /\ sbBuf' = Append(sbBuf, "IAC")
        BY <1>1, <1>4, <3>1 DEF IInv, DecoderInStep, InData, HaveIac, HaveVerb, HaveSb,
           HaveSbIac, GoOn
      <3>3. Agrees(sbBuf', j, at)
        <4>1. CASE sbBuf' = sbBuf
          BY <2>1, <4>1
        <4>2. CASE state = "HAVE_SB_IAC" /\ sbBuf' = Append(sbBuf, "IAC")
          <5>1. at > j + 1 /\ (at = j + 2 => script[j + 1].byte = "IAC")
            BY <2>2, <3>1, <4>2
          <5>2. Agrees(Append(sbBuf, "IAC"), j, at)
            BY <1>2, <2>1, <5>1, AgreesLost
          <5> QED
            BY <4>2, <5>2
        <4> QED
          BY <3>2, <4>1, <4>2
      <3> QED
        BY <2>1, <3>1, <3>3
    <2>4. CASE off + 1 = Len(Encode(Here))
      <3>1. at' = at + 1 /\ Here.kind = "sbdata"
        BY <1>1, <1>4, <2>4, Position
      <3>2. \/ sbBuf' = Append(sbBuf, Here.byte)
            \/ state = "HAVE_SB_IAC" /\ off = 0 /\ sbBuf' = sbBuf
        <4>1. CASE Here.byte # "IAC"
          <5>1. off = 0 /\ temp = Here.byte
            BY <1>1, <2>4, <3>1, <4>1, ByteOf
          <5>2. \/ state = "HAVE_SB"
                \/ state = "HAVE_SB_IAC" /\ Here.byte # "SE"
            BY <1>1, <1>2, <1>4, <3>1, <5>1, Known DEF IInv, DecoderInStep, SafeSb, Here, InSb
          <5> QED
            BY <1>1, <4>1, <5>1, <5>2 DEF InData, HaveIac, HaveVerb, HaveSb, HaveSbIac, GoOn
        <4>2. CASE Here.byte = "IAC"
          <5>1. off = 1 /\ temp = "IAC"
            BY <1>1, <2>4, <3>1, <4>2, ByteOf
          <5>2. state = "HAVE_SB_IAC"
            BY <3>1, <5>1 DEF IInv, DecoderInStep
          <5> QED
            BY <1>1, <4>2, <5>1, <5>2 DEF InData, HaveIac, HaveVerb, HaveSb, HaveSbIac
        <4> QED
          BY <4>1, <4>2
      <3>3. Agrees(sbBuf', j, at + 1)
        <4>1. CASE sbBuf' = Append(sbBuf, Here.byte)
          <5>1. Agrees(Append(sbBuf, Here.byte), j, at + 1)
            BY <1>1, <1>2, <2>1, AgreesKept DEF Here
          <5> QED
            BY <4>1, <5>1
        <4>2. CASE state = "HAVE_SB_IAC" /\ off = 0 /\ sbBuf' = sbBuf
          <5>1. at > j + 1 /\ (at = j + 2 => script[j + 1].byte = "IAC")
            BY <2>2, <4>2
          <5>2. Agrees(sbBuf, j, at + 1)
            BY <1>2, <2>1, <5>1, AgreesLost
          <5> QED
            BY <4>2, <5>2
        <4> QED
          BY <3>2, <4>1, <4>2
      <3>4. j \in 1 .. at' - 1 /\ \A k \in j + 1 .. at' - 1 : script[k].kind = "sbdata"
        BY <1>2, <2>1, <3>1 DEF Here
      <3> QED
        BY <2>1, <3>1, <3>3, <3>4
    <2> QED
      BY <2>3, <2>4
  <1> QED
    BY <1>1, <1>3, <1>4, Position

(* The decoder, the session and everything else keep the invariant. *)
LEMMA Inductive ==
    ASSUME \A s \in Scripts : SafeSb(s)
    PROVE  /\ Init => IInv
           /\ IInv /\ Step => IInv'
  <1>1. Init => IInv
    <2> SUFFICES ASSUME Init PROVE IInv
      OBVIOUS
    <2>1. script \in Seq(Tokens)
      BY TelnetAssumption DEF Init
    <2> QED
      BY <2>1 DEF Init, IInv, TypeOK, States, NoReply, DecoderInStep, InSb, RecordBegun,
         VerbHeld, Collected
  <1>2. IInv /\ Step => IInv'
    <2> SUFFICES ASSUME IInv, Step PROVE IInv'
      OBVIOUS
    <2>1. CASE GetByte
      <3>1. Effect /\ DecoderInStep'
        BY <2>1, GetByteEffect DEF IInv
      <3>2. script' = script /\ at <= Len(script)
        BY <2>1 DEF GetByte, ReadByte
      <3> QED
        BY <2>1, <3>1, <3>2, GetByteTypes, BegunStep, VerbStep, CollectedStep DEF IInv
    <2>2. ASSUME UNCHANGED <<script, at, off, state, sbBuf, current>>,
                 verb' \in {verb, Undefined}
          PROVE  DecoderInStep' /\ RecordBegun' /\ VerbHeld' /\ Collected'
      BY <2>2 DEF IInv, DecoderInStep, RecordBegun, VerbHeld, Collected, Agrees, Here
    <2>3. CASE GetRecord
      <3>1. TypeOK'
        BY <2>3 DEF GetRecord, IInv, TypeOK
      <3> QED
        BY <2>2, <2>3, <3>1 DEF GetRecord, IInv
    <2>4. CASE Silent
      <3>1. TypeOK'
        BY <2>4 DEF Silent, IInv, TypeOK
      <3> QED
        BY <2>2, <2>4, <3>1 DEF Silent, IInv
    <2> QED
      BY <2>1, <2>3, <2>4 DEF Step
  <1> QED
    BY <1>1, <1>2

(* The steps of the decoder alone, and of the streams around it. *)
LEMMA Steps ==
    /\ IInv /\ [Next]_vars => Step
    /\ IInv /\ [StreamNext]_streamVars => Step
  <1> SUFFICES ASSUME IInv PROVE ([Next]_vars => Step) /\ ([StreamNext]_streamVars => Step)
    OBVIOUS
  <1>1. phase \in {"session", "receive", "closed"}
    BY DEF IInv, TypeOK
  <1>2. UNCHANGED vars => Step
    BY <1>1 DEF vars, Step, Silent
  <1>3. Receive \/ NoMoreData \/ Disconnected => Step
    BY <1>1 DEF Receive, NoMoreData, Disconnected, Step, Silent
  <1>4. [Next]_vars => Step
    BY <1>2, <1>3 DEF Next, Stopped, Step
  <1>5. UNCHANGED streamVars => UNCHANGED vars
    BY DEF streamVars, allVars
  <1>6. SendPacket \/ WriteError => Step
    BY <1>1 DEF SendPacket, WriteError, Step, Silent
  <1>7. TelnetStep => Step
    <2>1. TryAddress \/ NoAddressLeft \/ WriteSome \/ Ended => UNCHANGED vars
      BY DEF TryAddress, TryAddressUntil, NoAddressLeft, WriteSome, Ended, allVars
    <2>2. ReceiveByte \/ OtherStep => Step
      BY <1>3 DEF ReceiveByte, OtherStep, Step
    <2> QED
      BY <1>2, <1>6, <2>1, <2>2 DEF TelnetStep, ConnectionNext
  <1>8. SslStep => Step
    <2>1. SslContext \/ SslTryAddress \/ Handshake \/ SslWrite \/ SslWriteAgain \/ SslEnded
            => UNCHANGED vars
      BY DEF SslContext, SslTryAddress, TryAddressUntil, NoAddressLeft, Handshake, SslWrite,
         WriteSome, SslWriteAgain, SslEnded, Ended, allVars
    <2>2. SslGetByte => GetByte
      BY DEF SslGetByte, SslAnswersVerb, SslAnswersSb, GetByte
    <2>3. SslOtherStep => Step
      BY <1>3 DEF SslOtherStep, SslGetNext, Step
    <2>4. SslAnswerFails \/ SslSendPacket => Step
      BY <1>6 DEF SslAnswerFails, SslSendPacket
    <2> QED
      BY <1>2, <2>1, <2>2, <2>3, <2>4 DEF SslStep, Step
  <1>9. Open => UNCHANGED vars
    BY DEF Open
  <1> QED
    BY <1>2, <1>4, <1>5, <1>7, <1>8, <1>9 DEF StreamNext

(* The decoder never loses step with the host: at the start of every token   *)
(* it stands in the state that telnet prescribes, wherever the reads end.    *)
THEOREM Invariance ==
    ASSUME \A s \in Scripts : SafeSb(s)
    PROVE  Spec => []IInv
  BY Inductive, Steps, PTL DEF Spec

(* The same of a stream of either kind. *)
THEOREM StreamInvariance ==
    ASSUME \A s \in Scripts : SafeSb(s)
    PROVE  StreamSpec => []IInv
  <1>1. StreamInit => Init
    BY DEF StreamInit
  <1> QED
    BY <1>1, Inductive, Steps, PTL DEF StreamSpec

(* The variables of the stream keep their types. *)
THEOREM TypeCorrect ==
    ASSUME \A s \in Scripts : SafeSb(s)
    PROVE  StreamSpec => []TypeOK
  <1>1. IInv => TypeOK
    BY DEF IInv
  <1> QED
    BY <1>1, StreamInvariance, PTL
------------------------------------------------------------------------------
(* Every step of the stream is one of RecordStream or changes nothing of it. *)
LEMMA RecordStep ==
    ASSUME \A s \in Scripts : SafeSb(s), IInv, Step
    PROVE  [Stream!Next]_(Stream!vars)
  <1>1. at \in Nat \ {0} /\ script \in Seq(Tokens)
    BY DEF IInv, TypeOK
  <1>2. CASE GetByte
    <2>1. Effect
      BY <1>2, GetByteEffect DEF IInv
    <2>2. script' = script /\ delivered' = delivered /\ at - 1 < Len(script)
      BY <1>1, <1>2 DEF GetByte, ReadByte
    <2>3. Stream!Token = Here
      BY <1>1 DEF Stream!Token, Here
    <2>4. at' = at + 1 => Stream!Take
      BY <1>1, <2>2 DEF Stream!Take
    <2>5. CASE NoToken
      BY <2>2, <2>5 DEF NoToken, Stream!vars
    <2>6. CASE DataToken
      BY <2>3, <2>4, <2>6 DEF DataToken, Stream!Next, Stream!Data
    <2>7. CASE EorToken
      BY <2>3, <2>4, <2>7 DEF EorToken, Stream!Next, Stream!EndOfRecord
    <2>8. CASE OtherToken
      BY <2>3, <2>4, <2>8 DEF OtherToken, Stream!Next, Stream!Negotiation
    <2> QED
      BY <2>1, <2>5, <2>6, <2>7, <2>8 DEF Effect
  <1>3. CASE GetRecord
    BY <1>3 DEF GetRecord, Stream!Next, Stream!HandOver
  <1>4. CASE Silent
    BY <1>4 DEF Silent, Stream!vars
  <1> QED
    BY <1>2, <1>3, <1>4 DEF Step

(* A stream of either kind implements RecordStream: for every session of     *)
(* every host, the session layer gets exactly the records that were sent.    *)
THEOREM RecordsArriveIntact ==
    ASSUME \A s \in Scripts : SafeSb(s)
    PROVE  StreamSpec => RecordsIntact
  <1>1. StreamInit => Stream!Init
    BY DEF StreamInit, Init, Stream!Init
  <1>2. IInv /\ [StreamNext]_streamVars => [Stream!Next]_(Stream!vars)
    BY RecordStep, Steps
  <1> QED
    BY <1>1, <1>2, StreamInvariance, PTL DEF StreamSpec, RecordsIntact, Stream!Spec
------------------------------------------------------------------------------
(* What the host gets when the last byte of a token has been read. *)
Answered ==
    CASE script[at].kind \in {"DO", "WILL"} /\ verb # Undefined ->
           /\ reply'.verb \in Answers(script[at].kind, script[at].byte)
           /\ reply'.option = script[at].byte
      [] script[at].kind \in Verbs -> reply'.option = script[at].byte
      [] script[at].kind = "se" -> reply' = SbReply(SbData(at))
      [] OTHER -> reply' = NoReply

(* The answer to a sub-negotiation is the one to its data, although an       *)
(* escaped IAC in it is not collected as it was sent.                       *)
LEMMA SbAnswer ==
    ASSUME IInv, at <= Len(script), Here.kind = "se"
    PROVE  SbReply(sbBuf) = SbReply(SbData(at))
  <1>1. InSb(script, at) /\ at \in Nat \ {0} /\ sbBuf \in Seq(Byte) /\ script \in Seq(Tokens)
    BY Known DEF IInv, TypeOK
  <1>2. PICK j \in 1 .. at - 1 : /\ script[j].kind = "sb"
                                 /\ \A k \in j + 1 .. at - 1 : script[k].kind = "sbdata"
                                 /\ Agrees(sbBuf, j, at)
    BY <1>1 DEF IInv, Collected
  <1>3. SbStart(at) = j
    <2>1. \A k \in j + 1 .. at : script[k].kind # "sb"
      BY <1>1, <1>2 DEF Here
    <2>2. \A i \in 1 .. at : (/\ script[i].kind = "sb"
                              /\ \A k \in i + 1 .. at : script[k].kind # "sb") => i = j
      BY <1>1, <1>2, <2>1
    <2>3. j \in 1 .. at
      BY <1>1
    <2> QED
      BY <1>2, <2>1, <2>2, <2>3 DEF SbStart
  <1> DEFINE data == SbData(at)
  <1>4. /\ data = [n \in 1 .. at - j - 1 |-> script[j + n].byte]
        /\ at - j - 1 \in Nat
    BY <1>1, <1>3 DEF SbData
  <1>5. /\ data \in Seq(Byte)
        /\ Len(data) = at - j - 1
        /\ \A n \in 1 .. at - j - 1 : data[n] = script[j + n].byte
    <2>1. \A n \in 1 .. at - j - 1 : script[j + n].byte \in Byte
      <3>1. \A i \in 1 .. at : i \in DOMAIN script /\ script[i] \in Tokens
        BY <1>1
      <3> QED
        BY <1>1, <3>1 DEF Tokens
    <2> QED
      BY <1>4, <2>1
  <1> HIDE DEF data
  <1>6. ASSUME at = j + 1 PROVE SbReply(sbBuf) = SbReply(data)
    <2>1. sbBuf = <<>> /\ data = <<>>
      BY <1>1, <1>2, <1>5, <1>6 DEF Agrees
    <2> QED
      BY <2>1
  <1>7. ASSUME at > j + 1 PROVE SbReply(sbBuf) = SbReply(data)
    <2>1. /\ data # <<>> /\ sbBuf # <<>>
          /\ sbBuf[1] = data[1] /\ data[1] = script[j + 1].byte
      BY <1>1, <1>2, <1>5, <1>7 DEF Agrees
    <2>2. data[1] # "IAC" => /\ Len(data) > 1 <=> Len(sbBuf) > 1
                             /\ Len(data) > 1 => data[2] = sbBuf[2]
      BY <1>1, <1>2, <1>5, <1>7, <2>1 DEF Agrees
    <2> QED
      BY <2>1, <2>2 DEF SbReply
  <1>8. SbReply(sbBuf) = SbReply(data)
    BY <1>1, <1>6, <1>7
  <1> QED
    BY <1>8 DEF data

(* The last byte of a token: what is answered. *)
LEMMA AnswerSentBack ==
    ASSUME IInv, SafeSb(script), GetByte, at' # at
    PROVE  Answered
  <1>1. /\ ReadByte /\ at <= Len(script) /\ Here \in Tokens /\ Here.kind \in TokenKinds
        /\ InSb(script, at) <=> Here.kind \in {"sbdata", "se"}
        /\ InData \/ HaveIac \/ HaveVerb \/ HaveSb \/ HaveSbIac
    BY Known DEF GetByte, ReadByte, Tokens
  <1>2. off + 1 = Len(Encode(Here))
    BY <1>1, Position
  <1>3. CASE Here.kind \in Verbs
    <2>1. off = 2 /\ temp = Here.byte
      BY <1>1, <1>2, <1>3, ByteOf
    <2>2. HaveVerb /\ verb \in {Here.kind, Undefined}
      BY <1>1, <2>1 DEF IInv, DecoderInStep, VerbHeld, InData, HaveIac, HaveSb, HaveSbIac
    <2>3. PICK a \in Answers(verb, Here.byte) : reply' = [verb |-> a, option |-> Here.byte]
      BY <2>1, <2>2 DEF HaveVerb
    <2>4. reply'.verb = a /\ reply'.option = Here.byte
      BY <2>3
    <2> QED
      BY <1>3, <2>2, <2>3, <2>4 DEF Answered, Here, Verbs
  <1>4. CASE Here.kind = "se"
    <2>1. off = 1 /\ temp = "SE" /\ state = "HAVE_SB_IAC"
      BY <1>1, <1>2, <1>4, ByteOf DEF IInv, DecoderInStep
    <2>2. reply' = SbReply(sbBuf)
      BY <1>1, <2>1 DEF InData, HaveIac, HaveVerb, HaveSb, HaveSbIac
    <2>3. reply' = SbReply(SbData(at))
      BY <1>1, <1>4, <2>2, SbAnswer
    <2> QED
      BY <1>4, <2>3 DEF Answered, Here, Verbs
  <1>5. CASE Here.kind \in {"data", "eor", "nop", "sb", "sbdata"}
    <2>1. reply' = NoReply
      <3>1. state = "HAVE_VERB" \/ (state = "HAVE_SB_IAC" /\ temp = "SE") \/ reply' = NoReply
        BY <1>1 DEF InData, HaveIac, HaveVerb, HaveSb, HaveSbIac, GoOn, ReturnByte,
           ReturnEndOfRecord
      <3>2. state # "HAVE_VERB"
        <4>1. off # 2
          <5>1. Len(Encode(Here)) \in {1, 2}
            BY <1>1, <1>5, Encoding
          <5> QED
            BY <1>2, <5>1
        <4>2. off \in {0, 1}
          BY <4>1 DEF IInv, TypeOK
        <4> QED
          BY <4>2 DEF IInv, DecoderInStep
      <3>3. ~(state = "HAVE_SB_IAC" /\ temp = "SE")
        <4>1. CASE Here.kind = "sbdata"
          BY <1>1, <1>2, <4>1, ByteOf, Known DEF IInv, DecoderInStep, SafeSb, Here, InSb
        <4>2. CASE Here.kind # "sbdata"
          BY <1>1, <1>5, <3>2, <4>2 DEF IInv, DecoderInStep, TypeOK
        <4> QED
          BY <4>1, <4>2
      <3> QED
        BY <3>1, <3>2, <3>3
    <2> QED
      BY <1>5, <2>1 DEF Answered, Here, Verbs
  <1> QED
    BY <1>1, <1>3, <1>4, <1>5 DEF TokenKinds

(* Every verb and every sub-negotiation is answered when its last byte has   *)
(* been read, with the answer that fits what the host said, in both kinds of *)
(* stream and wherever the reads end.                                       *)
THEOREM QuestionsAnswered ==
    ASSUME \A s \in Scripts : SafeSb(s)
    PROVE  StreamSpec => AnswersTheHost
  <1>1. IInv /\ Step => [at' # at => Answered]_vars
    <2> SUFFICES ASSUME IInv, Step, at' # at PROVE Answered
      OBVIOUS
    <2>1. GetByte
      BY DEF Step, GetRecord, Silent
    <2> QED
      BY <2>1, AnswerSentBack DEF IInv
  <1>2. IInv /\ [StreamNext]_streamVars => [at' # at => Answered]_vars
    BY <1>1, Steps
  <1> QED
    BY <1>2, StreamInvariance, PTL DEF StreamSpec, AnswersTheHost, Answered
==============================================================================
