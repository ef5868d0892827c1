---------------------------- MODULE MCTelnetStream -----------------------------
(***************************************************************************)
(* An instance of SslStream for TLC: what the hosts and the session send,    *)
(* and how a connection may come about.                                      *)
(***************************************************************************)
EXTENDS SslStream

Tok(kind, byte) == [kind |-> kind, byte |-> byte]
DataOf(bytes) == [i \in DOMAIN bytes |-> Tok("data", bytes[i])]
SbOf(bytes) == <<Tok("sb", "x")>> \o [i \in DOMAIN bytes |-> Tok("sbdata", bytes[i])]
                                  \o <<Tok("se", "x")>>
EorTok == Tok("eor", "x")

(* Records with bytes that mean something to telnet, in one piece or around  *)
(* a negotiation; each verb; sub-negotiations with and without an answer.    *)
Phrases == {DataOf(<<"x">>), DataOf(<<"IAC">>), DataOf(<<"SE">>) \o <<EorTok>>,
            DataOf(<<"IAC">>) \o <<EorTok>>, <<EorTok>>,
            <<Tok("nop", "x")>>,
            <<Tok("DO", "TTYPE")>>, <<Tok("DO", "OTHER")>>,
            <<Tok("WILL", "BINARY")>>, <<Tok("WILL", "OTHER")>>,
            <<Tok("DONT", "BINARY")>>, <<Tok("WONT", "OTHER")>>,
            SbOf(<<"TTYPE", "SEND">>), SbOf(<<"ENVIRON", "SE">>),
            SbOf(<<"ENVIRON", "IAC", "x", "IAC">>), SbOf(<<"IAC", "TTYPE">>),
            SbOf(<<"ENVIRON">>), SbOf(<<>>)}

Sessions == {s \in {FlattenSeq(f) : f \in [1 .. 3 -> Phrases]} : WellFormed(s)}

(* Names that resolve to nothing, and to one or two addresses. *)
Names == {<<>>, <<"answers">>, <<"refuses", "answers">>, <<"noSocket", "answers">>}

(* The session sends to hosts that say little: data with bytes that mean      *)
(* something to telnet, none, and enough for a length with a 0xFF.            *)
Packet(flags, opcode, data) == [flow |-> 255, flags |-> flags, opcode |-> opcode, data |-> data]
Short == <<Packet(0, 3, <<255, 239, 1, 255>>), Packet(64, 0, <<>>)>>
Long == <<Packet(0, 4, [i \in 1 .. 245 |-> 64])>>
Sends == [s \in Sessions |-> CASE Len(s) <= 3 -> Short
                              [] Len(s) = 4 /\ s[1].kind = "DO" -> Long
                              [] OTHER -> <<>>]

Type == <<73, 66, 77>>
Variables == <<[name |-> <<68>>, value |-> <<65, 66>>], [name |-> <<69>>, value |-> <<>>]>>

Servers == {[presented |-> TRUE, expired |-> FALSE, verified |-> v] : v \in BOOLEAN}
           \cup {[presented |-> p, expired |-> TRUE, verified |-> TRUE] : p \in BOOLEAN}
==============================================================================
