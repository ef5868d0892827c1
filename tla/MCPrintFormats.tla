--------------------------- MODULE MCPrintFormats ---------------------------
(* Small instances of PrintFormats.  Every control the interpreter knows   *)
(* stands between characters, so that a parameter too many or too few is   *)
(* seen; longer streams are made of the controls that move on the paper.   *)
EXTENDS PrintFormats

Does(bytes, does) == [bytes |-> bytes, does |-> does, ch |-> " ", to |-> 0]
Quiet(bytes) == Does(bytes, "none")
Text(b, ch) == [Does(<<b>>, "text") EXCEPT !.ch = ch]

A == Text(193, "A")
Blank == Text(64, " ")
Open == Text(77, "(")
Close == Text(93, ")")
Backslash == Text(224, "\\")
Raws(bytes, ch) ==
    [Does(<<3, Len(bytes)>> \o bytes, "raw") EXCEPT !.ch = ch, !.to = Len(bytes)]
Line == {Does(<<b>>, "line") : b \in {21, 6}}
Page == {Does(<<b>>, "page") : b \in {12, 58}}
Left == Does(<<13>>, "left")
Column(n) == [Does(<<52, 192, n>>, "column") EXCEPT !.to = n]
Row(n) == [Does(<<52, 196, n>>, "row") EXCEPT !.to = n]
Down == Does(<<52, 76, 1>>, "none")
Right == Does(<<52, 200, 1>>, "none")
Density == Quiet(<<43, 198, 2, 12>>)

(* The controls of 0x2B 0xD2: a length, a kind, and so many parameters. *)
Long(len, kind) == Quiet(<<43, 210, len, kind>> \o [i \in 1 .. len - 2 |-> 5])

Settings ==
    {Quiet(<<b>>) : b \in {0, 5, 255}} \cup
    {Raws(<<193, 193>>, "raw"), Raws(<<65>>, "A"), Raws(<< >>, "A"),
     Quiet(<<43, 193, 1, 80>>), Quiet(<<43, 193, 0>>), Quiet(<<43, 194, 1, 66>>),
     Quiet(<<43, 194, 0>>), Quiet(<<43, 198, 1, 9>>), Quiet(<<43, 198, 0>>),
     Quiet(<<43, 200, 1, 2, 3>>), Quiet(<<43, 209, 7, 5, 0, 11, 0, 120, 0>>),
     Quiet(<<43, 209, 3, 129, 5>>), Quiet(<<43, 209, 3, 135, 5>>),
     Quiet(<<43, 209, 8>>), Quiet(<<43, 211, 6, 246, 0, 0, 45, 0>>)} \cup
    {Long(len, 1) : len \in {2, 5}} \cup {Long(4, kind) : kind \in {3, 13}} \cup
    {Long(2, kind) : kind \in {10, 42, 47}} \cup
    {Long(6, 64), Long(4, 76), Long(7, 76), Long(5, 72), Long(8, 72), Long(6, 73),
     Long(4, 73), Long(6, 17), Long(4, 17), Long(4, 133), Long(6, 133), Long(3, 9),
     Quiet(<<43, 210, 3, 69, 1>>), Quiet(<<43, 210, 4, 21, 0, 240>>),
     Quiet(<<43, 210, 4, 41, 0, 15>>), Quiet(<<43, 210, 4, 41, 0, 13>>)}

(* Controls that end the program, see README. *)
Fatal == {Quiet(<<43, 209, 6, 1, 0, 0, 0, 0>>), Quiet(<<43, 210, 3, 7, 1>>),
          Quiet(<<43, 210, 3, 69, 2>>), Quiet(<<43, 209, 7, 5, 0, 11, 0, 0, 0>>)}

Between(controls) ==
    {<<A, s, A, t, A>> : s \in controls, t \in controls}

Upto(n, controls) == UNION {[1 .. k -> controls] : k \in 0 .. n}

Common == {A, Blank, Open} \cup Line \cup Page
AsciiMoves == Common \cup {Column(5)}
PsMoves == Common \cup {Left, Column(2), Column(5)}
PdfMoves == Common \cup {Left, Column(2), Column(5), Row(1), Row(3), Down, Right}

(* On a device that reads text a move to the left is one column out, and  *)
(* only moves to the right keep their column.                             *)
ToTheRight(s) ==
    \A j \in DOMAIN s : \A i \in 1 .. j - 1 :
        s[i] = Column(5) /\ s[j] = Column(5) =>
            \E k \in i .. j : s[k] \in Line \cup Page

(* A backslash of the text is put in the PDF as it is, and is not tried there. *)
Parentheses == {A, Open, Close}
Marked == Parentheses \cup {Backslash}

SomeStreams ==
    [ascii |-> Between(Settings) \cup Between(Fatal) \cup Upto(3, Marked)
                 \cup {s \in Upto(4, AsciiMoves) : ToTheRight(s)},
     ps |-> Between(Settings) \cup Upto(3, Marked) \cup Upto(4, PsMoves),
     pdf |-> Between(Settings \cup (PdfMoves \ Line)) \cup Upto(6, Parentheses)
               \cup {<<Density>> \o s : s \in Upto(4, PdfMoves)}]

Lengths == [header |-> 10, head |-> 40, start |-> 50, end |-> 22, length |-> 20,
            font |-> 12, down |-> 8, left |-> 7, scale |-> 9, catalog |-> 60,
            outlines |-> 45, procset |-> 30, courier |-> 90, bold |-> 95,
            pages |-> 70, page |-> 120]
==============================================================================
