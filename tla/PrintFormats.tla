----------------------------- MODULE PrintFormats -----------------------------
(***************************************************************************)
(* A converter of print streams at work: lp5250d's scs2ascii, scs2ps or    *)
(* scs2pdf reads a stream from its standard input, one control at a time,  *)
(* until the input ends.  A stream is made of controls that are complete;  *)
(* beside its bytes, each says what it means for the paper.                *)
(***************************************************************************)
EXTENDS ScsToText, ScsToPdf

CONSTANTS Streams       (* for each converter, the streams it is given *)

Controls == [bytes : Seq(0 .. 255), does : STRING, ch : STRING, to : Nat]
ASSUME PrintFormatsAssumption ==
    \A c \in DOMAIN Streams : Streams[c] \subseteq Seq(Controls)

VARIABLES conv,         (* the converter that runs                     *)
          stream,       (* the controls it was given                   *)
          p             (* the printer: Tn5250SCS, input and paper     *)

converterVars == <<conv, stream, p>>

Bytes == FlattenSeq([i \in DOMAIN stream |-> stream[i].bytes])

(* main of each program, up to scs_main *)
Started == CASE conv = "ascii" -> Printer(Bytes, Paper)
             [] conv = "ps" -> Printer(Bytes, Pages)
             [] OTHER -> PdfStart(Bytes)

ConverterInit ==
        /\ conv \in DOMAIN Streams
        /\ stream \in Streams[conv]
        /\ p = Started

Running == p.state = "run" /\ p.in # << >>

AsciiStep == /\ Running /\ conv = "ascii"
             /\ p' = Ascii!Control(p)
             /\ UNCHANGED <<conv, stream>>

PsStep == /\ Running /\ conv = "ps"
          /\ p' = PostScript!Control(p)
          /\ UNCHANGED <<conv, stream>>

PdfStep == /\ Running /\ conv = "pdf"
           /\ p' = Pdf!Control(p)
           /\ UNCHANGED <<conv, stream>>

(* What is left for main when the input has ended. *)
TextEnd == /\ p.state = "run" /\ p.in = << >> /\ conv # "pdf"
           /\ p' = [p EXCEPT !.state = "done"]
           /\ UNCHANGED <<conv, stream>>

DocumentEnd == /\ p.state = "run" /\ p.in = << >> /\ conv = "pdf"
               /\ p' = PdfEnd(p)
               /\ UNCHANGED <<conv, stream>>

ConverterNext ==
    AsciiStep \/ PsStep \/ PdfStep \/ TextEnd \/ DocumentEnd

ConverterSpec == ConverterInit /\ [][ConverterNext]_converterVars
------------------------------------------------------------------------------
(* What a stream means: where each of its characters belongs.  The page is *)
(* the number of form feeds before it.  Bytes for an ASCII printer ("raw") *)
(* are text for the converter that feeds one, and for no other.            *)
Placed(seen, c) ==
    LET at == seen.at
    IN  CASE c.does = "text" ->
               [at |-> [at EXCEPT !.column = @ + 1],
                text |-> IF c.ch = " " THEN seen.text
                         ELSE Append(seen.text, Mark(c.ch, at.page, at.row, at.column))]
          [] c.does = "raw" /\ conv = "ascii" ->
               [at |-> [at EXCEPT !.column = @ + c.to],
                text |-> seen.text \o [i \in 1 .. c.to |->
                            Mark(c.ch, at.page, at.row, at.column + i - 1)]]
          [] c.does = "line" -> [seen EXCEPT !.at.row = @ + 1, !.at.column = 1]
          [] c.does = "page" ->
               [seen EXCEPT !.at = [page |-> @.page + 1, row |-> 1, column |-> 1]]
          [] c.does = "left" -> [seen EXCEPT !.at.column = 1]
          [] c.does = "column" -> [seen EXCEPT !.at.column = c.to]
          [] OTHER -> seen

Meant == FoldLeft(Placed, [at |-> Paper, text |-> << >>], stream).text

Visible(text) == SelectSeq(text, LAMBDA m : m.ch # " ")

(* What a reader of the PDF makes of a string "(...)": a backslash makes the *)
(* next character a plain one, blanks leave no mark.  A parenthesis without  *)
(* one ends or nests the string, and a backslash at its end hides the end:   *)
(* the string is "broken", or "cut" if it had no room for what the backslash *)
(* belongs to.                                                              *)
ReadOne(seen, c) ==
    CASE c = " " -> [seen EXCEPT !.escape = FALSE]
      [] c = "\\" /\ ~seen.escape -> [seen EXCEPT !.escape = TRUE]
      [] c \in {"(", ")"} /\ ~seen.escape ->
            [seen EXCEPT !.marks = Append(@, "broken")]
      [] OTHER -> [escape |-> FALSE, marks |-> Append(seen.marks, c)]

Marks(text) ==
    LET seen == FoldLeft(ReadOne, [escape |-> FALSE, marks |-> << >>], text)
    IN  IF ~seen.escape THEN seen.marks
        ELSE Append(seen.marks, IF Len(text) > BUFLEN THEN "cut" ELSE "broken")

ReadBack == FlattenSeq([i \in DOMAIN p.shown |-> Marks(p.shown[i])])

(* When a converter has come to the end of its input, the text of the      *)
(* stream is on paper, each character once and in order: the parameters of *)
(* a control never come out as text, no control takes text for its         *)
(* parameters, and none is left in a buffer (scs.c, scs2pdf.c:1263).  From *)
(* scs2ascii and scs2ps each stands in the row and column the stream puts  *)
(* it in, and two share a page exactly when no form feed is between them.  *)
(* What scs2pdf writes reads back as the text, but for one case: a full    *)
(* buffer may part a parenthesis from its backslash (1270-1288), and then  *)
(* it does so up to that parenthesis.                                      *)
TextInPlace ==
    p.state = "done" =>
        IF conv = "pdf"
        THEN LET chars == [i \in DOMAIN Meant |-> Meant[i].ch]
                 cut == SelectInSeq(ReadBack, LAMBDA m : m = "cut")
             IN  IF cut = 0 THEN ReadBack = chars
                 ELSE /\ cut <= Len(chars) /\ chars[cut] \in {"(", ")"}
                      /\ SubSeq(ReadBack, 1, cut - 1) = SubSeq(chars, 1, cut - 1)
        ELSE LET out == Visible(p.shown)
             IN  /\ [i \in DOMAIN out |-> [out[i] EXCEPT !.page = 0]] =
                      [i \in DOMAIN Meant |-> [Meant[i] EXCEPT !.page = 0]]
                 /\ \A i, j \in DOMAIN out : (out[j].page = out[i].page)
                                             <=> (Meant[j].page = Meant[i].page)

(* The PDF that is left behind can be read: the cross reference table has  *)
(* each object where it begins in the file, each length object has the     *)
(* length of its stream, every page has a stream of its own, and each      *)
(* reference is to an object of the kind it takes it for                   *)
(* (scs2pdf.c:341-452, 874-915).                                           *)
XrefRight ==
    (conv = "pdf" /\ p.state = "done") =>
        LET d == p.own
        IN  /\ d.xref = d.begins /\ d.startxref = d.written
            /\ d.lengths = d.ended
            /\ Len(d.textobjects) = d.pagenumber
            /\ IsInjective(d.textobjects)
            /\ \A i \in DOMAIN d.refs : d.made[d.refs[i][2]] = d.refs[i][1]
            /\ \A i \in DOMAIN d.made : d.made[i] = "stream" => d.made[i + 1] = "length"
==============================================================================
