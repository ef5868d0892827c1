------------------------------ MODULE ScsToPdf -------------------------------
(***************************************************************************)
(* The converter scs2pdf.c.  A page is a stream object; its length, and    *)
(* where each object begins in the file, are counted while the file is     *)
(* written, for the length objects and the cross reference table.  The     *)
(* model keeps what is counted (filesize, streamsize, ObjectList) beside   *)
(* what is written (written, begins, made, streams).  Texts whose length   *)
(* does not depend on the stream are as long as Size says.                 *)
(***************************************************************************)
EXTENDS ScsControls

CONSTANTS BUFLEN, (* characters pdf_process_char collects before it writes *)
          Size    (* the length of each piece of the file                  *)

Pieces == {"header", "head", "start", "end", "length", "font", "down", "left",
           "scale", "catalog", "outlines", "procset", "courier", "bold",
           "pages", "page"}

ASSUME ScsToPdfAssumption == BUFLEN \in Nat /\ Size \in [Pieces -> Nat]

MAX_COLUMNS == 80
DEFAULT_PAGE_WIDTH == 12240

(* struct _Tn5250SCSPrivate with the two lists, and the file as it is. *)
Document ==
    [filesize |-> 0, streamsize |-> 0, ObjectList |-> << >>,
     textobjects |-> << >>, pagenumber |-> 1, buf |-> << >>, newpage |-> FALSE,
     boldchars |-> 0, do_bold |-> FALSE, columncheck |-> 0, scaling |-> 100,
     written |-> 0, begins |-> << >>, made |-> << >>, from |-> 0,
     ended |-> << >>, lengths |-> << >>, refs |-> << >>, xref |-> << >>,
     startxref |-> 0]

objcount(d) == Len(d.ObjectList)

(* fprintf of n characters, and the same counted into the stream. *)
Write(d, n) == [d EXCEPT !.written = @ + n]
InStream(d, n) == [Write(d, n) EXCEPT !.streamsize = @ + n]

(* array_append_val(ObjectList, filesize) and objcount++, then an object of *)
(* this kind of n characters.                                               *)
Object(d, kind, n) ==
    [d EXCEPT !.ObjectList = Append(@, d.filesize), !.filesize = @ + n,
              !.begins = Append(@, d.written), !.made = Append(@, kind),
              !.written = @ + n]
------------------------------------------------------------------------------
(* pdf_process_char.  The buffer goes out as "(...) Tj\n"; shown are the   *)
(* strings that went out.                                                  *)
PutOut(p, text) ==
    [p EXCEPT !.own = [InStream(@, Len(text) + 6) EXCEPT !.buf = << >>],
              !.shown = Append(@, text)]

Flush(p) == PutOut(p, p.own.buf)

PutChar(p, c) ==
    IF Len(p.own.buf) >= BUFLEN THEN PutOut(p, Append(p.own.buf, c))
    ELSE [p EXCEPT !.own.buf = Append(@, c)]

(* A mutant: a parenthesis goes in as it is. *)
ProcessUnescaped(p, c) == PutChar(p, c)

(* Parentheses are put in with a backslash, which may fill the buffer and go *)
(* out without them; a backslash of the text is put in as it is.            *)
ProcessChar(p, c) ==
    IF c \in {"(", ")"} THEN PutChar(PutChar(p, "\\"), c) ELSE PutChar(p, c)

Blanks(p, n) ==
    LET right[k \in 0 .. AtLeast0(n)] ==
            IF k = 0 THEN p ELSE ProcessChar(right[k - 1], " ")
    IN  right[AtLeast0(n)]

(* A line of drawing operators after the text so far. *)
Operators(p, kind) ==
    LET q == Flush(p) IN [q EXCEPT !.own = InStream(@, Size[kind])]
------------------------------------------------------------------------------
(* pdf_begin_stream: the object's head belongs to the file, the text's    *)
(* start to the stream.                                                   *)
BeginStream(d) ==
    LET e == Object(d, "stream", Size["head"])
    IN  InStream([e EXCEPT !.from = e.written], Size["start"])

(* The end of a page: its text is flushed, the stream is ended (of the    *)
(* ending, ET belongs to the stream), and an object tells its length.     *)
EndPage(p) ==
    LET q == Flush([p EXCEPT !.own.textobjects = Append(@, objcount(p.own))])
        d == q.own
        e == [d EXCEPT !.streamsize = @ + 4,
                       !.filesize = @ + d.streamsize + Size["end"],
                       !.written = @ + Size["end"],
                       !.ended = Append(@, d.written + 4 - d.from)]
    IN  [q EXCEPT !.own = [Object(e, "length", Size["length"]) EXCEPT
                             !.lengths = Append(@, e.streamsize)]]

(* A mutant: the count of the stream is not set back for the next page. *)
NewPageKeepsCount(p) ==
    LET q == EndPage(p)
        d == BeginStream(q.own)
    IN  [q EXCEPT !.own = [d EXCEPT !.pagenumber = @ + 1, !.newpage = FALSE],
                  !.column = 1]

(* do_newpage *)
NewPage(p) ==
    LET q == EndPage(p)
        d == BeginStream([q.own EXCEPT !.streamsize = 0])
    IN  [q EXCEPT !.own = [d EXCEPT !.pagenumber = @ + 1, !.newpage = FALSE],
                  !.column = 1]

(* A form feed only asks for a page; what is put on it begins it. *)
OnPage(p) == IF p.own.newpage THEN NewPage(p) ELSE p
PdfFormFeed(p) == [FormFeed(p) EXCEPT !.own.newpage = TRUE]

Checked(p, column) ==
    IF column > p.own.columncheck THEN [p EXCEPT !.own.columncheck = column]
                                  ELSE p

(* scs2pdf_default: the last of the bold characters sets the font back. *)
PdfText(p) ==
    LET q == ProcessChar(OnPage(p), Local(p.cur))
        r == Checked([q EXCEPT !.column = @ + 1], q.column + 1)
    IN  IF r.own.boldchars = 0 THEN r
        ELSE IF r.own.boldchars > 1 THEN [r EXCEPT !.own.boldchars = @ - 1]
        ELSE Operators([r EXCEPT !.own.boldchars = 0, !.own.do_bold = FALSE],
                       "font")

(* scs2pdf_nl: the distance is 72 / lpi, and lpi is 0 until it is set. *)
PdfNewLine(p) ==
    LET q == OnPage(p)
        r == Operators(Checked(NewLine(q), q.column), "down")
    IN  IF q.lpi = 0 THEN Dead(q) ELSE r

PdfReturn(p) ==
    Operators(Checked(CarriageReturn(OnPage(p)), 1), "left")

NewLines(p, n) ==
    LET down[k \in 0 .. AtLeast0(n)] ==
            IF k = 0 THEN p ELSE PdfNewLine(down[k - 1])
    IN  down[AtLeast0(n)]

(* scs2pdf_avpp: a move up changes the row and nothing on the page. *)
PdfVertical(p) ==
    LET to == Arg(p, 1)
    IN  [NewLines(Skip(p, 1), to - p.row) EXCEPT !.row = to]

(* scs2pdf_ahpp: a move left starts over and counts the bold characters;  *)
(* to the column just before, nothing moves.                              *)
PdfHorizontal(p) ==
    LET q == Skip(OnPage(p), 1)
        to == Arg(p, 1)
        r == IF q.column - 1 > to
             THEN Blanks(Operators([q EXCEPT !.own.boldchars = q.column - to],
                                   "left"), to - 1)
             ELSE Blanks(q, to - q.column)
    IN  [r EXCEPT !.column = to]

(* scs2pdf_pp: any move ends the count of bold characters, not the font. *)
PdfPosition(p) ==
    LET q == [Skip(p, 1) EXCEPT !.own.boldchars = 0]
        r == CASE Byte(p, 1) = 76 -> RelativeDown(q)
               [] Byte(p, 1) = 196 -> PdfVertical(q)
               [] Byte(p, 1) = 192 -> PdfHorizontal(q)
               [] Byte(p, 1) = 200 -> RelativeRight(q)
               [] OTHER -> q
    IN  IF r.own.boldchars > 0 /\ ~r.own.do_bold
        THEN Operators([r EXCEPT !.own.do_bold = TRUE], "font")
        ELSE r

(* scs2pdf_setfont: 100 for characters of 144 units. *)
PdfFont(p) ==
    Operators([p EXCEPT !.own.scaling = (p.charwidth * 100) \div 144], "scale")

Pdf == INSTANCE Scs WITH OnText <- PdfText, OnNewLine <- PdfNewLine,
           OnFormFeed <- PdfFormFeed, OnReturn <- PdfReturn,
           OnPosition <- PdfPosition, OnFont <- PdfFont,
           OnTransparent <- Transparent
------------------------------------------------------------------------------
(* main: the header and the first page before the stream is read ... *)
PdfStart(bytes) ==
    LET d == [Write(Document, Size["header"]) EXCEPT
                !.filesize = Size["header"]]
    IN  [Printer(bytes, BeginStream(d)) EXCEPT !.cpi = 10, !.top = 240]

(* ... and, without a width of its own, a page as wide as the lines need. *)
PageWidth(p) ==
    IF p.width # 0 \/ p.own.columncheck <= MAX_COLUMNS THEN p.width
    ELSE LET narrow == {i \in 0 .. 14 :
                          p.own.columncheck >= MAX_COLUMNS + 5 * i}
         IN  DEFAULT_PAGE_WIDTH + 720 * (Cardinality(narrow) - 1)

(* The objects that follow the last page.  "refs" holds each reference to  *)
(* an object with the kind of object that is meant; the numbers are worked *)
(* out before the objects are there.                                       *)
Refer(d, refs) == [d EXCEPT !.refs = @ \o refs]
Catalog(d) ==
    LET e == Object(d, "catalog", Size["catalog"])
    IN  Refer(e, <<(<<"outlines", objcount(e) + 1>>), <<"pages", objcount(e) + 5>>>>)
Outlines(d) == Object(d, "outlines", Size["outlines"])
ProcSet(d) == Object(d, "procset", Size["procset"])
Font(d, kind) == Object(d, kind, Size[kind])

(* The root of the page tree, with a line for each page. *)
PageTree(d) ==
    LET e == Object(d, "pages", Size["pages"] + 20 * d.pagenumber)
    IN  Refer(e, [i \in 1 .. d.pagenumber |-> <<"page", objcount(e) + i>>])

(* A page names its parent and its stream, and what all pages share. *)
PageLeaf(d, i, parent) ==
    Refer(Object(d, "page", Size["page"]),
          <<(<<"pages", parent>>), <<"stream", d.textobjects[i]>>,
            <<"procset", parent - 3>>, <<"courier", parent - 2>>,
            <<"bold", parent - 1>>>>)
PageLeaves(d) ==
    LET upto[i \in 0 .. d.pagenumber] ==
            IF i = 0 THEN d ELSE PageLeaf(upto[i - 1], i, objcount(d))
    IN  upto[d.pagenumber]

XrefTable(d) == [d EXCEPT !.xref = [i \in 1 .. objcount(d) |-> d.ObjectList[i]]]
Trailer(d, root) == Refer([d EXCEPT !.startxref = d.filesize], <<(<<"catalog", root>>)>>)

PdfEnd(p) ==
    LET q == EndPage(p)
        last == Font(Font(ProcSet(Outlines(Catalog(q.own))), "courier"), "bold")
        whole == PageLeaves(PageTree(last))
    IN  [q EXCEPT !.own = Trailer(XrefTable(whole), objcount(q.own) + 1),
                  !.width = PageWidth(q), !.state = "done"]
==============================================================================
