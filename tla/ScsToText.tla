------------------------------ MODULE ScsToText ------------------------------
(***************************************************************************)
(* The converters scs2ascii.c and scs2ps.c.  What each puts on paper is    *)
(* kept in "shown": a character, its page, row and column there.           *)
(***************************************************************************)
EXTENDS ScsControls

Mark(ch, page, row, column) ==
    [ch |-> ch, page |-> page, row |-> row, column |-> column]
PutOn(p, page, row, column) ==
    [p EXCEPT !.shown = Append(@, Mark(Local(p.cur), page, row, column))]
------------------------------------------------------------------------------
(* scs2ascii: "own" is where a device stands that reads the text.  A form  *)
(* feed takes it to the left of the next page, a newline to the left of    *)
(* the next row, a return to the left.                                     *)
Paper == [page |-> 1, row |-> 1, column |-> 1]

(* scs2ascii_default *)
AsciiText(p) ==
    [PutOn(p, p.own.page, p.own.row, p.own.column) EXCEPT
       !.column = @ + 1, !.own.column = @ + 1]

AsciiPage(p) == [p EXCEPT !.own = [page |-> @.page + 1, row |-> 1, column |-> 1]]
AsciiFormFeed(p) == AsciiPage(FormFeed(p))
AsciiRows(p, n) == [p EXCEPT !.own.row = @ + n,
                             !.own.column = IF n > 0 THEN 1 ELSE @]
AsciiNewLine(p) == AsciiRows(NewLine(p), 1)

(* scs2ascii_new leaves scs_cr in place: nothing is put out. *)
AsciiReturn(p) == CarriageReturn(p)

(* scs2ascii_avpp: a move up is a form feed, to row 1 whatever was asked. *)
AsciiVertical(p) ==
    IF Arg(p, 1) < p.row
    THEN [AsciiPage(Skip(p, 1)) EXCEPT !.row = 1]
    ELSE [AsciiRows(Skip(p, 1), Arg(p, 1) - p.row) EXCEPT !.row = Arg(p, 1)]

(* scs2ascii_ahpp: a move left is a return and as many blanks. *)
AsciiHorizontal(p) ==
    LET to == Arg(p, 1)
    IN  [Skip(p, 1) EXCEPT
           !.column = to,
           !.own.column = IF p.column > to THEN 1 + to ELSE @ + to - p.column]

(* scs2ascii_pp knows the two absolute moves; the value of another is left. *)
AsciiPosition(p) ==
    LET q == Skip(p, 1)
    IN  CASE Byte(p, 1) = 196 -> AsciiVertical(q)
          [] Byte(p, 1) = 192 -> AsciiHorizontal(q)
          [] OTHER -> q

AsciiFont(p) == p

(* What the device makes of a byte that did not come through the map. *)
Raw(b) == IF b = 65 THEN "A" ELSE "raw"

(* A mutant: the bytes are only read, as the library does. *)
TransparentDropped(p) == Transparent(p)

(* scs2ascii_transparent puts the bytes out as they are: the device moves   *)
(* on, and the library's column does not.                                   *)
AsciiTransparent(p) ==
    LET n == AtLeast0(Arg(p, 1))
        at == p.own
    IN  [Skip(p, 1 + n) EXCEPT
           !.shown = @ \o [i \in 1 .. n |->
                             Mark(Raw(Byte(p, 1 + i)), at.page, at.row,
                                  at.column + i - 1)],
           !.own.column = @ + n]

Ascii == INSTANCE Scs WITH OnText <- AsciiText, OnNewLine <- AsciiNewLine,
             OnFormFeed <- AsciiFormFeed, OnReturn <- AsciiReturn,
             OnPosition <- AsciiPosition, OnFont <- AsciiFont,
             OnTransparent <- AsciiTransparent
------------------------------------------------------------------------------
(* scs2ps: "own" holds current_line, ccp, new_page and page. *)
Pages == [line |-> 1, ccp |-> 1, newpage |-> TRUE, page |-> 0]

(* scs2ps_printchar: blanks leave no mark and open no page. *)
PsText(p) ==
    IF Local(p.cur) = " " THEN [p EXCEPT !.own.ccp = @ + 1]
    ELSE LET page == p.own.page + IF p.own.newpage THEN 1 ELSE 0
         IN  [PutOn(p, page, p.own.line, p.own.ccp) EXCEPT
                !.own = [@ EXCEPT !.page = page, !.newpage = FALSE,
                                  !.ccp = @ + 1]]

PsNewLine(p) == [p EXCEPT !.own.line = @ + 1, !.own.ccp = 1]

(* The footer is written whether the page was opened or not. *)
PsFormFeed(p) == [p EXCEPT !.own = [@ EXCEPT !.newpage = TRUE, !.line = 1,
                                             !.ccp = 1]]
PsReturn(p) == [p EXCEPT !.own.ccp = 1]

(* scs2ps_pp: a vertical move sets the row of the library, which scs2ps *)
(* does not print by.                                                   *)
PsPosition(p) ==
    LET q == Skip(p, 1)
    IN  CASE Byte(p, 1) = 196 -> AbsoluteVertical(q)
          [] Byte(p, 1) = 192 -> [Skip(q, 1) EXCEPT !.own.ccp = Arg(q, 1)]
          [] OTHER -> q

PsFont(p) == p

PostScript == INSTANCE Scs WITH OnText <- PsText, OnNewLine <- PsNewLine,
                  OnFormFeed <- PsFormFeed, OnReturn <- PsReturn,
                  OnPosition <- PsPosition, OnFont <- PsFont,
                  OnTransparent <- Transparent
==============================================================================
