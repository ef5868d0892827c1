-------------------------------- MODULE Orders --------------------------------
(***************************************************************************)
(* The commands and orders the host writes a screen with, as operators on  *)
(* a unit: its display buffer, whether the keyboard is locked, the read in  *)
(* force, the word-wrap mark of Start of Field, and the error the last      *)
(* order was refused with.  An order that is refused has no other effect    *)
(* unless said so, and the host's data goes on behind it.  Addresses are    *)
(* the host's: rows and columns from 1.                                     *)
(***************************************************************************)
EXTENDS DisplayBuffer

Unit == [screen |-> Cleared, locked |-> FALSE, read |-> "none", wrapping |-> FALSE,
         refused |-> "none"]

Refuse(u, code) == [u EXCEPT !.refused = code]
Rows == 1 .. h
Columns == 1 .. w
Addr(y, x) == (y - 1) * w + x - 1

(***************************************************************************)
(* The first control character: what it resets and clears in the fields.   *)
(***************************************************************************)
Nulled(d, cc1) ==
    LET fields == {i \in NonBypass(d) :
                     \/ cc1 \in {"reset_null", "reset_all_null"}
                     \/ cc1 \in {"null_modified", "reset_null_modified"} /\ d.fields[i].mdt}
        cells == UNION {FieldCells(d.fields[i]) : i \in fields}
    IN [d EXCEPT !.data = [p \in Cells |-> IF p \in cells THEN Nul ELSE @[p]]]

MdtReset(d, cc1) ==
    LET all == cc1 \in {"reset_all", "reset_all_null"}
        some == cc1 \in {"reset", "reset_null", "reset_null_modified"}
    IN [d EXCEPT !.fields = [i \in DOMAIN @ |->
            IF all \/ (some /\ ~@[i].bypass) THEN [@[i] EXCEPT !.mdt = FALSE] ELSE @[i]]]

HandleCc1(d, cc1) == MdtReset(Nulled(d, cc1), cc1)

(* Any but "nothing" locks the keyboard. *)
ControlFields(u, cc1) ==
    [u EXCEPT !.screen = HandleCc1(@, cc1), !.locked = @ \/ cc1 # "nothing"]

(***************************************************************************)
(* Orders                                                                  *)
(***************************************************************************)
SetBufferAddress(u, y, x) ==
    IF y \in Rows /\ x \in Columns THEN [u EXCEPT !.screen.cur = Addr(y, x)]
    ELSE Refuse(u, "address")

InsertCursor(u, y, x) ==
    IF y \in Rows /\ x \in Columns
    THEN [u EXCEPT !.screen.ic = Addr(y, x), !.screen.pending = TRUE]
    ELSE Refuse(u, "address")

(* Move Cursor only checks its address, and takes the first row and column  *)
(* for 0.                                                                   *)
MoveCursor(u, y, x) ==
    IF y - 1 \in Rows /\ x - 1 \in Columns THEN u ELSE Refuse(u, "address")

Character(u, c) == [u EXCEPT !.screen = AddCh(@, c)]

RepeatToAddress(u, y, x, c) ==
    LET from == u.screen.cur
    IN IF y \notin Rows \/ x \notin Columns \/ Addr(y, x) < from THEN Refuse(u, "address")
       ELSE [u EXCEPT !.screen.data = [p \in Cells |->
                            IF p \in from .. Addr(y, x) THEN c ELSE @[p]],
                      !.screen.cur = RightOf(Addr(y, x), 1)]

(* Erasing goes row by row: the first from the cursor on, the last up to the *)
(* address.                                                                  *)
Erased(d, y, x) ==
    LET top == Row(d.cur)
        bottom == y - 1
        left(r) == IF r = top THEN Col(d.cur) ELSE 0
        right(r) == IF r = bottom THEN x - 1 ELSE w - 1
    IN [d EXCEPT !.data = [p \in Cells |->
            IF Row(p) \in top .. bottom /\ Col(p) \in left(Row(p)) .. right(Row(p))
            THEN Blank ELSE @[p]]]

(* A mutant: the cursor may leave the screen below. *)
BehindAddressBelow(y, x) == y * w + (IF x >= w THEN 0 ELSE x)

(* The cursor goes to the address with its row and column taken from 0. *)
BehindAddress(y, x) == (IF y >= h THEN 0 ELSE y) * w + (IF x >= w THEN 0 ELSE x)

EraseToAddress(u, y, x, attributes) ==
    IF Addr(y, x) < u.screen.cur \/ Len(attributes) \notin 1 .. 4 THEN Refuse(u, "address")
    ELSE LET last == attributes[Len(attributes)]
             d == IF last = "all" THEN Erased(u.screen, y, x) ELSE u.screen
         IN [u EXCEPT !.screen = [d EXCEPT !.cur = BehindAddress(y, x)]]

(* The room is counted from the row above the cursor's. *)
TransparentData(u, text) ==
    LET p == u.screen.cur
    IN IF (Row(p) - 1) * w + Col(p) + Len(text) > Size THEN Refuse(u, "address")
       ELSE [u EXCEPT !.screen.data = [q \in Cells |->
                            LET k == 1 + ((q + Size - p) % Size)
                            IN IF k <= Len(text) THEN text[k] ELSE @[q]],
                      !.screen.cur = RightOf(p, Len(text))]

WriteExtendedAttribute(u, type) ==
    IF type \in {1, 3, 5} THEN u ELSE Refuse(u, "attribute")

(* A mutant: the keyboard is not locked. *)
HeaderUnlocked(u, data) ==
    LET d == [ClearTable(u.screen) EXCEPT !.pending = FALSE]
    IN IF Len(data) > 7 THEN Refuse([u EXCEPT !.screen = d], "length")
       ELSE [u EXCEPT !.screen = [d EXCEPT !.header = data]]

(* The table is cleared also when the header is refused. *)
StartOfHeader(u, data) ==
    LET d == [ClearTable(u.screen) EXCEPT !.pending = FALSE]
    IN IF Len(data) > 7
       THEN Refuse([u EXCEPT !.screen = d, !.locked = TRUE], "length")
       ELSE [u EXCEPT !.screen = [d EXCEPT !.header = data], !.locked = TRUE]

(* The mark for word wrap is kept from one Start of Field to the next: it   *)
(* is set by its control word and reset by the one of a last part.          *)
WrappingAfter(wrapping, words) ==
    LET marks == {n \in DOMAIN words : words[n] \in {"wrap", "last"}}
    IN IF marks = {} THEN wrapping ELSE words[Largest(marks)] = "wrap"
PartOf(words) ==
    LET marks == {n \in DOMAIN words : words[n] \in Parts}
    IN IF marks = {} THEN "none" ELSE words[Largest(marks)]

(* The format word of a field that is there already is replaced. *)
Reformatted(old, f) ==
    [f EXCEPT !.start = old.start, !.len = old.len, !.part = old.part,
              !.wordwrap = old.wordwrap, !.nextfield = old.nextfield, !.entry = old.entry]

(* A mutant: the field need not fit on the screen. *)
AnyLength(u, f) == TRUE
(* The room is from the cell behind the attribute on. *)
Fits(u, f) == u.screen.cur + f.len <= Size

(* An input field: its attribute is written, the field is put into the table *)
(* (if one starts there, it is changed; inside another one, nothing), and a  *)
(* blank attribute is written behind it.                                     *)
InputField(u, f, words) ==
    LET wrapping == WrappingAfter(u.wrapping, words)
        v == [Character(u, Attr) EXCEPT !.locked = TRUE, !.wrapping = wrapping]
        d == v.screen
        here == FieldYX(d, d.cur)
        new == [f EXCEPT !.start = d.cur, !.part = PartOf(words), !.wordwrap = wrapping]
        t == IF here = 0 THEN AddField(d, new)
             ELSE IF d.fields[here].start = d.cur
                  THEN [d EXCEPT !.fields[here] = Reformatted(@, f)] ELSE d
        field == t.fields[IF here = 0 THEN Len(t.fields) ELSE here]
        behind == RightOf(EndPos(field), 1)
    IN IF ~Fits(v, f) THEN Refuse(v, "address")
       ELSE [v EXCEPT !.screen = [t EXCEPT !.data[behind] = Attr]]

(* A field for output only is an attribute. *)
OutputField(u, len) ==
    LET v == Character(u, Attr)
    IN IF v.screen.cur + len > Size THEN Refuse(v, "address") ELSE v

(***************************************************************************)
(* Commands                                                                *)
(***************************************************************************)
ClearUnit(u) ==
    [u EXCEPT !.screen = Cleared, !.locked = TRUE, !.read = "none"]

ClearFormatTable(u) ==
    [u EXCEPT !.screen = [ClearTable(@) EXCEPT !.cur = 0], !.locked = TRUE, !.read = "none"]

(* The rows of Roll are taken as they come, from 0. *)
Roll(u, top, bottom, lines) ==
    [u EXCEPT !.screen = IF lines = 0 THEN @ ELSE RollRows(@, top, bottom, lines)]

(* A read unlocks the keyboard. *)
ReadCommand(u, op, cc1) == [ControlFields(u, cc1) EXCEPT !.locked = FALSE, !.read = op]
================================================================================
