----------------------------- MODULE DisplayBuffer -----------------------------
(***************************************************************************)
(* A display buffer and its format table, as operators on a record: the    *)
(* cells, the cursor, the insert cursor, the fields in the order the host  *)
(* defined them and the master MDT.  dbuffer.c and field.c keep a cursor   *)
(* as a row and a column; here it is the address of the cell, row * w +    *)
(* column.  A field is named by its place in the table; 0 is no field.     *)
(* Menu bars, which change what a cursor movement does, are not here.      *)
(***************************************************************************)
EXTENDS Naturals, Integers, Sequences, FiniteSets

CONSTANTS w, h   (* columns and rows *)

ASSUME DisplayBufferAssumption == w \in Nat \ {0} /\ h \in Nat \ {0}

Size == w * h
Cells == 0 .. Size - 1
Row(p) == p \div w
Col(p) == p % w

(* The bytes of a cell that the code tells apart: NUL, blank, an attribute, *)
(* the DUP character, letters, digits, signs, and what Field- makes of the  *)
(* last byte of a number: its low half with the zone 0xD.                   *)
Nul == "nul"
Blank == "blank"
Attr == "attr"
Dup == "dup"
Plus == "+"
Minus == "-"
Letters == {"a", "A"}
Digits == {"0", "1"}
Negative == {"0xD0", "0xD1", "0xDC", "0xDE"}
Chars == {Nul, Blank, Attr, Dup, Plus, Minus} \cup Letters \cup Digits \cup Negative

Upcase(c) == IF c = "a" THEN "A" ELSE c
Zoned(c) == CASE c \in {"1", "a", "A", "0xD1"} -> "0xD1"
              [] c \in {Dup, "0xDC"} -> "0xDC"
              [] c \in {Plus, "0xDE"} -> "0xDE"
              [] OTHER -> "0xD0"

(* Bytes above 0x40, which are what the word keys look for. *)
Visible(c) == c \notin {Nul, Blank, Attr, Dup}
Empty(c) == c \in {Nul, Blank}

(* A cursor that a search moves for ever. *)
Hung == -1

Smallest(S) == CHOOSE k \in S : \A j \in S : k <= j
Largest(S) == CHOOSE k \in S : \A j \in S : k >= j

(* x, Step(x), Step(Step(x)), ...: n steps. *)
Iterates(Step(_), x, n) ==
    LET first[k \in 0 .. n] ==
            IF k = 0 THEN <<x>>
            ELSE LET s == first[k - 1] IN Append(s, Step(s[k]))
    IN first[n]

(* The same for a step that is a function. *)
Walk(step, x, n) ==
    LET first[k \in 0 .. n] ==
            IF k = 0 THEN <<x>>
            ELSE LET s == first[k - 1] IN Append(s, step[s[k]])
    IN first[n]

(***************************************************************************)
(* Fields                                                                  *)
(***************************************************************************)
Parts == {"none", "first", "middle", "last"}
Field == [start : Cells, len : Nat, bypass : BOOLEAN, mdt : BOOLEAN,
          monocase : BOOLEAN,
          type : {"alpha_shift", "alpha_only", "num_only", "digit_only",
                  "mag_reader", "signed_num"},
          fill : {"no_adjust", "right_zero", "right_blank"},
          fer : BOOLEAN, auto_enter : BOOLEAN, dup_enable : BOOLEAN,
          part : Parts, wordwrap : BOOLEAN,
          nextfield : Nat, entry : Nat]

EndPos(f) == f.start + f.len - 1
HitTest(f, p) == p \in f.start .. EndPos(f)
CountLeft(f, p) == p - f.start
CountRight(f, p) == EndPos(f) - p

(* The fields are a circular list. *)
NextIn(d, i) == IF i = Len(d.fields) THEN 1 ELSE i + 1
PrevIn(d, i) == IF i = 1 THEN Len(d.fields) ELSE i - 1

(* The fields from i on up to the first that does not go on. *)
UpTo(d, i, GoesOn(_)) ==
    LET round == Walk([j \in DOMAIN d.fields |-> NextIn(d, j)], i, Len(d.fields))
        ends == {k \in DOMAIN round : ~GoesOn(round[k])}
    IN SubSeq(round, 1, Smallest(ends))

(* Parts of a continued field that the next field continues, and parts that  *)
(* continue the one before.                                                  *)
Continues(f) == f.part \in {"first", "middle"}
IsContinuation(f) == f.part \in {"middle", "last"}

(* The first field of the table that holds a cell. *)
FieldYX(d, p) ==
    LET hit == {i \in DOMAIN d.fields : HitTest(d.fields[i], p)}
    IN IF hit = {} THEN 0 ELSE Smallest(hit)

NonBypass(d) == {i \in DOMAIN d.fields : ~d.fields[i].bypass}
FirstNonBypass(d) == IF NonBypass(d) = {} THEN 0 ELSE Smallest(NonBypass(d))

(* A mutant: the entries are counted from zero. *)
AddFieldFromZero(d, f) ==
    [d EXCEPT !.fields = Append(@, [f EXCEPT !.entry = d.entries]),
              !.entries = @ + (IF f.part \in {"middle", "last"} THEN 0 ELSE 1)]

(* Adding a field numbers its entry: the parts of a continued field have *)
(* the number of the first.                                              *)
AddField(d, f) ==
    LET n == d.entries + (IF f.part \in {"middle", "last"} THEN 0 ELSE 1)
    IN [d EXCEPT !.fields = Append(@, [f EXCEPT !.entry = n]), !.entries = n]

(* A mutant: every part carries its own MDT. *)
SetOwnMdt(d, i) == [d EXCEPT !.fields[i].mdt = TRUE, !.mdt = TRUE]

(* The first part of a continued field carries its MDT. *)
FirstPart(d, i) ==
    LET back[j \in DOMAIN d.fields, k \in 0 .. Len(d.fields)] ==
            IF k = 0 \/ d.fields[j].part \in {"none", "first"} THEN j
            ELSE back[PrevIn(d, j), k - 1]
    IN back[i, Len(d.fields)]
SetMdt(d, i) == [d EXCEPT !.fields[FirstPart(d, i)].mdt = TRUE, !.mdt = TRUE]

ClearTable(d) ==
    [d EXCEPT !.fields = <<>>, !.entries = 0, !.mdt = FALSE, !.header = <<>>]

Cleared == [data |-> [p \in Cells |-> Nul], cur |-> 0, ic |-> 0, pending |-> FALSE,
            fields |-> <<>>, entries |-> 0, mdt |-> FALSE, header |-> <<>>]

(***************************************************************************)
(* The cursor                                                              *)
(***************************************************************************)
RightOf(p, n) == (p + n) % Size
LeftOf(p) == (p + Size - 1) % Size
(* A mutant: the first row has none above. *)
UpNoWrap(p) == p - w
UpFrom(p) == (p + Size - w) % Size
DownFrom(p) == (p + w) % Size

AddCh(d, c) == [d EXCEPT !.data[d.cur] = c, !.cur = RightOf(d.cur, 1)]

(* The word keys stop on the way at the first cell that completes the      *)
(* pattern, and give up when they have seen the whole screen.  `k' counts  *)
(* the cells, as maxiter does.                                             *)
PrevWord(d, p) ==
    LET at(k) == (p + Size - k) % Size
        steps == 1 .. Size - 1
        visible == {k \in steps : Visible(d.data[at(k)])}
        gap == Smallest(steps \ visible)
        word == Smallest({k \in visible : k > gap})
        before == {k \in steps \ visible : k > word}
    IN IF steps \subseteq visible \/ {k \in visible : k > gap} = {} \/ before = {}
       THEN at(Size - 1) ELSE RightOf(at(Smallest(before)), 1)

NextWord(d, p) ==
    LET at(k) == (p + k) % Size
        steps == 1 .. Size - 1
        visible == {k \in steps : Visible(d.data[at(k)])}
        gap == Smallest(steps \ visible)
        found == {k \in visible : k > gap}
    IN IF steps \subseteq visible \/ found = {} THEN at(Size - 1) ELSE at(Smallest(found))

StartsField(d, p) == LET i == FieldYX(d, p) IN i # 0 /\ d.fields[i].start = p

(* The same, stopping also at the start of any field. *)
PrevWordOrField(d, p) ==
    LET at(k) == (p + Size - k) % Size
        starts == {k \in 1 .. Size - 1 : StartsField(d, at(k))}
        word == PrevWord(d, p)
        seen == {k \in 1 .. Size - 1 : at(k) = LeftOf(word)}
    IN IF starts # {} /\ (seen = {} \/ Smallest(starts) <= Smallest(seen))
       THEN at(Smallest(starts)) ELSE word

NextWordOrField(d, p) ==
    LET at(k) == (p + k) % Size
        word == NextWord(d, p)
        stops == {k \in 1 .. Size - 1 : StartsField(d, at(k)) \/ at(k) = word}
    IN at(Smallest(stops))

(***************************************************************************)
(* From field to field.  Each of these operators gives the cell a cursor   *)
(* at p is moved to.                                                       *)
(***************************************************************************)
(* The first field at or after (before) p, and from there on the first one *)
(* the operator may enter; 0 if there is none.                             *)
EnterableFrom(d, i, Onward(_, _)) ==
    LET way == Walk([j \in DOMAIN d.fields |-> Onward(d, j)], i, Len(d.fields))
        found == {k \in DOMAIN way : ~d.fields[way[k]].bypass}
    IN IF found = {} THEN 0 ELSE way[Smallest(found)]

NextField(d, p) ==
    LET here == FieldYX(d, p)
        ahead == {k \in Cells : FieldYX(d, (p + k) % Size) # 0}
    IN IF here = 0 /\ ahead = {} THEN 0
       ELSE EnterableFrom(d, IF here # 0 THEN NextIn(d, here)
                             ELSE FieldYX(d, (p + Smallest(ahead)) % Size), NextIn)

PrevField(d, p) ==
    LET here == FieldYX(d, p)
        behind == {k \in Cells : FieldYX(d, (p + Size - k) % Size) # 0}
    IN IF here = 0 /\ behind = {} THEN 0
       ELSE EnterableFrom(d, IF here # 0 THEN PrevIn(d, here)
                             ELSE FieldYX(d, (p + Size - Smallest(behind)) % Size), PrevIn)

CursorHome(d) ==
    IF d.pending THEN d.ic
    ELSE IF FirstNonBypass(d) = 0 THEN 0 ELSE d.fields[FirstNonBypass(d)].start

CursorField(d, i) == IF i = 0 THEN CursorHome(d) ELSE d.fields[i].start

(* After this many fields a search has come round. *)
Rounds(d) == Len(d.fields) + 2

(* From field to field with Search, which looks from the start of each. *)
FieldByField(d, first, Search(_, _)) ==
    Walk([i \in DOMAIN d.fields |-> Search(d, d.fields[i].start)], first, Rounds(d))

(* The search for the field with an entry number: it ends at that field, or *)
(* when there is no field to enter, and otherwise never.                    *)
FirstOfEntry(d, way, entry) ==
    LET found == {k \in DOMAIN way : d.fields[way[k]].entry = entry}
    IN IF found = {} THEN Hung ELSE d.fields[way[Smallest(found)]].start

NextProgressionField(d, p, entry) ==
    LET next == NextField(d, p)
    IN IF next = 0 THEN p
       ELSE FirstOfEntry(d, FieldByField(d, next, NextField), entry)

CursorNextField(d, p) ==
    LET i == FieldYX(d, p)
    IN IF i # 0 /\ d.fields[i].nextfield # 0
       THEN NextProgressionField(d, p, d.fields[i].nextfield)
       ELSE CursorField(d, NextField(d, p))

(* From cell to cell with Move until the field there is of another entry *)
(* than the field at the start, or none, or that field again.            *)
OtherEntry(d, way, orig) ==
    LET ends == {k \in 2 .. Len(way) :
                    LET i == IF way[k] = Hung THEN 0 ELSE FieldYX(d, way[k])
                    IN i \in {0, orig} \/ d.fields[i].entry # d.fields[orig].entry}
    IN IF ends = {} THEN Hung ELSE way[Smallest(ends)]
UntilOtherEntry(d, p, orig, Move(_, _)) ==
    OtherEntry(d, Walk([q \in Cells \cup {Hung} |-> IF q = Hung THEN Hung ELSE Move(d, q)],
                       p, Rounds(d)), orig)

(* Tab *)
CursorNextLogicalField(d, p) ==
    LET orig == FieldYX(d, p)
    IN IF orig = 0 THEN CursorNextField(d, p)
       ELSE UntilOtherEntry(d, p, orig, CursorNextField)

(* Back to the field whose next field this is, or to the one before. *)
BackOfEntry(d, way, orig, entry) ==
    LET same(k) == d.fields[way[k]].entry = entry
        round(k) == same(k) /\ way[k] = orig
        ends == {k \in DOMAIN way :
                    \/ round(k)
                    \/ \A j \in 1 .. k : same(j)
                    \/ d.fields[way[k]].nextfield = entry}
        k == Smallest(ends)
    IN IF ends = {} THEN Hung
       ELSE IF round(k) THEN d.fields[PrevField(d, d.fields[orig].start)].start
       ELSE d.fields[way[k]].start

PrevProgressionField(d, p, entry) ==
    LET orig == FieldYX(d, p)
        prev == PrevField(d, p)
    IN IF d.fields[orig].bypass THEN CursorField(d, prev)
       ELSE BackOfEntry(d, FieldByField(d, prev, PrevField), orig, entry)

CursorPrevField(d, p) ==
    LET i == FieldYX(d, p)
    IN IF i # 0 /\ d.fields[i].entry # 0
       THEN PrevProgressionField(d, p, d.fields[i].entry)
       ELSE CursorField(d, PrevField(d, p))

(* Backtab: back until the entry changes twice, and one field on. *)
OneFieldOn(d, p) == IF p = Hung THEN Hung ELSE CursorNextField(d, p)
BackBehindEntry(d, first) ==
    LET orig == FieldYX(d, first)
    IN IF first = Hung \/ orig = 0 THEN first
       ELSE OneFieldOn(d, UntilOtherEntry(d, first, orig, CursorPrevField))
CursorPrevLogicalField(d, p) == BackBehindEntry(d, CursorPrevField(d, p))

(***************************************************************************)
(* Text                                                                    *)
(***************************************************************************)
FieldCells(f) == f.start .. EndPos(f)

(* A mutant: only the part with the cursor is shifted. *)
ShiftOnePart(d, i, count) == count

(* Insertion and deletion move the text from the cursor to the end of the   *)
(* field, and through the following parts of a continued one.  They count   *)
(* the cells of all parts, and on the way take a column beyond the end      *)
(* column of a part for the start of the next part.                         *)
PartsFrom(d, i) == UpTo(d, i, LAMBDA j : Continues(d.fields[j]))
ShiftCount(d, i, count) ==
    LET parts == PartsFrom(d, i)
        cells[m \in 1 .. Len(parts)] ==
            IF m = 1 THEN count ELSE cells[m - 1] + d.fields[parts[m]].len - 1
    IN cells[Len(parts)]

(* The way from the cursor: the cell, the part it is in, the cells to go. *)
ShiftStep(d, s) ==
    LET f == d.fields[s.in]
        n == NextIn(d, s.in)
    IN IF Continues(f) /\ Col(s.at + 1) > Col(EndPos(f))
       THEN [s EXCEPT !.at = d.fields[n].start, !.in = n]
       ELSE [s EXCEPT !.at = @ + 1, !.left = @ - 1]
ShiftWay(d, i, count) ==
    LET n == ShiftCount(d, i, count)
    IN Walk([s \in [at : Nat, in : DOMAIN d.fields, left : Int] |-> ShiftStep(d, s)],
            [at |-> d.cur, in |-> i, left |-> n], n + Len(d.fields))
AtEnd(way) == {k \in DOMAIN way : way[k].left = 0}

(* The cells of the way take what Content says. *)
Shifted(d, way, Content(_)) ==
    LET steps(p) == {k \in DOMAIN way : way[k].at = p}
    IN [p \in Cells |-> IF steps(p) = {} THEN d.data[p] ELSE Content(Largest(steps(p)))]

(* Deletion stops when no cell is to go, and so never steps into a last part *)
(* of one cell; insertion does.                                              *)
DelAlong(d, way) ==
    LET content(k) == IF k = Len(way) THEN Nul ELSE d.data[way[k + 1].at]
    IN [d EXCEPT !.data = Shifted(d, way, content)]
Del(d, i, count) ==
    LET full == ShiftWay(d, i, count)
    IN DelAlong(d, SubSeq(full, 1, Smallest(AtEnd(full))))

InsAlong(d, way, c) ==
    LET content(k) == IF k = 1 THEN c ELSE d.data[way[k - 1].at]
    IN [d EXCEPT !.data = Shifted(d, way, content), !.cur = RightOf(@, 1)]
Ins(d, i, c, count) ==
    LET full == ShiftWay(d, i, count)
    IN InsAlong(d, SubSeq(full, 1, Largest(AtEnd(full))), c)

(* Right adjustment.  The sign position of a signed field stays. *)
ShiftRight(d, i, fill) ==
    LET f == d.fields[i]
        end == IF f.type = "signed_num" THEN EndPos(f) - 1 ELSE EndPos(f)
        text == {p \in f.start .. end : ~Empty(d.data[p])}
        gap == end - Largest(text)
        padded(p) == IF p < Smallest(text) THEN fill ELSE d.data[p]
    IN SetMdt([d EXCEPT !.data = [p \in Cells |->
            IF p \notin f.start .. end THEN @[p]
            ELSE IF text = {} THEN fill
            ELSE IF p - gap < f.start THEN fill ELSE padded(p - gap)]], i)

FieldAdjust(d, i) ==
    LET f == d.fields[i]
        fill == IF f.type = "signed_num" THEN "right_blank" ELSE f.fill
        adjusted == CASE fill = "right_zero" -> ShiftRight(d, i, "0")
                      [] fill = "right_blank" -> ShiftRight(d, i, Blank)
                      [] OTHER -> d
    IN SetMdt(adjusted, i)

(* Roll moves the rows top .. bottom (counted from 0) by `lines', down if   *)
(* it is positive; the rows it leaves keep their text.                     *)
RollRows(d, top, bottom, lines) ==
    [d EXCEPT !.data = [p \in Cells |->
        LET from == Row(p) - lines
        IN IF Row(p) \in top .. bottom /\ from \in top .. bottom
           THEN @[from * w + Col(p)] ELSE @[p]]]
================================================================================
