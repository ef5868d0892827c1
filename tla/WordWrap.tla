------------------------------- MODULE WordWrap -------------------------------
(***************************************************************************)
(* Word wrap: the parts of a continued field hold one running text.  After *)
(* a key the text is laid out again, from the part before the cursor's (a  *)
(* word may have become short enough to go back there) to the last part.   *)
(* A NUL is padding and may disappear; a blank was typed and is a word of  *)
(* its own.  All parts but the last are marked; each lies within a row.    *)
(***************************************************************************)
EXTENDS DisplayBuffer

Joined(texts) ==
    LET upTo[n \in 0 .. Len(texts)] == IF n = 0 THEN <<>> ELSE upTo[n - 1] \o texts[n]
    IN upTo[Len(texts)]

PartCells(d, i) == [k \in 1 .. d.fields[i].len |-> d.data[d.fields[i].start + k - 1]]

(* The text from part i on, with padding between the parts. *)
RunningText(d, i) ==
    LET parts == UpTo(d, i, LAMBDA j : d.fields[j].wordwrap)
    IN Joined([m \in 1 .. Len(parts) |->
                IF m = 1 THEN PartCells(d, i) ELSE <<Nul>> \o PartCells(d, parts[m])])

(* A line is put into a part, however long it is, and padded. *)
PutLine(d, i, line) ==
    LET f == d.fields[i]
        n == IF Len(line) > f.len THEN Len(line) ELSE f.len
        nth(p) == 1 + ((p + Size - f.start) % Size)
    IN [d EXCEPT !.data = [p \in Cells |->
                    IF nth(p) > n THEN @[p]
                    ELSE IF nth(p) > Len(line) THEN Nul ELSE line[nth(p)]],
                 !.cur = RightOf(f.start, n)]

(* The layout of the text: the part being filled, its line so far, the word  *)
(* being read, and the count of characters that decides where to break.      *)
LayoutStep(s, c, fieldLength) ==
    LET gap == IF c = Nul THEN <<>> ELSE <<c>>
        full == s.line # <<>> /\ s.count + 1 > fieldLength
        line == IF full THEN s.word \o gap ELSE s.line \o s.word \o gap
    IN IF c \notin {Nul, Blank} THEN [s EXCEPT !.word = Append(@, c), !.count = @ + 1]
       ELSE [d |-> IF full THEN PutLine(s.d, s.part, s.line) ELSE s.d,
             part |-> IF full /\ s.d.fields[s.part].wordwrap
                      THEN NextIn(s.d, s.part) ELSE s.part,
             line |-> line, word |-> <<>>,
             count |-> IF s.line = <<>> THEN s.count ELSE Len(line)]
Layout(d, text, fieldLength, first) ==
    LET at[k \in 0 .. Len(text)] ==
            IF k = 0 THEN [d |-> d, part |-> first, line |-> <<>>, word |-> <<>>, count |-> 0]
            ELSE LayoutStep(at[k - 1], text[k], fieldLength)
        end == at[Len(text)]
    IN [d |-> PutLine(end.d, end.part, end.line \o end.word), part |-> end.part]

(* The parts behind the one the text ends in are cleared. *)
Behind(d, i) ==
    LET n == NextIn(d, i)
        f == d.fields[n]
        run == UpTo(d, n, LAMBDA j : d.fields[j].wordwrap)
        parts == {run[m] : m \in DOMAIN run}
    IN IF f.part = "last" \/ (f.wordwrap /\ f.part # "first")
       THEN {j \in parts : d.fields[j].wordwrap \/ d.fields[j].part = "last"} ELSE {}
ClearedBehind(d, i) ==
    LET parts == Behind(d, i)
        cells == UNION {FieldCells(d.fields[j]) : j \in parts}
        last == CHOOSE j \in parts : NextIn(d, j) \notin parts
    IN IF parts = {} THEN d
       ELSE [d EXCEPT !.data = [p \in Cells |-> IF p \in cells THEN Nul ELSE @[p]],
                      !.cur = RightOf(EndPos(d.fields[last]), 1)]

(* The cells of a field that are no padding. *)
WrittenCells(d, f) ==
    Joined([k \in 1 .. f.len |-> LET p == f.start + k - 1
                                 IN IF d.data[p] # Nul THEN <<p>> ELSE <<>>])

(* The cursor goes where as many characters are before it as there were.    *)
(* Without a character there it stays; a table of this one field is gone    *)
(* through for ever when it is empty.                                       *)
CursorBehind(d, first, count) ==
    LET same(j) == d.fields[j].entry = d.fields[first].entry
        whole == \A j \in DOMAIN d.fields : same(j)
        parts == UpTo(d, first, LAMBDA j : same(NextIn(d, j)) /\ NextIn(d, j) # first)
        all == Joined([m \in 1 .. Len(parts) |-> WrittenCells(d, d.fields[parts[m]])])
    IN IF count < Len(all) THEN all[count + 1]
       ELSE IF ~whole THEN d.cur
       ELSE IF all = <<>> THEN Hung ELSE all[(count % Len(all)) + 1]

Wrap(d, text, fieldLength, first, here) ==
    LET skipped == IF here = first THEN 0 ELSE fieldLength + 1
        before == {k \in 1 .. skipped + d.cur - d.fields[here].start : text[k] # Nul}
        laid == Layout(d, text, fieldLength, first)
        cleared == ClearedBehind(laid.d, laid.part)
    IN [cleared EXCEPT !.cur = CursorBehind(cleared, first, Cardinality(before))]

FirstToWrap(d, i) == IF d.fields[i].part = "first" THEN i ELSE PrevIn(d, i)

(* The cursor is one on, or in the next field if that is past the part. *)
AfterChar(d, i) ==
    LET p == RightOf(d.cur, 1)
    IN IF d.cur = Hung THEN d
       ELSE [d EXCEPT !.cur = IF Col(p) > Col(EndPos(d.fields[i]))
                              THEN CursorNextField(d, LeftOf(p)) ELSE p]

(* A mutant: the text is taken from the part itself on. *)
WrapFromHere(d, i, c) ==
    LET written == [d EXCEPT !.data[d.cur] = c]
        first == FirstToWrap(d, i)
    IN AfterChar(Wrap(written, RunningText(written, i), d.fields[i].len, first, first), i)

WrapAddCh(d, i, c) ==
    LET written == [d EXCEPT !.data[d.cur] = c]
        first == FirstToWrap(d, i)
    IN AfterChar(Wrap(written, RunningText(written, first), d.fields[i].len, first, i), i)

(* The part with the inserted character is one too long, the text is cut to *)
(* the length it had.                                                       *)
WrapInsert(d, i, c) ==
    LET first == FirstToWrap(d, i)
        part == PartCells(d, i)
        n == CountLeft(d.fields[i], d.cur)
        text == (IF first = i THEN <<>> ELSE PartCells(d, first) \o <<Nul>>)
                \o SubSeq(part, 1, n) \o <<c>> \o SubSeq(part, n + 1, Len(part)) \o <<Nul>>
                \o RunningText(d, NextIn(d, i))
    IN AfterChar(Wrap(d, SubSeq(text, 1, Len(text) - 1), d.fields[i].len, first, i), i)

DelThisFieldOnly(d, i) ==
    [d EXCEPT !.data = [p \in Cells |->
        IF p \in d.cur .. EndPos(d.fields[i])
        THEN IF p = EndPos(d.fields[i]) THEN Nul ELSE @[p + 1] ELSE @[p]]]

WrapDelete(d, i) ==
    LET e == DelThisFieldOnly(d, i)
    IN Wrap(e, RunningText(e, i), d.fields[i].len, i, i)
================================================================================
