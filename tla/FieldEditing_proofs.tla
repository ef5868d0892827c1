-------------------------- MODULE FieldEditing_proofs --------------------------
(***************************************************************************)
(* Proofs about the keys that edit and move in the fields of a screen, for   *)
(* every format, text and size of the screen.                               *)
(***************************************************************************)
EXTENDS FieldEditing, Screen_proofs, FiniteSetTheorems, SequenceTheorems

(* A screen with a format, and one with the cursor on it. *)
Buffers == [data : [Cells -> Chars], cur : Cells \cup {Hung}, ic : Cells,
            pending : BOOLEAN, fields : Seq(Field), entries : Nat, mdt : BOOLEAN,
            header : Seq(0 .. 255)]
Boards == {d \in Buffers : IsFormat(d.fields)}
Ready == {d \in Boards : d.cur \in Cells}

(* What keys leave alone: the fields but for their MDT. *)
FormatOf(d) == [i \in DOMAIN d.fields |-> [d.fields[i] EXCEPT !.mdt = FALSE]]
Edited(d) == {e \in Boards : FormatOf(e) = FormatOf(d)}
EditedAt(d) == {e \in Ready : FormatOf(e) = FormatOf(d)}
------------------------------------------------------------------------------
LEMMA HungIsNoCell == Hung \notin Cells /\ Hung \in Int
  BY CellsRight DEF Hung

LEMMA ConstantChars ==
    /\ {Nul, Blank, Attr, Dup, Plus, Minus} \subseteq Chars
    /\ "0" \in Chars
    /\ \A c : Zoned(c) \in Chars
    /\ \A c \in Chars : Upcase(c) \in Chars
  <1>1. {Nul, Blank, Attr, Dup, Plus, Minus} \subseteq Chars /\ "0" \in Chars /\ "A" \in Chars
    BY DEF Chars, Digits, Letters
  <1>2. Negative \subseteq Chars
    BY DEF Chars
  <1>3. \A c : Zoned(c) \in Negative
    BY DEF Zoned, Negative
  <1> QED
    BY <1>1, <1>2, <1>3 DEF Upcase

LEMMA BoardIs ==
    ASSUME NEW d \in Boards
    PROVE  /\ d = [data |-> d.data, cur |-> d.cur, ic |-> d.ic, pending |-> d.pending,
                   fields |-> d.fields, entries |-> d.entries, mdt |-> d.mdt,
                   header |-> d.header]
           /\ d.data \in [Cells -> Chars] /\ d.cur \in Cells \cup {Hung} /\ d.ic \in Cells
           /\ d.fields \in Seq(Field) /\ IsFormat(d.fields) /\ Len(d.fields) \in Nat
           /\ DOMAIN d.fields = 1 .. Len(d.fields)
           /\ FormatOf(d) = [i \in 1 .. Len(d.fields) |-> [d.fields[i] EXCEPT !.mdt = FALSE]]
  BY DEF Boards, Buffers, FormatOf

LEMMA FieldsAre ==
    ASSUME NEW d \in Boards, NEW i \in 1 .. Len(d.fields)
    PROVE  LET f == d.fields[i]
           IN /\ f \in Field /\ f.start \in Cells /\ EndPos(f) \in Cells
              /\ f.start \in Nat /\ f.len \in Nat \ {0} /\ f.start + f.len <= Size
              /\ EndPos(f) \in Nat /\ f.start <= EndPos(f) /\ FieldCells(f) \subseteq Cells
              /\ FieldCells(f) = f.start .. EndPos(f)
              /\ \A p : HitTest(f, p) <=> p \in FieldCells(f)
              /\ HitTest(f, f.start) /\ HitTest(f, EndPos(f))
  <1> DEFINE f == d.fields[i]
  <1>1. f \in Field /\ f.len > 0 /\ EndPos(f) < Size
    BY BoardIs DEF IsFormat
  <1> HIDE DEF f
  <1>2. f.start \in Cells /\ f.len \in Nat /\ f.start \in Nat /\ f.start < Size /\ Size \in Nat
    BY <1>1, CellsRight, ScreenSize DEF Field
  <1>3. EndPos(f) = f.start + f.len - 1 /\ FieldCells(f) = f.start .. EndPos(f)
    BY DEF EndPos, FieldCells
  <1>4. EndPos(f) \in Nat /\ f.start <= EndPos(f) /\ f.start + f.len <= Size
    BY <1>1, <1>2, <1>3
  <1>5. EndPos(f) \in Cells /\ FieldCells(f) \subseteq Cells
    BY <1>1, <1>2, <1>3, <1>4 DEF Cells
  <1>6. \A p : HitTest(f, p) <=> p \in f.start .. EndPos(f)
    BY DEF HitTest
  <1> QED
    BY <1>1, <1>2, <1>3, <1>4, <1>5, <1>6 DEF f

(* A cell is in one field at most. *)
LEMMA FieldFound ==
    ASSUME NEW d \in Boards, NEW p
    PROVE  /\ FieldYX(d, p) \in {0} \cup (1 .. Len(d.fields))
           /\ FieldYX(d, p) # 0 => HitTest(d.fields[FieldYX(d, p)], p)
           /\ \A i \in 1 .. Len(d.fields) : HitTest(d.fields[i], p) => FieldYX(d, p) = i
  <1> DEFINE hit == {i \in DOMAIN d.fields : HitTest(d.fields[i], p)}
  <1>1. hit \subseteq 1 .. Len(d.fields) /\ hit \in SUBSET Nat
    BY BoardIs
  <1>2. \A i, j \in hit : i = j
    <2> TAKE i, j \in hit
    <2>1. p \in FieldCells(d.fields[i]) /\ p \in FieldCells(d.fields[j])
      BY <1>1, FieldsAre
    <2> QED
      BY <2>1, BoardIs DEF IsFormat
  <1>3. FieldYX(d, p) = IF hit = {} THEN 0 ELSE Smallest(hit)
    BY DEF FieldYX
  <1>4. \A i \in hit : HitTest(d.fields[i], p)
    OBVIOUS
  <1>5. \A i \in 1 .. Len(d.fields) : HitTest(d.fields[i], p) => i \in hit
    BY BoardIs
  <1> HIDE DEF hit
  <1>6. hit # {} => Smallest(hit) \in hit
    BY <1>1, SmallestExists
  <1> QED
    BY <1>1, <1>2, <1>3, <1>4, <1>5, <1>6

(* Text and cursor may change, and the MDT of a field. *)
LEMMA DataChanges ==
    ASSUME NEW d \in Boards, NEW data \in [Cells -> Chars], NEW p \in Cells
    PROVE  /\ [d EXCEPT !.data = data] \in Edited(d)
           /\ [d EXCEPT !.data = data, !.cur = p] \in EditedAt(d)
           /\ [d EXCEPT !.cur = p] \in EditedAt(d)
           /\ \A q \in Cells \cup {Hung} : [d EXCEPT !.cur = q] \in Edited(d)
           /\ [d EXCEPT !.data = data].cur = d.cur /\ [d EXCEPT !.data = data].data = data
           /\ [d EXCEPT !.data = data].fields = d.fields
  <1>1. d \in Buffers /\ IsFormat(d.fields)
    BY DEF Boards
  <1>2. ASSUME NEW e \in Buffers, e.fields = d.fields
        PROVE  e \in Edited(d) /\ (e.cur \in Cells => e \in EditedAt(d))
    <2>1. e \in Boards /\ FormatOf(e) = FormatOf(d)
      BY <1>1, <1>2 DEF Boards, FormatOf
    <2> QED
      BY <2>1 DEF Edited, EditedAt, Ready
  <1>3. /\ [d EXCEPT !.data = data] \in Buffers
        /\ [d EXCEPT !.data = data].fields = d.fields
        /\ [d EXCEPT !.data = data].cur = d.cur
        /\ [d EXCEPT !.data = data].data = data
    BY <1>1 DEF Buffers
  <1>4. /\ [d EXCEPT !.data = data, !.cur = p] \in Buffers
        /\ [d EXCEPT !.data = data, !.cur = p].fields = d.fields
        /\ [d EXCEPT !.data = data, !.cur = p].cur = p
    BY <1>1 DEF Buffers
  <1>5. ASSUME NEW q \in Cells \cup {Hung}
        PROVE  /\ [d EXCEPT !.cur = q] \in Buffers
               /\ [d EXCEPT !.cur = q].fields = d.fields
               /\ [d EXCEPT !.cur = q].cur = q
    BY <1>1 DEF Buffers
  <1> QED
    BY <1>2, <1>3, <1>4, <1>5

LEMMA CharWritten ==
    ASSUME NEW d \in Boards, NEW p, NEW c \in Chars, NEW q \in Cells
    PROVE  /\ [d EXCEPT !.data[p] = c] \in Edited(d)
           /\ [d EXCEPT !.data[p] = c].cur = d.cur
           /\ [d EXCEPT !.data[p] = c].fields = d.fields
           /\ [d EXCEPT !.data[p] = c].data = [d.data EXCEPT ![p] = c]
           /\ [d EXCEPT !.data[p] = c, !.cur = q] \in EditedAt(d)
  <1> DEFINE data == [d.data EXCEPT ![p] = c]
  <1>1. data \in [Cells -> Chars]
    BY BoardIs
  <1>2. /\ [d EXCEPT !.data[p] = c] = [d EXCEPT !.data = data]
        /\ [d EXCEPT !.data[p] = c, !.cur = q] = [d EXCEPT !.data = data, !.cur = q]
    BY DEF Boards, Buffers
  <1>3. [d EXCEPT !.data[p] = c].data = [d.data EXCEPT ![p] = c]
    BY DEF Boards, Buffers
  <1> HIDE DEF data
  <1>4. /\ [d EXCEPT !.data = data] \in Edited(d)
        /\ [d EXCEPT !.data = data].cur = d.cur
        /\ [d EXCEPT !.data = data].fields = d.fields
        /\ [d EXCEPT !.data = data, !.cur = q] \in EditedAt(d)
    BY <1>1, DataChanges
  <1> QED
    BY <1>2, <1>3, <1>4

LEMMA Transitive ==
    ASSUME NEW d, NEW e \in Edited(d)
    PROVE  /\ Edited(e) = Edited(d) /\ EditedAt(e) = EditedAt(d)
           /\ EditedAt(d) \subseteq Edited(d) /\ Edited(d) \subseteq Boards
           /\ EditedAt(d) \subseteq Ready /\ Ready \subseteq Boards
           /\ e.cur \in Cells => e \in EditedAt(d)
  BY DEF Edited, EditedAt, Ready

(* What a format is does not depend on marks and numbers. *)
LEMMA SameGeometry ==
    ASSUME NEW s \in Seq(Field), IsFormat(s), NEW t \in Seq(Field), Len(t) = Len(s),
           \A k \in 1 .. Len(s) : /\ t[k].start = s[k].start /\ t[k].len = s[k].len
                                  /\ t[k].part = s[k].part /\ t[k].wordwrap = s[k].wordwrap
    PROVE  IsFormat(t)
  <1>1. Len(s) \in Nat /\ DOMAIN s = 1 .. Len(s) /\ DOMAIN t = 1 .. Len(s)
    OBVIOUS
  <1>2. \A k \in 1 .. Len(s) :
           /\ EndPos(t[k]) = EndPos(s[k]) /\ FieldCells(t[k]) = FieldCells(s[k])
           /\ Continues(t[k]) = Continues(s[k]) /\ IsContinuation(t[k]) = IsContinuation(s[k])
    BY DEF EndPos, FieldCells, Continues, IsContinuation
  <1>3. ASSUME NEW i \in 1 .. Len(s)
        PROVE  /\ t[i].len > 0 /\ EndPos(t[i]) < Size
               /\ \A j \in 1 .. Len(s) : j # i => FieldCells(t[i]) \cap FieldCells(t[j]) = {}
               /\ IsContinuation(t[i]) => i # 1
               /\ Continues(t[i]) => /\ i < Len(s) /\ IsContinuation(t[i + 1])
                                     /\ Row(EndPos(t[i])) = Row(t[i].start)
                                     /\ Col(EndPos(t[i])) < w - 1
               /\ t[i].wordwrap => Continues(t[i])
    <2>1. /\ s[i].len > 0 /\ EndPos(s[i]) < Size
          /\ \A j \in 1 .. Len(s) : j # i => FieldCells(s[i]) \cap FieldCells(s[j]) = {}
          /\ IsContinuation(s[i]) => i # 1
          /\ Continues(s[i]) => /\ i < Len(s) /\ IsContinuation(s[i + 1])
                                /\ Row(EndPos(s[i])) = Row(s[i].start)
                                /\ Col(EndPos(s[i])) < w - 1
          /\ s[i].wordwrap => Continues(s[i])
      BY <1>1 DEF IsFormat
    <2>2. i < Len(s) => i + 1 \in 1 .. Len(s)
      BY <1>1
    <2> QED
      BY <1>2, <2>1, <2>2
  <1> QED
    BY <1>1, <1>3 DEF IsFormat

LEMMA MarkKeeps ==
    ASSUME NEW d \in Boards, NEW i
    PROVE  /\ SetMdt(d, i) \in Edited(d)
           /\ SetMdt(d, i).data = d.data /\ SetMdt(d, i).cur = d.cur
  <1> DEFINE j == FirstPart(d, i)
             fields == [d.fields EXCEPT ![j].mdt = TRUE]
  <1>1. SetMdt(d, i) = [d EXCEPT !.fields[j].mdt = TRUE, !.mdt = TRUE]
    BY DEF SetMdt
  <1> HIDE DEF j
  <1>2. /\ d.fields \in Seq(Field) /\ d.fields \in [1 .. Len(d.fields) -> Field]
        /\ d \in Buffers /\ Len(d.fields) \in Nat
    BY BoardIs DEF Boards
  <1>3. \A f \in Field : [f EXCEPT !.mdt = TRUE] \in Field
    BY DEF Field
  <1>9. fields \in [1 .. Len(d.fields) -> Field]
    BY <1>2, <1>3
  <1>4. fields \in Seq(Field) /\ Len(fields) = Len(d.fields)
        /\ DOMAIN fields = 1 .. Len(d.fields) /\ DOMAIN d.fields = 1 .. Len(d.fields)
    BY <1>2, <1>9
  <1>5. [d EXCEPT !.fields[j].mdt = TRUE, !.mdt = TRUE]
          = [d EXCEPT !.fields = fields, !.mdt = TRUE]
    BY <1>2 DEF Buffers
  <1>6. \A k \in 1 .. Len(d.fields) :
           /\ [fields[k] EXCEPT !.mdt = FALSE] = [d.fields[k] EXCEPT !.mdt = FALSE]
           /\ fields[k].start = d.fields[k].start /\ fields[k].len = d.fields[k].len
           /\ fields[k].part = d.fields[k].part /\ fields[k].wordwrap = d.fields[k].wordwrap
    BY <1>2 DEF Field
  <1> HIDE DEF fields
  <1>7. IsFormat(fields)
    BY <1>2, <1>4, <1>6, BoardIs, SameGeometry
  <1>8. /\ SetMdt(d, i) \in Buffers /\ SetMdt(d, i).fields = fields
        /\ SetMdt(d, i).data = d.data /\ SetMdt(d, i).cur = d.cur
    <2>1. fields \in Seq(Field)
      BY <1>4
    <2>2. LET e == [d EXCEPT !.fields = fields, !.mdt = TRUE]
          IN e \in Buffers /\ e.fields = fields /\ e.data = d.data /\ e.cur = d.cur
      BY <1>2, <2>1 DEF Buffers
    <2> QED
      BY <1>1, <1>5, <2>2
  <1>10. FormatOf(SetMdt(d, i)) = FormatOf(d)
    BY <1>4, <1>6, <1>8 DEF FormatOf
  <1> QED
    BY <1>7, <1>8, <1>10 DEF Edited, Boards

------------------------------------------------------------------------------
(* Walks: a step that stays in a set can be taken any number of times. *)
WalkTo(s, S, x, step, k) ==
    /\ s \in Seq(S) /\ Len(s) = k + 1 /\ s[1] = x
    /\ \A j \in 1 .. k : s[j + 1] = step[s[j]]

LEMMA WalkInduction ==
    ASSUME NEW S, NEW x \in S, NEW step \in [S -> S], NEW n \in Nat, NEW f,
           f[0] = <<x>>,
           \A k \in 1 .. n : WalkTo(f[k - 1], S, x, step, k - 1) =>
                                f[k] = Append(f[k - 1], step[f[k - 1][k]])
    PROVE  \A k \in 0 .. n : WalkTo(f[k], S, x, step, k)
  <1> DEFINE T == {k \in Nat : k <= n => WalkTo(f[k], S, x, step, k)}
  <1>1. 0 \in T
    <2>1. WalkTo(<<x>>, S, x, step, 0)
      BY DEF WalkTo
    <2> QED
      BY <2>1
  <1>2. ASSUME NEW k \in Nat, k \in T PROVE k + 1 \in T
    <2> SUFFICES ASSUME k + 1 <= n PROVE WalkTo(f[k + 1], S, x, step, k + 1)
      OBVIOUS
    <2>1. PICK s : s = f[k]
      OBVIOUS
    <2>2. WalkTo(s, S, x, step, k)
      BY <1>2, <2>1
    <2>3. f[k + 1] = Append(s, step[s[k + 1]])
      <3>1. k + 1 \in 1 .. n /\ (k + 1) - 1 = k
        OBVIOUS
      <3> QED
        BY <2>1, <2>2, <3>1
    <2>4. s[k + 1] \in S /\ step[s[k + 1]] \in S
      BY <2>2 DEF WalkTo
    <2> QED
      BY <2>2, <2>3, <2>4 DEF WalkTo
  <1> HIDE DEF T
  <1>3. Nat \subseteq T
    BY <1>1, <1>2, Induction
  <1> QED
    BY <1>3 DEF T

LEMMA WalkElements ==
    ASSUME NEW S, NEW x, NEW go, NEW m \in Nat, NEW t, WalkTo(t, S, x, go, m)
    PROVE  /\ t \in Seq(S) /\ DOMAIN t = 1 .. m + 1 /\ Len(t) = m + 1 /\ t[1] = x
           /\ \A k \in 1 .. m + 1 : t[k] \in S
  BY DEF WalkTo

LEMMA WalkSteps ==
    ASSUME NEW S, NEW x, NEW go, NEW m \in Nat, NEW t, WalkTo(t, S, x, go, m)
    PROVE  \A k \in 1 .. m : t[k + 1] = go[t[k]]
  BY DEF WalkTo

LEMMA WalkIs ==
    ASSUME NEW S, NEW x \in S, NEW step \in [S -> S], NEW n \in Nat
    PROVE  WalkTo(Walk(step, x, n), S, x, step, n)
  <1> DEFINE Ways == Seq(S)
             g == [s \in Ways \X Nat |->
                      IF s[2] \in 1 .. Len(s[1]) THEN Append(s[1], step[s[1][s[2]]]) ELSE s[1]]
             first[k \in 0 .. n] ==
                 IF k = 0 THEN <<x>>
                 ELSE LET s == first[k - 1] IN Append(s, step[s[k]])
  <1>1. g \in StepsIn(Ways)
    <2>1. ASSUME NEW s \in Ways \X Nat PROVE g[s] \in Ways
      <3>1. s[1] \in Seq(S) /\ s[2] \in Nat
        OBVIOUS
      <3>2. s[2] \in 1 .. Len(s[1]) => s[1][s[2]] \in S
        BY <3>1
      <3> QED
        BY <3>1, <3>2
    <2> QED
      BY <2>1 DEF StepsIn
  <1>2. <<x>> \in Ways
    OBVIOUS
  <1>3. PICK f : Iterated(f, Ways, <<x>>, g, n)
    BY <1>1, <1>2, Recursion
  <1>4. /\ f \in [0 .. n -> Ways] /\ f[0] = <<x>>
        /\ \A k \in 1 .. n : f[k] = g[<<f[k - 1], k>>]
    BY <1>3 DEF Iterated
  <1>5. ASSUME NEW k \in 1 .. n, WalkTo(f[k - 1], S, x, step, k - 1)
        PROVE  f[k] = Append(f[k - 1], step[f[k - 1][k]])
    <2>1. k \in Nat /\ f[k - 1] \in Ways /\ k \in 1 .. Len(f[k - 1])
      BY <1>5 DEF WalkTo
    <2>2. <<f[k - 1], k>> \in Ways \X Nat
      BY <2>1
    <2> QED
      BY <1>4, <2>1, <2>2
  <1> HIDE DEF g
  <1>6. \A k \in 0 .. n : WalkTo(f[k], S, x, step, k)
    BY <1>4, <1>5, WalkInduction
  <1>7. f = [k \in 0 .. n |-> IF k = 0 THEN <<x>>
                              ELSE LET s == f[k - 1] IN Append(s, step[s[k]])]
    <2>1. f = [k \in 0 .. n |-> f[k]]
      BY <1>4
    <2>2. ASSUME NEW k \in 0 .. n, k # 0 PROVE f[k] = Append(f[k - 1], step[f[k - 1][k]])
      <3>1. k - 1 \in 0 .. n /\ k \in 1 .. n
        BY <2>2
      <3> QED
        BY <1>5, <1>6, <3>1
    <2>3. \A k \in 0 .. n : f[k] = IF k = 0 THEN <<x>>
                                   ELSE LET s == f[k - 1] IN Append(s, step[s[k]])
      BY <1>4, <2>2
    <2> QED
      BY <2>1, <2>3, Zenon
  <1>8. first = [k \in 0 .. n |-> IF k = 0 THEN <<x>>
                                  ELSE LET s == first[k - 1] IN Append(s, step[s[k]])]
    BY <1>7
  <1>9. Walk(step, x, n) = first[n]
    BY DEF Walk
  <1> HIDE DEF first
  <1>10. first[0] = <<x>>
    BY <1>8
  <1>11. ASSUME NEW k \in 1 .. n PROVE first[k] = Append(first[k - 1], step[first[k - 1][k]])
    <2>1. k \in 0 .. n /\ k # 0
      OBVIOUS
    <2> QED
      BY <1>8, <2>1
  <1>12. \A k \in 0 .. n : WalkTo(first[k], S, x, step, k)
    BY <1>10, <1>11, WalkInduction
  <1>13. WalkTo(first[n], S, x, step, n)
    BY <1>12
  <1> QED
    BY <1>9, <1>13

------------------------------------------------------------------------------
(* The cursor from cell to cell and from word to word. *)
LEMMA CellMoves ==
    ASSUME NEW p \in Cells
    PROVE  /\ LeftOf(p) \in Cells /\ UpFrom(p) \in Cells /\ DownFrom(p) \in Cells
           /\ DownFrom(Row(p) * w) \in Cells
           /\ \A n \in Int : RightOf(p, n) \in Cells /\ (p + Size - n) % Size \in Cells
                             /\ (p + n) % Size \in Cells
  <1>1. p \in Int /\ Size \in Int /\ w \in Int /\ Row(p) * w \in Int
    BY ScreenSize, CellsRight, RowCol, DisplayBufferAssumption
  <1>2. /\ p + Size - 1 \in Int /\ p + Size - w \in Int /\ p + w \in Int
        /\ Row(p) * w + w \in Int
        /\ \A n \in Int : p + n \in Int /\ p + Size - n \in Int
    BY <1>1
  <1> QED
    BY <1>1, <1>2, ScreenSize, CellsRight DEF LeftOf, UpFrom, DownFrom

LEMMA WordMoves ==
    ASSUME NEW d \in Boards, NEW p \in Cells
    PROVE  /\ PrevWord(d, p) \in Cells /\ NextWord(d, p) \in Cells
           /\ PrevWordOrField(d, p) \in Cells /\ NextWordOrField(d, p) \in Cells
  <1> DEFINE back(k) == (p + Size - k) % Size
             on(k) == (p + k) % Size
             steps == 1 .. Size - 1
  <1>1. Size - 1 \in steps /\ Size - 1 \in Nat /\ \A k \in steps : k \in Nat
    BY ScreenSize, FieldEditingAssumption
  <1>2. \A k \in Int : back(k) \in Cells /\ on(k) \in Cells
    BY CellMoves
  <1>3. PrevWord(d, p) \in Cells
    <2> DEFINE visible == {k \in steps : Visible(d.data[back(k)])}
               gap == Smallest(steps \ visible)
               word == Smallest({k \in visible : k > gap})
               before == {k \in steps \ visible : k > word}
    <2>1. before \in SUBSET Nat /\ before \subseteq Nat
      BY <1>1
    <2>2. PrevWord(d, p) = IF steps \subseteq visible \/ {k \in visible : k > gap} = {}
                                \/ before = {}
                           THEN back(Size - 1) ELSE RightOf(back(Smallest(before)), 1)
      BY DEF PrevWord
    <2> HIDE DEF visible, gap, word, before
    <2>3. before # {} => Smallest(before) \in Nat
      BY <2>1, SmallestExists
    <2>4. before # {} => back(Smallest(before)) \in Cells
      BY <1>2, <2>3
    <2>5. back(Size - 1) \in Cells
      BY <1>1, <1>2
    <2> HIDE DEF back
    <2>6. before # {} => RightOf(back(Smallest(before)), 1) \in Cells
      BY <2>4, CellMoves
    <2> QED
      BY <2>2, <2>5, <2>6
  <1>4. PICK j \in steps : NextWord(d, p) = on(j)
    <2> DEFINE visible == {k \in steps : Visible(d.data[on(k)])}
               gap == Smallest(steps \ visible)
               found == {k \in visible : k > gap}
    <2>1. found \in SUBSET Nat /\ found \subseteq steps
      BY <1>1
    <2>2. NextWord(d, p) = IF steps \subseteq visible \/ found = {} THEN on(Size - 1)
                           ELSE on(Smallest(found))
      BY DEF NextWord
    <2> HIDE DEF visible, gap, found
    <2>3. found # {} => Smallest(found) \in steps
      BY <2>1, SmallestExists
    <2> QED
      BY <1>1, <2>2, <2>3
  <1>5. PrevWordOrField(d, p) \in Cells
    <2> DEFINE starts == {k \in steps : StartsField(d, back(k))}
               seen == {k \in steps : back(k) = LeftOf(PrevWord(d, p))}
    <2>1. starts \in SUBSET Nat /\ starts \subseteq Nat
      BY <1>1
    <2>2. PrevWordOrField(d, p) =
             IF starts # {} /\ (seen = {} \/ Smallest(starts) <= Smallest(seen))
             THEN back(Smallest(starts)) ELSE PrevWord(d, p)
      BY DEF PrevWordOrField
    <2> HIDE DEF starts, seen
    <2>3. starts # {} => Smallest(starts) \in Nat
      BY <2>1, SmallestExists
    <2> QED
      BY <1>2, <1>3, <2>2, <2>3
  <1>6. NextWordOrField(d, p) \in Cells
    <2> DEFINE stops == {k \in steps : StartsField(d, on(k)) \/ on(k) = NextWord(d, p)}
    <2>1. stops \in SUBSET Nat /\ stops \subseteq Nat /\ j \in stops
      BY <1>1, <1>4
    <2>2. NextWordOrField(d, p) = on(Smallest(stops))
      BY DEF NextWordOrField
    <2> HIDE DEF stops
    <2>3. Smallest(stops) \in Nat
      BY <2>1, SmallestExists
    <2> QED
      BY <1>2, <2>2, <2>3
  <1> HIDE DEF on
  <1>7. NextWord(d, p) \in Cells
    BY <1>1, <1>2, <1>4
  <1> QED
    BY <1>3, <1>5, <1>6, <1>7
------------------------------------------------------------------------------
(* The cursor from field to field.  The circular list leads through all.     *)
LEMMA ListIsCircular ==
    ASSUME NEW d \in Boards, NEW i \in 1 .. Len(d.fields)
    PROVE  NextIn(d, i) \in 1 .. Len(d.fields) /\ PrevIn(d, i) \in 1 .. Len(d.fields)
  BY BoardIs DEF NextIn, PrevIn

Reaches(way, n) ==
    /\ DOMAIN way = 1 .. n + 1 /\ \A k \in DOMAIN way : way[k] \in 1 .. n
    /\ \A j \in 1 .. n : \E k \in DOMAIN way : way[k] = j

LEMMA OnwardReaches ==
    ASSUME NEW n \in Nat, NEW i \in 1 .. n, NEW step \in [1 .. n -> 1 .. n],
           \A j \in 1 .. n : step[j] = IF j = n THEN 1 ELSE j + 1
    PROVE  Reaches(Walk(step, i, n), n)
  <1> DEFINE place(k) == IF i + k - 1 <= n THEN i + k - 1 ELSE i + k - 1 - n
  <1>1. PICK way : way = Walk(step, i, n)
    OBVIOUS
  <1>2. PICK S : S = 1 .. n
    OBVIOUS
  <1>10. i \in S /\ step \in [S -> S]
    BY <1>2
  <1>11. WalkTo(way, S, i, step, n)
    BY <1>1, <1>10, WalkIs
  <1>12. /\ way \in Seq(S) /\ DOMAIN way = 1 .. n + 1 /\ way[1] = i
         /\ \A k \in 1 .. n + 1 : way[k] \in S
    BY <1>11 DEF WalkTo
  <1>3. /\ DOMAIN way = 1 .. n + 1 /\ way[1] = i
        /\ \A k \in 1 .. n + 1 : way[k] \in 1 .. n
    BY <1>2, <1>12
  <1>4. \A k \in 1 .. n : way[k + 1] = step[way[k]]
    BY <1>11 DEF WalkTo
  <1> DEFINE T == {k \in Nat : k + 1 <= n => way[k + 1] = place(k + 1)}
  <1>5. 0 \in T
    BY <1>3
  <1>6. ASSUME NEW k \in Nat, k \in T PROVE k + 1 \in T
    <2> SUFFICES ASSUME k + 2 <= n PROVE way[k + 2] = place(k + 2)
      OBVIOUS
    <2>1. way[k + 1] = place(k + 1) /\ k + 1 \in 1 .. n /\ (k + 1) + 1 = k + 2
      BY <1>6
    <2>2. way[(k + 1) + 1] = step[way[k + 1]]
      BY <1>4, <2>1
    <2>3. place(k + 1) \in 1 .. n
      BY <2>1
    <2>4. step[place(k + 1)] = place(k + 2)
      BY <2>1, <2>3
    <2> QED
      BY <2>1, <2>2, <2>4
  <1> HIDE DEF T
  <1>7. Nat \subseteq T
    BY <1>5, <1>6, Induction
  <1>8. ASSUME NEW j \in 1 .. n PROVE \E k \in 1 .. n + 1 : way[k] = j
    <2> DEFINE k == IF j >= i THEN j - i ELSE j - i + n
    <2>1. k \in Nat /\ k + 1 \in 1 .. n /\ place(k + 1) = j
      OBVIOUS
    <2> HIDE DEF k, place
    <2>2. way[k + 1] = j
      BY <1>7, <2>1 DEF T
    <2>3. k + 1 \in 1 .. n + 1
      BY <2>1
    <2> QED
      BY <2>2, <2>3
  <1> QED
    BY <1>1, <1>3, <1>8 DEF Reaches

LEMMA BackwardReaches ==
    ASSUME NEW n \in Nat, NEW i \in 1 .. n, NEW step \in [1 .. n -> 1 .. n],
           \A j \in 1 .. n : step[j] = IF j = 1 THEN n ELSE j - 1
    PROVE  Reaches(Walk(step, i, n), n)
  <1> DEFINE place(k) == IF i - k + 1 >= 1 THEN i - k + 1 ELSE i - k + 1 + n
  <1>1. PICK way : way = Walk(step, i, n)
    OBVIOUS
  <1>2. PICK S : S = 1 .. n
    OBVIOUS
  <1>10. i \in S /\ step \in [S -> S]
    BY <1>2
  <1>11. WalkTo(way, S, i, step, n)
    BY <1>1, <1>10, WalkIs
  <1>12. /\ way \in Seq(S) /\ DOMAIN way = 1 .. n + 1 /\ way[1] = i
         /\ \A k \in 1 .. n + 1 : way[k] \in S
    BY <1>11 DEF WalkTo
  <1>3. /\ DOMAIN way = 1 .. n + 1 /\ way[1] = i
        /\ \A k \in 1 .. n + 1 : way[k] \in 1 .. n
    BY <1>2, <1>12
  <1>4. \A k \in 1 .. n : way[k + 1] = step[way[k]]
    BY <1>11 DEF WalkTo
  <1> DEFINE T == {k \in Nat : k + 1 <= n => way[k + 1] = place(k + 1)}
  <1>5. 0 \in T
    BY <1>3
  <1>6. ASSUME NEW k \in Nat, k \in T PROVE k + 1 \in T
    <2> SUFFICES ASSUME k + 2 <= n PROVE way[k + 2] = place(k + 2)
      OBVIOUS
    <2>1. way[k + 1] = place(k + 1) /\ k + 1 \in 1 .. n /\ (k + 1) + 1 = k + 2
      BY <1>6
    <2>2. way[(k + 1) + 1] = step[way[k + 1]]
      BY <1>4, <2>1
    <2>3. place(k + 1) \in 1 .. n
      BY <2>1
    <2>4. step[place(k + 1)] = place(k + 2)
      BY <2>1, <2>3
    <2> QED
      BY <2>1, <2>2, <2>4
  <1> HIDE DEF T
  <1>7. Nat \subseteq T
    BY <1>5, <1>6, Induction
  <1>8. ASSUME NEW j \in 1 .. n PROVE \E k \in 1 .. n + 1 : way[k] = j
    <2> DEFINE k == IF j <= i THEN i - j ELSE i - j + n
    <2>1. k \in Nat /\ k + 1 \in 1 .. n /\ place(k + 1) = j
      OBVIOUS
    <2> HIDE DEF k, place
    <2>2. way[k + 1] = j
      BY <1>7, <2>1 DEF T
    <2>3. k + 1 \in 1 .. n + 1
      BY <2>1
    <2> QED
      BY <2>2, <2>3
  <1> QED
    BY <1>1, <1>3, <1>8 DEF Reaches

(* A search along the list ends at a field that can be entered, if there is   *)
(* one.                                                                      *)
Found(d, i) == i \in {0} \cup (1 .. Len(d.fields)) /\ (i # 0 => i \in NonBypass(d))

LEMMA AlongWay ==
    ASSUME NEW d \in Boards, NEW way, Reaches(way, Len(d.fields)), NEW i,
           i = LET found == {k \in DOMAIN way : ~d.fields[way[k]].bypass}
               IN IF found = {} THEN 0 ELSE way[Smallest(found)]
    PROVE  Found(d, i) /\ (NonBypass(d) # {} => i # 0)
  <1> DEFINE found == {k \in DOMAIN way : ~d.fields[way[k]].bypass}
  <1>1. /\ found \in SUBSET Nat /\ found \subseteq DOMAIN way
        /\ \A k \in DOMAIN way : way[k] \in 1 .. Len(d.fields)
        /\ \A j \in 1 .. Len(d.fields) : \E k \in DOMAIN way : way[k] = j
    BY BoardIs DEF Reaches
  <1>2. NonBypass(d) = {j \in 1 .. Len(d.fields) : ~d.fields[j].bypass}
    BY BoardIs DEF NonBypass
  <1>3. i = IF found = {} THEN 0 ELSE way[Smallest(found)]
    OBVIOUS
  <1>4. found # {} => Smallest(found) \in found
    BY <1>1, SmallestExists
  <1>5. \A k \in found : way[k] \in NonBypass(d)
    BY <1>1, <1>2
  <1>6. \A j \in NonBypass(d) : \E k \in DOMAIN way : way[k] = j /\ k \in found
    BY <1>1, <1>2
  <1>7. NonBypass(d) \subseteq 1 .. Len(d.fields) /\ 0 \notin 1 .. Len(d.fields)
    BY <1>2
  <1> HIDE DEF found
  <1> QED
    BY <1>3, <1>4, <1>5, <1>6, <1>7 DEF Found

LEMMA EnterableOnward ==
    ASSUME NEW d \in Boards, NEW i \in 1 .. Len(d.fields)
    PROVE  LET j == EnterableFrom(d, i, NextIn)
           IN Found(d, j) /\ (NonBypass(d) # {} => j # 0)
  <1>1. PICK n : n = Len(d.fields)
    OBVIOUS
  <1>2. PICK step : step = [j \in DOMAIN d.fields |-> NextIn(d, j)]
    OBVIOUS
  <1>3. n \in Nat /\ i \in 1 .. n /\ DOMAIN d.fields = 1 .. n
    BY <1>1, BoardIs
  <1>4. step \in [1 .. n -> 1 .. n]
    BY <1>1, <1>2, <1>3, ListIsCircular
  <1>5. \A j \in 1 .. n : step[j] = IF j = n THEN 1 ELSE j + 1
    BY <1>1, <1>2, <1>3 DEF NextIn
  <1>6. PICK way : way = Walk(step, i, n)
    OBVIOUS
  <1>7. Reaches(way, n)
    BY <1>3, <1>4, <1>5, <1>6, OnwardReaches
  <1>8. EnterableFrom(d, i, NextIn)
          = LET found == {k \in DOMAIN way : ~d.fields[way[k]].bypass}
            IN IF found = {} THEN 0 ELSE way[Smallest(found)]
    BY <1>1, <1>2, <1>6 DEF EnterableFrom
  <1> QED
    BY <1>1, <1>7, <1>8, AlongWay

LEMMA EnterableBackward ==
    ASSUME NEW d \in Boards, NEW i \in 1 .. Len(d.fields)
    PROVE  LET j == EnterableFrom(d, i, PrevIn)
           IN Found(d, j) /\ (NonBypass(d) # {} => j # 0)
  <1>1. PICK n : n = Len(d.fields)
    OBVIOUS
  <1>2. PICK step : step = [j \in DOMAIN d.fields |-> PrevIn(d, j)]
    OBVIOUS
  <1>3. n \in Nat /\ i \in 1 .. n /\ DOMAIN d.fields = 1 .. n
    BY <1>1, BoardIs
  <1>4. step \in [1 .. n -> 1 .. n]
    BY <1>1, <1>2, <1>3, ListIsCircular
  <1>5. \A j \in 1 .. n : step[j] = IF j = 1 THEN n ELSE j - 1
    BY <1>1, <1>2, <1>3 DEF PrevIn
  <1>6. PICK way : way = Walk(step, i, n)
    OBVIOUS
  <1>7. Reaches(way, n)
    BY <1>3, <1>4, <1>5, <1>6, BackwardReaches
  <1>8. EnterableFrom(d, i, PrevIn)
          = LET found == {k \in DOMAIN way : ~d.fields[way[k]].bypass}
            IN IF found = {} THEN 0 ELSE way[Smallest(found)]
    BY <1>1, <1>2, <1>6 DEF EnterableFrom
  <1> QED
    BY <1>1, <1>7, <1>8, AlongWay

LEMMA FieldAhead ==
    ASSUME NEW d \in Boards, NEW p
    PROVE  /\ Found(d, NextField(d, p))
           /\ FieldYX(d, p) # 0 /\ NonBypass(d) # {} => NextField(d, p) # 0
  <1> DEFINE ahead == {k \in Cells : FieldYX(d, (p + k) % Size) # 0}
             at == FieldYX(d, (p + Smallest(ahead)) % Size)
             here == FieldYX(d, p)
             from == IF here # 0 THEN NextIn(d, here) ELSE at
  <1>1. NextField(d, p) = IF here = 0 /\ ahead = {} THEN 0 ELSE EnterableFrom(d, from, NextIn)
    BY DEF NextField
  <1>2. ahead # {} => at \in 1 .. Len(d.fields)
    <2>1. ahead \in SUBSET Nat
      BY CellsRight
    <2>2. ahead # {} => Smallest(ahead) \in ahead
      BY <2>1, SmallestExists
    <2>3. ahead # {} => at # 0
      BY <2>2
    <2>4. at \in {0} \cup (1 .. Len(d.fields))
      BY FieldFound
    <2> QED
      BY <2>3, <2>4
  <1>3. here # 0 => here \in 1 .. Len(d.fields) /\ NextIn(d, here) \in 1 .. Len(d.fields)
    BY FieldFound, ListIsCircular
  <1>4. ~(here = 0 /\ ahead = {}) => from \in 1 .. Len(d.fields)
    BY <1>2, <1>3
  <1> HIDE DEF ahead, at, here, from
  <1>5. Found(d, 0)
    BY DEF Found
  <1> QED
    BY <1>1, <1>4, <1>5, EnterableOnward DEF here

LEMMA FieldBehind ==
    ASSUME NEW d \in Boards, NEW p
    PROVE  /\ Found(d, PrevField(d, p))
           /\ FieldYX(d, p) # 0 /\ NonBypass(d) # {} => PrevField(d, p) # 0
  <1> DEFINE behind == {k \in Cells : FieldYX(d, (p + Size - k) % Size) # 0}
             at == FieldYX(d, (p + Size - Smallest(behind)) % Size)
             here == FieldYX(d, p)
             from == IF here # 0 THEN PrevIn(d, here) ELSE at
  <1>1. PrevField(d, p) = IF here = 0 /\ behind = {} THEN 0 ELSE EnterableFrom(d, from, PrevIn)
    BY DEF PrevField
  <1>2. behind # {} => at \in 1 .. Len(d.fields)
    <2>1. behind \in SUBSET Nat
      BY CellsRight
    <2>2. behind # {} => Smallest(behind) \in behind
      BY <2>1, SmallestExists
    <2>3. behind # {} => at # 0
      BY <2>2
    <2>4. at \in {0} \cup (1 .. Len(d.fields))
      BY FieldFound
    <2> QED
      BY <2>3, <2>4
  <1>3. here # 0 => here \in 1 .. Len(d.fields) /\ PrevIn(d, here) \in 1 .. Len(d.fields)
    BY FieldFound, ListIsCircular
  <1>4. ~(here = 0 /\ behind = {}) => from \in 1 .. Len(d.fields)
    BY <1>2, <1>3
  <1> HIDE DEF behind, at, here, from
  <1>5. Found(d, 0)
    BY DEF Found
  <1> QED
    BY <1>1, <1>4, <1>5, EnterableBackward DEF here

LEMMA WalkStays ==
    ASSUME NEW S, NEW x \in S, NEW step \in [S -> S], NEW n \in Nat
    PROVE  /\ Len(Walk(step, x, n)) = n + 1 /\ DOMAIN Walk(step, x, n) = 1 .. n + 1
           /\ \A k \in 1 .. n + 1 : Walk(step, x, n)[k] \in S
  <1>1. WalkTo(Walk(step, x, n), S, x, step, n)
    BY WalkIs
  <1>2. PICK way : way = Walk(step, x, n)
    OBVIOUS
  <1>3. /\ Len(way) = n + 1 /\ DOMAIN way = 1 .. n + 1
        /\ \A k \in 1 .. n + 1 : way[k] \in S
    BY <1>1, <1>2 DEF WalkTo
  <1> QED
    BY <1>2, <1>3

(* Where a cursor movement ends: at a cell, or never. *)
Landing == Cells \cup {Hung}

LEMMA StartsAreCells ==
    ASSUME NEW d \in Boards
    PROVE  /\ \A i \in 1 .. Len(d.fields) : d.fields[i].start \in Cells
           /\ FirstNonBypass(d) # 0 => FirstNonBypass(d) \in 1 .. Len(d.fields)
           /\ CursorHome(d) \in Cells
           /\ \A i : Found(d, i) => CursorField(d, i) \in Cells
  <1>1. \A i \in 1 .. Len(d.fields) : d.fields[i].start \in Cells
    BY FieldsAre
  <1>2. FirstNonBypass(d) # 0 => FirstNonBypass(d) \in 1 .. Len(d.fields)
    <2>1. NonBypass(d) \subseteq 1 .. Len(d.fields) /\ NonBypass(d) \in SUBSET Nat
      BY BoardIs DEF NonBypass
    <2> QED
      BY <2>1, SmallestExists DEF FirstNonBypass
  <1>3. CursorHome(d) \in Cells
    BY <1>1, <1>2, BoardIs, ScreenSize DEF CursorHome
  <1> QED
    BY <1>1, <1>2, <1>3 DEF Found, CursorField

LEMMA EntryFound ==
    ASSUME NEW d \in Boards, NEW way, NEW n \in Nat, DOMAIN way = 1 .. n,
           \A k \in 1 .. n : way[k] \in 1 .. Len(d.fields), NEW entry
    PROVE  FirstOfEntry(d, way, entry) \in Landing
  <1> DEFINE found == {k \in DOMAIN way : d.fields[way[k]].entry = entry}
  <1>1. found \in SUBSET Nat /\ found \subseteq 1 .. n
    OBVIOUS
  <1>2. FirstOfEntry(d, way, entry)
          = IF found = {} THEN Hung ELSE d.fields[way[Smallest(found)]].start
    BY DEF FirstOfEntry
  <1> HIDE DEF found
  <1>3. found # {} => Smallest(found) \in 1 .. n
    BY <1>1, SmallestExists
  <1>4. found # {} => d.fields[way[Smallest(found)]].start \in Cells
    BY <1>3, StartsAreCells
  <1> QED
    BY <1>2, <1>4 DEF Landing

(* From the start of a field there is one to go to, both ways. *)
LEMMA StartLeadsOn ==
    ASSUME NEW d \in Boards, NEW i \in 1 .. Len(d.fields)
    PROVE  /\ FieldYX(d, d.fields[i].start) = i
           /\ NonBypass(d) # {} => /\ NextField(d, d.fields[i].start) \in 1 .. Len(d.fields)
                                   /\ PrevField(d, d.fields[i].start) \in 1 .. Len(d.fields)
  <1>1. FieldYX(d, d.fields[i].start) = i
    BY FieldsAre, FieldFound
  <1>2. i # 0
    OBVIOUS
  <1> QED
    BY <1>1, <1>2, FieldAhead, FieldBehind DEF Found

LEMMA ByField ==
    ASSUME NEW d \in Boards, NonBypass(d) # {}, NEW first \in 1 .. Len(d.fields)
    PROVE  /\ Rounds(d) + 1 \in Nat
           /\ DOMAIN FieldByField(d, first, NextField) = 1 .. Rounds(d) + 1
           /\ DOMAIN FieldByField(d, first, PrevField) = 1 .. Rounds(d) + 1
           /\ \A k \in 1 .. Rounds(d) + 1 :
                 /\ FieldByField(d, first, NextField)[k] \in 1 .. Len(d.fields)
                 /\ FieldByField(d, first, PrevField)[k] \in 1 .. Len(d.fields)
  <1>1. PICK S : S = 1 .. Len(d.fields)
    OBVIOUS
  <1>2. PICK on : on = [i \in DOMAIN d.fields |-> NextField(d, d.fields[i].start)]
    OBVIOUS
  <1>3. PICK back : back = [i \in DOMAIN d.fields |-> PrevField(d, d.fields[i].start)]
    OBVIOUS
  <1>4. on \in [S -> S] /\ back \in [S -> S] /\ first \in S
    BY <1>1, <1>2, <1>3, BoardIs, StartLeadsOn
  <1>5. PICK n : n = Rounds(d)
    OBVIOUS
  <1>6. n \in Nat /\ n + 1 \in Nat
    BY <1>5, BoardIs DEF Rounds
  <1>10. PICK ahead : ahead = Walk(on, first, n)
    OBVIOUS
  <1>11. PICK behind : behind = Walk(back, first, n)
    OBVIOUS
  <1>12. WalkTo(ahead, S, first, on, n) /\ WalkTo(behind, S, first, back, n)
    BY <1>4, <1>6, <1>10, <1>11, WalkIs
  <1>7. DOMAIN ahead = 1 .. n + 1 /\ \A k \in 1 .. n + 1 : ahead[k] \in S
    BY <1>6, <1>12 DEF WalkTo
  <1>9. DOMAIN behind = 1 .. n + 1 /\ \A k \in 1 .. n + 1 : behind[k] \in S
    BY <1>6, <1>12 DEF WalkTo
  <1>8. /\ FieldByField(d, first, NextField) = Walk(on, first, n)
        /\ FieldByField(d, first, PrevField) = Walk(back, first, n)
    BY <1>2, <1>3, <1>5 DEF FieldByField
  <1> QED
    BY <1>1, <1>5, <1>6, <1>7, <1>8, <1>9, <1>10, <1>11

LEMMA NextFieldMoves ==
    ASSUME NEW d \in Boards, NEW p \in Cells
    PROVE  /\ \A entry : NextProgressionField(d, p, entry) \in Landing
           /\ CursorNextField(d, p) \in Landing
  <1>1. ASSUME NEW entry PROVE NextProgressionField(d, p, entry) \in Landing
    <2>1. CASE NextField(d, p) = 0
      BY <2>1 DEF NextProgressionField, Landing
    <2>2. CASE NextField(d, p) # 0
      <3>1. NextField(d, p) \in 1 .. Len(d.fields) /\ NonBypass(d) # {}
        BY <2>2, FieldAhead DEF Found
      <3>2. PICK way : way = FieldByField(d, NextField(d, p), NextField)
        OBVIOUS
      <3>3. PICK n : n = Rounds(d) + 1
        OBVIOUS
      <3>4. n \in Nat /\ DOMAIN way = 1 .. n /\ \A k \in 1 .. n : way[k] \in 1 .. Len(d.fields)
        BY <3>1, <3>2, <3>3, ByField
      <3>5. FirstOfEntry(d, way, entry) \in Landing
        BY <3>4, EntryFound
      <3> QED
        BY <2>2, <3>2, <3>5 DEF NextProgressionField
    <2> QED
      BY <2>1, <2>2
  <1>2. CursorField(d, NextField(d, p)) \in Cells
    BY FieldAhead, StartsAreCells
  <1> QED
    BY <1>1, <1>2 DEF CursorNextField, Landing

LEMMA BackOfEntryMoves ==
    ASSUME NEW d \in Boards, NonBypass(d) # {}, NEW orig \in 1 .. Len(d.fields), NEW entry,
           NEW way, NEW n \in Nat, DOMAIN way = 1 .. n,
           \A k \in 1 .. n : way[k] \in 1 .. Len(d.fields)
    PROVE  BackOfEntry(d, way, orig, entry) \in Landing
  <1> DEFINE same(k) == d.fields[way[k]].entry = entry
             round(k) == same(k) /\ way[k] = orig
             ends == {k \in DOMAIN way :
                         \/ round(k)
                         \/ \A j \in 1 .. k : same(j)
                         \/ d.fields[way[k]].nextfield = entry}
             m == Smallest(ends)
             before == PrevField(d, d.fields[orig].start)
  <1>1. ends \in SUBSET Nat /\ ends \subseteq 1 .. n
    OBVIOUS
  <1>2. BackOfEntry(d, way, orig, entry)
          = IF ends = {} THEN Hung ELSE IF round(m) THEN d.fields[before].start
            ELSE d.fields[way[m]].start
    BY DEF BackOfEntry
  <1>3. before \in 1 .. Len(d.fields)
    BY StartLeadsOn
  <1> HIDE DEF ends, round, before
  <1>4. ends # {} => m \in 1 .. n
    BY <1>1, SmallestExists
  <1> HIDE DEF m
  <1>5. d.fields[before].start \in Cells /\ (ends # {} => d.fields[way[m]].start \in Cells)
    BY <1>3, <1>4, StartsAreCells
  <1> QED
    BY <1>2, <1>5 DEF Landing

LEMMA PrevFieldMoves ==
    ASSUME NEW d \in Boards, NEW p \in Cells
    PROVE  CursorPrevField(d, p) \in Landing
  <1> DEFINE orig == FieldYX(d, p)
             prev == PrevField(d, p)
  <1>1. CursorField(d, prev) \in Cells
    BY FieldBehind, StartsAreCells
  <1>2. ASSUME orig # 0, ~d.fields[orig].bypass, NEW entry
        PROVE  BackOfEntry(d, FieldByField(d, prev, PrevField), orig, entry) \in Landing
    <2>1. orig \in 1 .. Len(d.fields)
      BY <1>2, FieldFound
    <2>2. orig \in NonBypass(d)
      BY <1>2, <2>1, BoardIs DEF NonBypass
    <2>3. NonBypass(d) # {} /\ prev \in 1 .. Len(d.fields)
      BY <1>2, <2>2, FieldBehind DEF Found
    <2>4. PICK way : way = FieldByField(d, prev, PrevField)
      OBVIOUS
    <2>5. PICK n : n = Rounds(d) + 1
      OBVIOUS
    <2>6. n \in Nat /\ DOMAIN way = 1 .. n /\ \A k \in 1 .. n : way[k] \in 1 .. Len(d.fields)
      BY <2>3, <2>4, <2>5, ByField
    <2> HIDE DEF prev, orig
    <2>7. BackOfEntry(d, way, orig, entry) \in Landing
      BY <2>1, <2>3, <2>6, BackOfEntryMoves
    <2> QED
      BY <2>4, <2>7
  <1>3. ASSUME orig # 0, NEW entry PROVE PrevProgressionField(d, p, entry) \in Landing
    <2>1. PrevProgressionField(d, p, entry)
            = IF d.fields[orig].bypass THEN CursorField(d, prev)
              ELSE BackOfEntry(d, FieldByField(d, prev, PrevField), orig, entry)
      BY DEF PrevProgressionField
    <2> HIDE DEF orig, prev
    <2> QED
      BY <1>1, <1>2, <1>3, <2>1 DEF Landing
  <1> QED
    BY <1>1, <1>3 DEF CursorPrevField, Landing

(* The same over all parts of a field. *)
LEMMA OtherEntryMoves ==
    ASSUME NEW d, NEW way, NEW n \in Nat, NEW orig, Len(way) = n,
           \A k \in 1 .. n : way[k] \in Landing
    PROVE  OtherEntry(d, way, orig) \in Landing
  <1> DEFINE ends == {k \in 2 .. Len(way) :
                        LET i == IF way[k] = Hung THEN 0 ELSE FieldYX(d, way[k])
                        IN i \in {0, orig} \/ d.fields[i].entry # d.fields[orig].entry}
  <1>1. ends \in SUBSET Nat /\ ends \subseteq 1 .. n
    OBVIOUS
  <1>2. OtherEntry(d, way, orig) = IF ends = {} THEN Hung ELSE way[Smallest(ends)]
    BY DEF OtherEntry
  <1> HIDE DEF ends
  <1>3. ends # {} => Smallest(ends) \in 1 .. n
    BY <1>1, SmallestExists
  <1> QED
    BY <1>2, <1>3 DEF Landing

LEMMA OverParts ==
    ASSUME NEW d \in Boards, NEW p \in Cells, NEW orig
    PROVE  /\ UntilOtherEntry(d, p, orig, CursorNextField) \in Landing
           /\ UntilOtherEntry(d, p, orig, CursorPrevField) \in Landing
  <1>1. PICK n : n = Rounds(d)
    OBVIOUS
  <1>2. n \in Nat /\ n + 1 \in Nat
    BY <1>1, BoardIs DEF Rounds
  <1>3. ASSUME NEW step \in [Landing -> Landing]
        PROVE  OtherEntry(d, Walk(step, p, n), orig) \in Landing
    <2>1. p \in Landing
      BY DEF Landing
    <2>2. PICK way : way = Walk(step, p, n)
      OBVIOUS
    <2>3. Len(way) = n + 1 /\ \A k \in 1 .. n + 1 : way[k] \in Landing
      BY <1>2, <2>1, <2>2, WalkStays
    <2>4. OtherEntry(d, way, orig) \in Landing
      BY <1>2, <2>3, OtherEntryMoves
    <2> QED
      BY <2>2, <2>4
  <1>4. PICK on : on = [q \in Cells \cup {Hung} |-> IF q = Hung THEN Hung
                                                    ELSE CursorNextField(d, q)]
    OBVIOUS
  <1>5. PICK back : back = [q \in Cells \cup {Hung} |-> IF q = Hung THEN Hung
                                                        ELSE CursorPrevField(d, q)]
    OBVIOUS
  <1>6. on \in [Landing -> Landing] /\ back \in [Landing -> Landing]
    BY <1>4, <1>5, NextFieldMoves, PrevFieldMoves DEF Landing
  <1>7. /\ UntilOtherEntry(d, p, orig, CursorNextField) = OtherEntry(d, Walk(on, p, n), orig)
        /\ UntilOtherEntry(d, p, orig, CursorPrevField) = OtherEntry(d, Walk(back, p, n), orig)
    BY <1>1, <1>4, <1>5 DEF UntilOtherEntry
  <1> QED
    BY <1>3, <1>6, <1>7

LEMMA LogicalMoves ==
    ASSUME NEW d \in Boards, NEW p \in Cells
    PROVE  CursorNextLogicalField(d, p) \in Landing /\ CursorPrevLogicalField(d, p) \in Landing
  <1>1. CursorNextLogicalField(d, p) \in Landing
    BY NextFieldMoves, OverParts DEF CursorNextLogicalField
  <1>2. ASSUME NEW q \in Landing PROVE OneFieldOn(d, q) \in Landing
    BY NextFieldMoves DEF OneFieldOn, Landing
  <1>3. ASSUME NEW q \in Landing PROVE BackBehindEntry(d, q) \in Landing
    <2>1. CASE q = Hung
      BY <2>1 DEF BackBehindEntry, Landing
    <2>2. CASE q # Hung
      <3>1. q \in Cells
        BY <2>2 DEF Landing
      <3>2. OneFieldOn(d, UntilOtherEntry(d, q, FieldYX(d, q), CursorPrevField)) \in Landing
        BY <1>2, <3>1, OverParts
      <3> QED
        BY <3>2 DEF BackBehindEntry
    <2> QED
      BY <2>1, <2>2
  <1>4. CursorPrevField(d, p) \in Landing
    BY PrevFieldMoves
  <1> QED
    BY <1>1, <1>3, <1>4 DEF CursorPrevLogicalField

------------------------------------------------------------------------------
(* The fields from one on, up to the first that is not in a set.              *)
AlongList(d, i, Go, s) ==
    /\ s \in Seq(1 .. Len(d.fields)) /\ Len(s) \in 1 .. Len(d.fields) + 1 /\ s[1] = i
    /\ DOMAIN s = 1 .. Len(s)
    /\ \A m \in 1 .. Len(s) : s[m] \in 1 .. Len(d.fields)
    /\ \A m \in 1 .. Len(s) - 1 : s[m] \in Go /\ s[m + 1] = NextIn(d, s[m])
    /\ s[Len(s)] \notin Go

BeginsAs(S, s, e, t) ==
    /\ t \in Seq(S) /\ Len(t) = e /\ DOMAIN t = 1 .. e
    /\ \A k \in 1 .. e : t[k] = s[k]

LEMMA PrefixIs ==
    ASSUME NEW S, NEW s \in Seq(S), NEW e \in 1 .. Len(s)
    PROVE  BeginsAs(S, s, e, SubSeq(s, 1, e))
  <1> DEFINE t == SubSeq(s, 1, e)
  <1>1. \A k \in 1 .. e : s[k] \in S
    OBVIOUS
  <1>2. e \in Int /\ 1 <= e /\ e - 1 + 1 = e /\ \A k \in 1 .. e : 1 + k - 1 = k
    OBVIOUS
  <1>3. /\ t \in Seq(S) /\ Len(t) = e
        /\ \A k \in 1 .. e : t[k] = s[1 + k - 1]
    BY <1>1, <1>2, SubSeqProperties
  <1> HIDE DEF t
  <1>4. BeginsAs(S, s, e, t)
    BY <1>2, <1>3 DEF BeginsAs
  <1> QED
    BY <1>4 DEF t

LEMMA PrefixLeads ==
    ASSUME NEW d, NEW i, NEW Go, NEW S, S = 1 .. Len(d.fields), Len(d.fields) \in Nat,
           NEW round \in Seq(S), NEW e \in 1 .. Len(round), Len(round) = Len(d.fields) + 1,
           round[1] = i, \A m \in 1 .. e - 1 : round[m + 1] = NextIn(d, round[m]),
           round[e] \notin Go, \A k \in 1 .. e - 1 : round[k] \in Go,
           NEW s, s = SubSeq(round, 1, e)
    PROVE  AlongList(d, i, Go, s)
  <1>1. /\ s \in Seq(S) /\ Len(s) = e /\ DOMAIN s = 1 .. e
        /\ \A k \in 1 .. e : s[k] = round[k]
    <2>1. BeginsAs(S, round, e, SubSeq(round, 1, e))
      BY PrefixIs
    <2> QED
      BY <2>1 DEF BeginsAs
  <1>2. \A m \in 1 .. e : s[m] \in S
    BY <1>1
  <1>3. 1 \in 1 .. e /\ e \in 1 .. e /\ \A m \in 1 .. e - 1 : m \in 1 .. e /\ m + 1 \in 1 .. e
    OBVIOUS
  <1>4. \A m \in 1 .. e - 1 : s[m] \in Go /\ s[m + 1] = NextIn(d, s[m])
    BY <1>1, <1>3
  <1>5. s[1] = i /\ s[e] \notin Go
    BY <1>1, <1>3
  <1> QED
    BY <1>1, <1>2, <1>4, <1>5 DEF AlongList

LEMMA ListLeadsAlong ==
    ASSUME NEW d \in Boards, NEW i \in 1 .. Len(d.fields), NEW Go,
           NEW out \in 1 .. Len(d.fields), out \notin Go, NEW s,
           s = LET round == Walk([j \in DOMAIN d.fields |-> NextIn(d, j)], i, Len(d.fields))
                   ends == {k \in DOMAIN round : round[k] \notin Go}
               IN SubSeq(round, 1, Smallest(ends))
    PROVE  AlongList(d, i, Go, s)
  <1>1. PICK n : n = Len(d.fields)
    OBVIOUS
  <1>2. PICK step : step = [j \in DOMAIN d.fields |-> NextIn(d, j)]
    OBVIOUS
  <1>3. n \in Nat /\ i \in 1 .. n /\ DOMAIN d.fields = 1 .. n
    BY <1>1, BoardIs
  <1>4. step \in [1 .. n -> 1 .. n]
    BY <1>1, <1>2, <1>3, ListIsCircular
  <1>5. \A j \in 1 .. n : step[j] = IF j = n THEN 1 ELSE j + 1
    BY <1>1, <1>2, <1>3 DEF NextIn
  <1>6. PICK round : round = Walk(step, i, n)
    OBVIOUS
  <1>7. Reaches(round, n)
    BY <1>3, <1>4, <1>5, <1>6, OnwardReaches
  <1>8. PICK S : S = 1 .. n
    OBVIOUS
  <1>9. i \in S /\ step \in [S -> S]
    BY <1>3, <1>4, <1>8
  <1>10. WalkTo(round, S, i, step, n)
    BY <1>3, <1>6, <1>9, WalkIs
  <1>11. /\ round \in Seq(S) /\ Len(round) = n + 1 /\ round[1] = i
         /\ \A j \in 1 .. n : round[j + 1] = step[round[j]]
    BY <1>10 DEF WalkTo
  <1>12. PICK ends : ends = {k \in DOMAIN round : round[k] \notin Go}
    OBVIOUS
  <1>13. s = SubSeq(round, 1, Smallest(ends))
    BY <1>1, <1>2, <1>6, <1>12
  <1>14. DOMAIN round = 1 .. n + 1 /\ \A k \in DOMAIN round : round[k] \in 1 .. n
    BY <1>7 DEF Reaches
  <1>15. ends \in SUBSET Nat /\ ends # {}
    BY <1>1, <1>7, <1>12, <1>14 DEF Reaches
  <1>16. PICK e : e = Smallest(ends)
    OBVIOUS
  <1>17. e \in ends /\ \A k \in ends : e <= k
    BY <1>15, <1>16, SmallestExists
  <1>18. e \in 1 .. n + 1 /\ round[e] \notin Go /\ \A k \in 1 .. e - 1 : round[k] \in Go
    BY <1>3, <1>12, <1>14, <1>17
  <1>19. s = SubSeq(round, 1, e)
    BY <1>13, <1>16
  <1>20. e \in 1 .. Len(round)
    BY <1>11, <1>18
  <1>21. ASSUME NEW m \in 1 .. e - 1 PROVE round[m + 1] = NextIn(d, round[m])
    <2>1. m \in 1 .. n /\ m \in 1 .. n + 1
      BY <1>3, <1>18
    <2>2. round[m + 1] = step[round[m]] /\ round[m] \in 1 .. n
      BY <1>11, <1>14, <2>1
    <2> QED
      BY <1>2, <1>3, <2>2
  <1> QED
    BY <1>1, <1>3, <1>8, <1>11, <1>18, <1>19, <1>20, <1>21, PrefixLeads

(* The parts of a field from one on, and those that hold one running text.    *)
Continuing(d) == {j \in 1 .. Len(d.fields) : Continues(d.fields[j])}
Wrapping(d) == {j \in 1 .. Len(d.fields) : d.fields[j].wordwrap}

LEMMA PartsAre ==
    ASSUME NEW d \in Boards, NEW i \in 1 .. Len(d.fields)
    PROVE  /\ AlongList(d, i, Continuing(d), PartsFrom(d, i))
           /\ AlongList(d, i, Wrapping(d), UpTo(d, i, LAMBDA j : d.fields[j].wordwrap))
  <1>1. PICK n : n = Len(d.fields)
    OBVIOUS
  <1>2. n \in 1 .. n /\ n \in Nat /\ DOMAIN d.fields = 1 .. n
    BY <1>1, BoardIs
  <1>3. n \notin Continuing(d) /\ n \notin Wrapping(d)
    BY <1>1, <1>2, BoardIs DEF IsFormat, Continuing, Wrapping
  <1>4. PICK round : round = Walk([j \in DOMAIN d.fields |-> NextIn(d, j)], i, n)
    OBVIOUS
  <1>5. \A k \in DOMAIN round : round[k] \in 1 .. n
    <2>1. PICK step : step = [j \in DOMAIN d.fields |-> NextIn(d, j)]
      OBVIOUS
    <2>2. step \in [1 .. n -> 1 .. n]
      BY <1>1, <1>2, <2>1, ListIsCircular
    <2>3. \A j \in 1 .. n : step[j] = IF j = n THEN 1 ELSE j + 1
      BY <1>1, <1>2, <2>1 DEF NextIn
    <2>4. Reaches(round, n)
      BY <1>1, <1>2, <1>4, <2>1, <2>2, <2>3, OnwardReaches
    <2> QED
      BY <2>4 DEF Reaches
  <1>6. PartsFrom(d, i) = LET ends == {k \in DOMAIN round : round[k] \notin Continuing(d)}
                          IN SubSeq(round, 1, Smallest(ends))
    <2>1. {k \in DOMAIN round : round[k] \notin Continuing(d)}
            = {k \in DOMAIN round : ~Continues(d.fields[round[k]])}
      BY <1>1, <1>5 DEF Continuing
    <2> QED
      BY <1>1, <1>4, <2>1 DEF PartsFrom, UpTo
  <1>7. UpTo(d, i, LAMBDA j : d.fields[j].wordwrap)
          = LET ends == {k \in DOMAIN round : round[k] \notin Wrapping(d)}
            IN SubSeq(round, 1, Smallest(ends))
    <2>1. {k \in DOMAIN round : round[k] \notin Wrapping(d)}
            = {k \in DOMAIN round : ~d.fields[round[k]].wordwrap}
      BY <1>1, <1>5 DEF Wrapping
    <2> QED
      BY <1>1, <1>4, <2>1 DEF UpTo
  <1>8. ASSUME NEW Go, n \notin Go, NEW s,
               s = LET ends == {k \in DOMAIN round : round[k] \notin Go}
                   IN SubSeq(round, 1, Smallest(ends))
        PROVE  AlongList(d, i, Go, s)
    BY <1>1, <1>2, <1>4, <1>8, ListLeadsAlong
  <1> QED
    BY <1>3, <1>6, <1>7, <1>8

------------------------------------------------------------------------------
(* Recursion over the elements of a sequence. *)
IteratedFromOne(f, S, x, g, n) ==
    /\ f \in [1 .. n -> S]
    /\ f[1] = x
    /\ \A k \in 2 .. n : f[k] = g[<<f[k - 1], k>>]

LEMMA RecursionFromOne ==
    ASSUME NEW S, NEW x \in S, NEW g \in StepsIn(S), NEW n \in Nat \ {0}
    PROVE  \E f : IteratedFromOne(f, S, x, g, n)
  <1> DEFINE g1 == [s \in S \X Nat |-> g[<<s[1], s[2] + 1>>]]
  <1>1. g1 \in StepsIn(S)
    <2>1. ASSUME NEW s \in S \X Nat PROVE g1[s] \in S
      <3>1. <<s[1], s[2] + 1>> \in S \X Nat
        OBVIOUS
      <3> QED
        BY <3>1 DEF StepsIn
    <2> QED
      BY <2>1 DEF StepsIn
  <1>6. n - 1 \in Nat
    OBVIOUS
  <1> HIDE DEF g1
  <1>2. PICK r : Iterated(r, S, x, g1, n - 1)
    BY <1>1, <1>6, Recursion
  <1>3. /\ r \in [0 .. n - 1 -> S] /\ r[0] = x
        /\ \A k \in 1 .. n - 1 : r[k] = g1[<<r[k - 1], k>>]
    BY <1>2 DEF Iterated
  <1> DEFINE f == [k \in 1 .. n |-> r[k - 1]]
  <1>4. f \in [1 .. n -> S] /\ f[1] = x
    BY <1>3
  <1>5. ASSUME NEW k \in 2 .. n PROVE f[k] = g[<<f[k - 1], k>>]
    <2>1. /\ k - 1 \in 1 .. n - 1 /\ k - 2 \in 0 .. n - 1 /\ (k - 1) - 1 = k - 2
          /\ k - 1 \in 1 .. n /\ k \in 1 .. n /\ (k - 1) + 1 = k /\ k - 1 \in Nat
      OBVIOUS
    <2>2. f[k] = r[k - 1] /\ f[k - 1] = r[k - 2] /\ r[k - 2] \in S
      BY <1>3, <2>1
    <2>3. r[k - 1] = g1[<<r[k - 2], k - 1>>]
      BY <1>3, <2>1
    <2>4. g1[<<r[k - 2], k - 1>>] = g[<<r[k - 2], k>>]
      BY <2>1, <2>2 DEF g1
    <2> QED
      BY <2>2, <2>3, <2>4
  <1> QED
    BY <1>4, <1>5 DEF IteratedFromOne

(* What holds of the first value and passes from each to the next.            *)
LEMMA AllFromZero ==
    ASSUME NEW S, NEW f, NEW n \in Nat, f[0] \in S,
           \A k \in 1 .. n : f[k - 1] \in S => f[k] \in S
    PROVE  \A k \in 0 .. n : f[k] \in S
  <1> DEFINE T == {k \in Nat : k <= n => f[k] \in S}
  <1>1. 0 \in T
    OBVIOUS
  <1>2. ASSUME NEW k \in Nat, k \in T PROVE k + 1 \in T
    <2> SUFFICES ASSUME k + 1 <= n PROVE f[k + 1] \in S
      OBVIOUS
    <2>1. k + 1 \in 1 .. n /\ (k + 1) - 1 = k
      OBVIOUS
    <2>2. f[k] \in S
      BY <1>2
    <2> QED
      BY <2>1, <2>2
  <1> HIDE DEF T
  <1>3. Nat \subseteq T
    BY <1>1, <1>2, Induction
  <1>4. ASSUME NEW k \in 0 .. n PROVE f[k] \in S
    <2>1. k \in T /\ k <= n
      BY <1>3
    <2> QED
      BY <2>1 DEF T
  <1> QED
    BY <1>4

LEMMA AllFromOne ==
    ASSUME NEW S, NEW f, NEW n \in Nat \ {0}, f[1] \in S,
           \A k \in 2 .. n : f[k - 1] \in S => f[k] \in S
    PROVE  \A k \in 1 .. n : f[k] \in S
  <1> DEFINE r == [k \in 0 .. n - 1 |-> f[k + 1]]
  <1>1. n - 1 \in Nat /\ r[0] \in S
    OBVIOUS
  <1>2. ASSUME NEW k \in 1 .. n - 1, r[k - 1] \in S PROVE r[k] \in S
    <2>1. k + 1 \in 2 .. n /\ (k + 1) - 1 = k /\ k - 1 \in 0 .. n - 1 /\ (k - 1) + 1 = k
          /\ k \in 0 .. n - 1
      OBVIOUS
    <2>2. r[k] = f[k + 1] /\ r[k - 1] = f[k]
      BY <2>1
    <2> QED
      BY <1>2, <2>1, <2>2
  <1> HIDE DEF r
  <1>3. \A k \in 0 .. n - 1 : r[k] \in S
    BY <1>1, <1>2, AllFromZero
  <1>4. ASSUME NEW k \in 1 .. n PROVE f[k] \in S
    <2>1. k - 1 \in 0 .. n - 1 /\ (k - 1) + 1 = k
      OBVIOUS
    <2> QED
      BY <1>3, <2>1 DEF r
  <1> QED
    BY <1>4

(* The cells that insertion and deletion move, counted part by part. *)
Counted(d, parts, count, cells) ==
    /\ cells \in [1 .. Len(parts) -> Nat] /\ cells[1] = count
    /\ \A m \in 2 .. Len(parts) : cells[m] = cells[m - 1] + d.fields[parts[m]].len - 1

LEMMA ShiftCountIs ==
    ASSUME NEW d \in Boards, NEW i \in 1 .. Len(d.fields), NEW count \in Nat
    PROVE  \E cells : /\ Counted(d, PartsFrom(d, i), count, cells)
                      /\ ShiftCount(d, i, count) = cells[Len(PartsFrom(d, i))]
  <1>1. PICK parts : parts = PartsFrom(d, i)
    OBVIOUS
  <1>2. PICK n : n = Len(parts)
    OBVIOUS
  <1>19. AlongList(d, i, Continuing(d), parts)
    BY <1>1, PartsAre
  <1>3. n \in Nat \ {0} /\ \A m \in 1 .. n : parts[m] \in 1 .. Len(d.fields)
    BY <1>2, <1>19, BoardIs DEF AlongList
  <1>4. \A m \in 1 .. n : d.fields[parts[m]].len \in Nat \ {0}
    BY <1>3, FieldsAre
  <1> DEFINE g == [s \in Nat \X Nat |->
                     IF s[2] \in 1 .. n THEN s[1] + d.fields[parts[s[2]]].len - 1 ELSE 0]
  <1>5. g \in StepsIn(Nat)
    <2>1. ASSUME NEW s \in Nat \X Nat PROVE g[s] \in Nat
      <3>1. s[1] \in Nat /\ s[2] \in Nat
        OBVIOUS
      <3>2. CASE s[2] \in 1 .. n
        <4>1. PICK len : len = d.fields[parts[s[2]]].len
          OBVIOUS
        <4>2. len \in Nat \ {0}
          BY <1>4, <3>2, <4>1
        <4>3. g[s] = s[1] + len - 1
          BY <3>2, <4>1
        <4> HIDE DEF g
        <4> QED
          BY <3>1, <4>2, <4>3
      <3>3. CASE s[2] \notin 1 .. n
        <4>1. g[s] = 0
          BY <3>3
        <4> HIDE DEF g
        <4> QED
          BY <4>1
      <3> QED
        BY <3>2, <3>3
    <2> QED
      BY <2>1 DEF StepsIn
  <1> HIDE DEF g
  <1>20. PICK N : N = Nat
    OBVIOUS
  <1>21. count \in N /\ g \in StepsIn(N)
    BY <1>5, <1>20
  <1>22. PICK f : IteratedFromOne(f, N, count, g, n)
    BY <1>3, <1>21, RecursionFromOne
  <1>6. /\ f \in [1 .. n -> Nat] /\ f[1] = count
        /\ \A k \in 2 .. n : f[k] = g[<<f[k - 1], k>>]
    BY <1>20, <1>22 DEF IteratedFromOne
  <1>7. ASSUME NEW m \in 2 .. n PROVE f[m] = f[m - 1] + d.fields[parts[m]].len - 1
    <2>1. m \in 1 .. n /\ m - 1 \in 1 .. n /\ m \in Nat
      BY <1>3
    <2>2. f[m - 1] \in Nat
      BY <1>6, <2>1
    <2> QED
      BY <1>6, <2>1, <2>2 DEF g
  <1> DEFINE cells[m \in 1 .. n] ==
                IF m = 1 THEN count ELSE cells[m - 1] + d.fields[parts[m]].len - 1
  <1>8. f = [m \in 1 .. n |->
                IF m = 1 THEN count ELSE f[m - 1] + d.fields[parts[m]].len - 1]
    <2>1. f = [m \in 1 .. n |-> f[m]]
      BY <1>6
    <2>2. \A m \in 1 .. n : m # 1 => m \in 2 .. n
      BY <1>3
    <2>3. \A m \in 1 .. n :
             f[m] = IF m = 1 THEN count ELSE f[m - 1] + d.fields[parts[m]].len - 1
      BY <1>6, <1>7, <2>2
    <2> QED
      BY <2>1, <2>3, Zenon
  <1>9. cells = [m \in 1 .. n |->
                   IF m = 1 THEN count ELSE cells[m - 1] + d.fields[parts[m]].len - 1]
    BY <1>8
  <1>10. ShiftCount(d, i, count) = cells[n]
    BY <1>1, <1>2 DEF ShiftCount
  <1> HIDE DEF cells
  <1>11. DOMAIN cells = 1 .. n /\ cells[1] = count
    BY <1>3, <1>9
  <1>12. ASSUME NEW m \in 2 .. n PROVE cells[m] = cells[m - 1] + d.fields[parts[m]].len - 1
    <2>1. m \in 1 .. n /\ m # 1
      OBVIOUS
    <2> QED
      BY <1>9, <2>1
  <1>14. ASSUME NEW m \in 2 .. n, cells[m - 1] \in Nat PROVE cells[m] \in Nat
    <2>1. d.fields[parts[m]].len \in Nat \ {0}
      BY <1>4
    <2>2. cells[m] = cells[m - 1] + d.fields[parts[m]].len - 1
      BY <1>12
    <2>3. \A a \in Nat, b \in Nat \ {0} : a + b - 1 \in Nat
      OBVIOUS
    <2> QED
      BY <1>14, <2>1, <2>2, <2>3
  <1>15. \A m \in 1 .. n : cells[m] \in Nat
    BY <1>3, <1>11, <1>14, AllFromOne
  <1>17. cells \in [1 .. n -> Nat]
    <2>1. cells = [m \in 1 .. n |-> cells[m]]
      BY <1>9
    <2> QED
      BY <1>15, <2>1
  <1>18. Counted(d, parts, count, cells)
    BY <1>2, <1>11, <1>12, <1>17 DEF Counted
  <1> QED
    BY <1>1, <1>2, <1>10, <1>18

LEMMA CountGrows ==
    ASSUME NEW d \in Boards, NEW i \in 1 .. Len(d.fields), NEW parts, NEW count \in Nat,
           AlongList(d, i, Continuing(d), parts), NEW cells, Counted(d, parts, count, cells)
    PROVE  \A m \in 1 .. Len(parts) : cells[m] <= cells[Len(parts)] /\ cells[m] \in Nat
  <1>1. PICK n : n = Len(parts)
    OBVIOUS
  <1>2. n \in Nat \ {0} /\ \A m \in 1 .. n : parts[m] \in 1 .. Len(d.fields)
    BY <1>1, BoardIs DEF AlongList
  <1>3. \A m \in 1 .. n : cells[m] \in Nat
    BY <1>1 DEF Counted
  <1>4. ASSUME NEW m \in 2 .. n PROVE cells[m - 1] <= cells[m]
    <2>1. m \in 1 .. n /\ m - 1 \in 1 .. n
      BY <1>2
    <2>2. d.fields[parts[m]].len \in Nat \ {0}
      BY <1>2, <2>1, FieldsAre
    <2>3. cells[m] = cells[m - 1] + d.fields[parts[m]].len - 1
      BY <1>1 DEF Counted
    <2>4. PICK a, b, len : a = cells[m - 1] /\ b = cells[m] /\ len = d.fields[parts[m]].len
      OBVIOUS
    <2>5. a \in Nat /\ len \in Nat \ {0} /\ b = a + len - 1
      BY <1>3, <2>1, <2>2, <2>3, <2>4
    <2>6. a <= b
      BY <2>5
    <2> QED
      BY <2>4, <2>6
  <1> DEFINE T == {k \in Nat : \A m \in 1 .. n : m + k <= n => cells[m] <= cells[m + k]}
  <1>5. 0 \in T
    BY <1>3
  <1>6. ASSUME NEW k \in Nat, k \in T PROVE k + 1 \in T
    <2> SUFFICES ASSUME NEW m \in 1 .. n, m + k + 1 <= n PROVE cells[m] <= cells[m + (k + 1)]
      BY <1>2
    <2>1. /\ m + k + 1 \in 2 .. n /\ (m + k + 1) - 1 = m + k /\ m + k \in 1 .. n
          /\ m + (k + 1) = m + k + 1 /\ m + k + 1 \in 1 .. n
      BY <1>2
    <2>2. cells[m] <= cells[m + k]
      BY <1>6, <2>1
    <2>3. cells[m + k] <= cells[m + k + 1]
      BY <1>4, <2>1
    <2> QED
      BY <1>3, <2>1, <2>2, <2>3
  <1> HIDE DEF T
  <1>7. Nat \subseteq T
    BY <1>5, <1>6, Induction
  <1>8. ASSUME NEW m \in 1 .. n PROVE cells[m] <= cells[n]
    <2>1. n - m \in T /\ m + (n - m) = n /\ m + (n - m) <= n
      BY <1>2, <1>7
    <2> QED
      BY <2>1 DEF T
  <1> QED
    BY <1>1, <1>3, <1>8

(* A column beyond the end column of a part is met behind its last cell only. *)
LEMMA ColumnIs ==
    ASSUME NEW p \in Cells, NEW r \in Nat, NEW c \in 0 .. w - 1, p = r * w + c
    PROVE  Row(p) = r /\ Col(p) = c
  <1>1. w \in Nat \ {0} /\ p \in Nat
    BY DisplayBufferAssumption, CellsRight
  <1>2. (r * w + c) % w = c
    BY <1>1
  <1>3. (r * w + c) \div w = r
    BY <1>1
  <1> QED
    BY <1>2, <1>3 DEF Row, Col

LEMMA BeyondPart ==
    ASSUME NEW d \in Boards, NEW i \in Continuing(d), NEW p \in FieldCells(d.fields[i])
    PROVE  Col(p + 1) > Col(EndPos(d.fields[i])) <=> p = EndPos(d.fields[i])
  <1>1. PICK f : f = d.fields[i]
    OBVIOUS
  <1>2. PICK e : e = EndPos(f)
    OBVIOUS
  <1>3. i \in 1 .. Len(d.fields) /\ Continues(f)
    BY <1>1 DEF Continuing
  <1>4. /\ f.start \in Cells /\ e \in Cells /\ f.start <= e /\ p \in f.start .. e
        /\ f.start \in Nat /\ e \in Nat /\ p \in Nat
    BY <1>1, <1>2, <1>3, FieldsAre
  <1>5. Row(e) = Row(f.start) /\ Col(e) < w - 1
    BY <1>1, <1>2, <1>3, BoardIs DEF IsFormat
  <1>6. PICK r : r = Row(e)
    OBVIOUS
  <1>7. PICK c : c = Col(e)
    OBVIOUS
  <1>8. PICK rw : rw = r * w
    OBVIOUS
  <1>9. /\ r \in Nat /\ c \in 0 .. w - 1 /\ e = rw + c /\ c < w - 1
        /\ w \in Nat /\ rw \in Nat
    BY <1>4, <1>5, <1>6, <1>7, <1>8, RowCol, DisplayBufferAssumption
  <1>10. Col(f.start) \in 0 .. w - 1 /\ f.start = rw + Col(f.start)
    BY <1>4, <1>5, <1>6, <1>8, RowCol
  <1>11. p + 1 \in Cells /\ p + 1 - rw \in 0 .. w - 1 /\ p + 1 = rw + (p + 1 - rw)
    <2>1. p + 1 - rw <= w - 1 /\ p + 1 - rw >= 0
      BY <1>4, <1>9, <1>10
    <2>2. PICK k : k = p + 1 - rw
      OBVIOUS
    <2>3. k \in 0 .. w - 1
      BY <1>4, <1>9, <2>1, <2>2
    <2>4. r \in 0 .. h - 1
      BY <1>4, <1>6, RowCol
    <2>5. r * w + k \in Cells
      BY <2>3, <2>4, CellOf
    <2> QED
      BY <1>4, <1>8, <1>9, <2>2, <2>3, <2>5
  <1>12. Col(p + 1) = p + 1 - rw
    BY <1>8, <1>9, <1>11, ColumnIs
  <1> QED
    BY <1>1, <1>2, <1>4, <1>7, <1>9, <1>12

(* The way of insertion and deletion: the m-th part, a cell in it, and as     *)
(* many cells to go as are behind that one.                                  *)
Ats(d) == [at : Nat, in : DOMAIN d.fields, left : Int]
OnWay(d, parts, cells, s, m) ==
    LET f == d.fields[parts[m]]
    IN /\ m \in 1 .. Len(parts) /\ s.in = parts[m] /\ s.at \in FieldCells(f)
       /\ s.left = EndPos(f) - s.at + cells[Len(parts)] - cells[m]
ToGo(parts, s, m) == s.left + Len(parts) - m
Beyond(parts, s) == s.in = parts[Len(parts)] /\ s.left < 0

LEMMA ShiftStepTyped ==
    ASSUME NEW d \in Boards, NEW s \in Ats(d)
    PROVE  /\ ShiftStep(d, s) \in Ats(d)
           /\ ~Continues(d.fields[s.in]) =>
                /\ ShiftStep(d, s).at = s.at + 1 /\ ShiftStep(d, s).in = s.in
                /\ ShiftStep(d, s).left = s.left - 1
           /\ Continues(d.fields[s.in]) /\ Col(s.at + 1) > Col(EndPos(d.fields[s.in])) =>
                /\ ShiftStep(d, s).at = d.fields[NextIn(d, s.in)].start
                /\ ShiftStep(d, s).in = NextIn(d, s.in) /\ ShiftStep(d, s).left = s.left
           /\ ~(Col(s.at + 1) > Col(EndPos(d.fields[s.in]))) =>
                /\ ShiftStep(d, s).at = s.at + 1 /\ ShiftStep(d, s).in = s.in
                /\ ShiftStep(d, s).left = s.left - 1
  <1>1. s.at \in Nat /\ s.in \in DOMAIN d.fields /\ s.left \in Int
    BY DEF Ats
  <1>2. PICK n : n = NextIn(d, s.in)
    OBVIOUS
  <1>3. PICK start : start = d.fields[n].start
    OBVIOUS
  <1>4. n \in DOMAIN d.fields /\ start \in Nat
    BY <1>1, <1>2, <1>3, BoardIs, ListIsCircular, FieldsAre
  <1>5. PICK jumps : jumps = (/\ Continues(d.fields[s.in])
                              /\ Col(s.at + 1) > Col(EndPos(d.fields[s.in])))
    OBVIOUS
  <1>6. PICK t : t = ShiftStep(d, s)
    OBVIOUS
  <1>7. t = IF jumps THEN [s EXCEPT !.at = start, !.in = n]
            ELSE [s EXCEPT !.at = @ + 1, !.left = @ - 1]
    BY <1>2, <1>3, <1>5, <1>6 DEF ShiftStep
  <1>8. [s EXCEPT !.at = start, !.in = n] \in Ats(d)
        /\ [s EXCEPT !.at = start, !.in = n].at = start
        /\ [s EXCEPT !.at = start, !.in = n].in = n
        /\ [s EXCEPT !.at = start, !.in = n].left = s.left
    BY <1>1, <1>4 DEF Ats
  <1>9. [s EXCEPT !.at = @ + 1, !.left = @ - 1] \in Ats(d)
        /\ [s EXCEPT !.at = @ + 1, !.left = @ - 1].at = s.at + 1
        /\ [s EXCEPT !.at = @ + 1, !.left = @ - 1].in = s.in
        /\ [s EXCEPT !.at = @ + 1, !.left = @ - 1].left = s.left - 1
    <2>1. PICK a : a = s.at + 1
      OBVIOUS
    <2>2. PICK b : b = s.left - 1
      OBVIOUS
    <2>3. a \in Nat /\ b \in Int
      BY <1>1, <2>1, <2>2
    <2>4. [s EXCEPT !.at = a, !.left = b] \in Ats(d)
          /\ [s EXCEPT !.at = a, !.left = b].at = a
          /\ [s EXCEPT !.at = a, !.left = b].in = s.in
          /\ [s EXCEPT !.at = a, !.left = b].left = b
      BY <2>3 DEF Ats
    <2> QED
      BY <2>1, <2>2, <2>4
  <1> QED
    BY <1>2, <1>3, <1>5, <1>6, <1>7, <1>8, <1>9

LEMMA OneShift ==
    ASSUME NEW d \in Boards, NEW i \in 1 .. Len(d.fields), NEW parts, NEW count \in Nat,
           AlongList(d, i, Continuing(d), parts), NEW cells, Counted(d, parts, count, cells),
           NEW s \in Ats(d), NEW m, OnWay(d, parts, cells, s, m)
    PROVE  /\ s.left \in Nat /\ ToGo(parts, s, m) \in Nat
           /\ ToGo(parts, s, m) = 0 => /\ s.left = 0 /\ m = Len(parts)
                                       /\ Beyond(parts, ShiftStep(d, s))
           /\ ToGo(parts, s, m) # 0 =>
                \E k : /\ OnWay(d, parts, cells, ShiftStep(d, s), k)
                       /\ ToGo(parts, ShiftStep(d, s), k) = ToGo(parts, s, m) - 1
  <1>1. PICK n : n = Len(parts)
    OBVIOUS
  <1>2. PICK f : f = d.fields[parts[m]]
    OBVIOUS
  <1>3. PICK t : t = ShiftStep(d, s)
    OBVIOUS
  <1>4. PICK e : e = EndPos(f)
    OBVIOUS
  <1>5. /\ m \in 1 .. n /\ s.in = parts[m] /\ s.at \in FieldCells(f)
        /\ s.left = e - s.at + cells[n] - cells[m]
    BY <1>1, <1>2, <1>4 DEF OnWay
  <1>6. /\ n \in Nat /\ parts[m] \in 1 .. Len(d.fields)
        /\ parts[n] \notin Continuing(d)
        /\ m # n => /\ parts[m] \in Continuing(d) /\ m + 1 \in 1 .. n
                    /\ parts[m + 1] = NextIn(d, parts[m]) /\ parts[m + 1] \in 1 .. Len(d.fields)
    <2>1. n \in 1 .. Len(d.fields) + 1 /\ Len(d.fields) \in Nat
      BY <1>1, BoardIs DEF AlongList
    <2>2. n \in Nat /\ (m # n => m \in 1 .. n - 1 /\ m + 1 \in 1 .. n)
      BY <1>5, <2>1
    <2>3. parts[n] \notin Continuing(d)
      BY <1>1 DEF AlongList
    <2>4. \A k \in 1 .. n : parts[k] \in 1 .. Len(d.fields)
      BY <1>1 DEF AlongList
    <2>5. \A k \in 1 .. n - 1 : parts[k] \in Continuing(d) /\ parts[k + 1] = NextIn(d, parts[k])
      BY <1>1 DEF AlongList
    <2> QED
      BY <1>5, <2>2, <2>3, <2>4, <2>5
  <1>7. /\ f.start \in Nat /\ e \in Nat /\ f.start <= e /\ FieldCells(f) = f.start .. e
        /\ s.at \in Nat /\ s.at <= e /\ f.start <= s.at
    <2>1. /\ f.start \in Nat /\ e \in Nat /\ f.start <= e /\ FieldCells(f) = f.start .. e
      BY <1>2, <1>4, <1>6, FieldsAre
    <2> QED
      BY <1>5, <2>1
  <1>8. /\ cells[n] \in Nat /\ cells[m] \in Nat /\ cells[m] <= cells[n]
        /\ s.left \in Nat
    <2>1. cells[n] \in Nat /\ cells[m] \in Nat /\ cells[m] <= cells[n]
      <3>1. n \in 1 .. n
        BY <1>5, <1>6
      <3> QED
        BY <1>1, <1>5, <3>1, CountGrows
    <2> QED
      BY <1>5, <1>7, <2>1
  <1>9. ToGo(parts, s, m) = s.left + n - m
    BY <1>1 DEF ToGo
  <1>10. m <= n /\ m \in Nat
    BY <1>5, <1>6
  <1>11. ASSUME s.left + n - m = 0
         PROVE  s.left = 0 /\ m = n /\ Beyond(parts, t)
    <2>1. s.left = 0 /\ m = n
      BY <1>6, <1>8, <1>10, <1>11
    <2>2. ~Continues(d.fields[s.in])
      BY <1>5, <1>6, <2>1 DEF Continuing
    <2>3. t.in = s.in /\ t.left = s.left - 1
      BY <1>3, <2>2, ShiftStepTyped
    <2> QED
      BY <1>1, <1>5, <2>1, <2>3 DEF Beyond
  <1>12. ASSUME s.left + n - m # 0
         PROVE  \E k : OnWay(d, parts, cells, t, k) /\ t.left + n - k = s.left + n - m - 1
    <2>1. CASE m # n /\ s.at = e
      <3>1. parts[m] \in Continuing(d) /\ Continues(d.fields[s.in])
        BY <1>5, <1>6, <2>1 DEF Continuing
      <3>2. Col(s.at + 1) > Col(EndPos(d.fields[s.in]))
        BY <1>2, <1>4, <1>5, <2>1, <3>1, BeyondPart
      <3>3. PICK g : g = d.fields[parts[m + 1]]
        OBVIOUS
      <3>4. t.at = g.start /\ t.in = parts[m + 1] /\ t.left = s.left
        BY <1>3, <1>5, <1>6, <2>1, <3>1, <3>2, <3>3, ShiftStepTyped
      <3>5. /\ g.start \in Nat /\ g.len \in Nat \ {0} /\ g.start \in FieldCells(g)
            /\ EndPos(g) = g.start + g.len - 1
        <4>1. parts[m + 1] \in 1 .. Len(d.fields)
          BY <1>6, <2>1
        <4>2. g.start \in Nat /\ g.len \in Nat \ {0} /\ HitTest(g, g.start)
              /\ \A p : HitTest(g, p) <=> p \in FieldCells(g)
          BY <3>3, <4>1, FieldsAre
        <4> QED
          BY <4>2 DEF EndPos
      <3>6. cells[m + 1] = cells[m] + g.len - 1 /\ cells[m + 1] \in Nat
        <4>1. m + 1 \in 2 .. n /\ (m + 1) - 1 = m /\ m + 1 \in 1 .. n
          BY <1>5, <1>6, <1>10, <2>1
        <4> QED
          BY <1>1, <3>3, <4>1 DEF Counted
      <3>7. t.left = EndPos(g) - t.at + cells[n] - cells[m + 1]
        <4>1. s.left = cells[n] - cells[m]
          BY <1>5, <1>7, <1>8, <2>1
        <4>2. EndPos(g) - t.at = g.len - 1
          BY <3>4, <3>5
        <4>3. cells[n] - cells[m] = g.len - 1 + cells[n] - cells[m + 1]
          BY <1>8, <3>5, <3>6
        <4> QED
          BY <3>4, <4>1, <4>2, <4>3
      <3>8. OnWay(d, parts, cells, t, m + 1)
        BY <1>1, <1>6, <2>1, <3>3, <3>4, <3>5, <3>7 DEF OnWay
      <3>9. t.left + n - (m + 1) = s.left + n - m - 1
        BY <1>6, <1>8, <1>10, <3>4
      <3> QED
        BY <3>8, <3>9
    <2>2. CASE ~(m # n /\ s.at = e)
      <3>1. s.at < e
        BY <1>5, <1>6, <1>7, <1>8, <1>10, <1>12, <2>2
      <3>2. /\ t.at = s.at + 1 /\ t.in = s.in /\ t.left = s.left - 1
        <4>1. CASE m = n
          <5>1. ~Continues(d.fields[s.in])
            BY <1>5, <1>6, <4>1 DEF Continuing
          <5> QED
            BY <1>3, <5>1, ShiftStepTyped
        <4>2. CASE m # n
          <5>1. parts[m] \in Continuing(d)
            BY <1>6, <4>2
          <5>2. ~(Col(s.at + 1) > Col(EndPos(d.fields[s.in])))
            BY <1>2, <1>4, <1>5, <1>7, <3>1, <5>1, BeyondPart
          <5> QED
            BY <1>3, <5>2, ShiftStepTyped
        <4> QED
          BY <4>1, <4>2
      <3>3. t.at \in FieldCells(f)
        BY <1>7, <3>1, <3>2
      <3>4. t.left = e - t.at + cells[n] - cells[m]
        <4>1. PICK a : a = cells[n]
          OBVIOUS
        <4>2. PICK b : b = cells[m]
          OBVIOUS
        <4>3. a \in Nat /\ b \in Nat /\ s.left = e - s.at + a - b
          BY <1>5, <1>8, <4>1, <4>2
        <4>4. t.left = e - t.at + a - b
          BY <1>7, <3>2, <4>3
        <4> QED
          BY <4>1, <4>2, <4>4
      <3>5. OnWay(d, parts, cells, t, m)
        BY <1>1, <1>2, <1>4, <1>5, <3>2, <3>3, <3>4 DEF OnWay
      <3>6. t.left + n - m = s.left + n - m - 1
        BY <1>6, <1>8, <1>10, <3>2
      <3> QED
        BY <3>5, <3>6
    <2> QED
      BY <2>1, <2>2
  <1>13. s.left + n - m \in Nat
    BY <1>6, <1>8, <1>10
  <1>14. \A k : ToGo(parts, t, k) = t.left + n - k
    BY <1>1 DEF ToGo
  <1>15. ToGo(parts, s, m) = 0 => s.left = 0 /\ m = Len(parts) /\ Beyond(parts, ShiftStep(d, s))
    BY <1>1, <1>3, <1>9, <1>11
  <1>16. ToGo(parts, s, m) # 0 =>
             \E k : /\ OnWay(d, parts, cells, ShiftStep(d, s), k)
                    /\ ToGo(parts, ShiftStep(d, s), k) = ToGo(parts, s, m) - 1
    <2> SUFFICES ASSUME ToGo(parts, s, m) # 0
                 PROVE  \E k : OnWay(d, parts, cells, t, k)
                               /\ ToGo(parts, t, k) = ToGo(parts, s, m) - 1
      BY <1>3
    <2>1. PICK k : OnWay(d, parts, cells, t, k) /\ t.left + n - k = s.left + n - m - 1
      BY <1>9, <1>12
    <2>2. ToGo(parts, t, k) = ToGo(parts, s, m) - 1
      <3>1. PICK b : b = s.left + n - m
        OBVIOUS
      <3>2. t.left + n - k = b - 1
        BY <1>6, <1>8, <1>10, <1>13, <2>1, <3>1
      <3>3. ToGo(parts, s, m) = b /\ ToGo(parts, t, k) = t.left + n - k
        BY <1>9, <1>14, <3>1
      <3> QED
        BY <3>2, <3>3
    <2> QED
      BY <2>1, <2>2
  <1> QED
    BY <1>8, <1>9, <1>13, <1>15, <1>16

LEMMA ShiftWayIs ==
    ASSUME NEW d \in Boards, NEW i \in 1 .. Len(d.fields), d.cur \in FieldCells(d.fields[i]),
           NEW way, way = ShiftWay(d, i, CountRight(d.fields[i], d.cur))
    PROVE  /\ Len(way) \in Nat /\ way \in Seq(Ats(d))
           /\ AtEnd(way) # {} /\ AtEnd(way) \in SUBSET (1 .. Len(way))
           /\ \A e \in AtEnd(way) : \A k \in 1 .. e : way[k].at \in Cells
           /\ \A e \in AtEnd(way) : \A k \in 1 .. e :
                 \E m \in 1 .. Len(PartsFrom(d, i)) :
                     way[k].at \in FieldCells(d.fields[PartsFrom(d, i)[m]])
  <1>1. PICK f : f = d.fields[i]
    OBVIOUS
  <1>2. PICK count : count = CountRight(f, d.cur)
    OBVIOUS
  <1>3. /\ f.start \in Nat /\ EndPos(f) \in Nat /\ d.cur \in f.start .. EndPos(f)
        /\ d.cur \in Nat /\ d.cur <= EndPos(f) /\ count = EndPos(f) - d.cur
    <2>1. f.start \in Nat /\ EndPos(f) \in Nat /\ FieldCells(f) = f.start .. EndPos(f)
      BY <1>1, FieldsAre
    <2> QED
      BY <1>1, <1>2, <2>1 DEF CountRight
  <1>4. count \in Nat
    BY <1>3
  <1>5. PICK parts : parts = PartsFrom(d, i)
    OBVIOUS
  <1>6. AlongList(d, i, Continuing(d), parts)
    BY <1>5, PartsAre
  <1>7. PICK cells : /\ Counted(d, parts, count, cells)
                     /\ ShiftCount(d, i, count) = cells[Len(parts)]
    BY <1>4, <1>5, ShiftCountIs
  <1>8. PICK n : n = cells[Len(parts)]
    OBVIOUS
  <1>9. PICK p : p = Len(parts)
    OBVIOUS
  <1>10. PICK q : q = Len(d.fields)
    OBVIOUS
  <1>11. p \in Nat \ {0} /\ q \in Nat /\ p <= q + 1 /\ n \in Nat /\ parts[1] = i
    <2>1. p \in 1 .. q + 1 /\ q \in Nat /\ parts[1] = i
      BY <1>6, <1>9, <1>10, BoardIs DEF AlongList
    <2>2. p \in 1 .. p
      BY <2>1
    <2>3. n \in Nat
      BY <1>4, <1>6, <1>7, <1>8, <1>9, <2>2, CountGrows
    <2> QED
      BY <2>1, <2>3
  <1>12. PICK step : step = [s \in [at : Nat, in : DOMAIN d.fields, left : Int] |->
                                ShiftStep(d, s)]
    OBVIOUS
  <1>13. PICK x : x = [at |-> d.cur, in |-> i, left |-> n]
    OBVIOUS
  <1>14. PICK S : S = Ats(d)
    OBVIOUS
  <1>15. step \in [S -> S] /\ \A s \in S : step[s] = ShiftStep(d, s)
    BY <1>12, <1>14, ShiftStepTyped DEF Ats
  <1>16. x \in S /\ x.at = d.cur /\ x.in = i /\ x.left = n
    BY <1>3, <1>11, <1>13, <1>14, BoardIs DEF Ats
  <1>17. way = Walk(step, x, n + q)
    BY <1>1, <1>2, <1>7, <1>8, <1>10, <1>12, <1>13 DEF ShiftWay
  <1>18. n + q \in Nat
    BY <1>11
  <1>19. WalkTo(way, S, x, step, n + q)
    BY <1>15, <1>16, <1>17, <1>18, WalkIs
  <1>20. /\ way \in Seq(S) /\ Len(way) = n + q + 1 /\ way[1] = x
         /\ \A k \in 1 .. n + q : way[k + 1] = step[way[k]]
    BY <1>19 DEF WalkTo
  <1>21. \A k \in 1 .. n + q + 1 : way[k] \in S
    BY <1>18, <1>20
  <1>22. \A k \in 1 .. n + q : way[k + 1] = ShiftStep(d, way[k]) /\ way[k] \in Ats(d)
    <2> SUFFICES ASSUME NEW k \in 1 .. n + q
                 PROVE  way[k + 1] = ShiftStep(d, way[k]) /\ way[k] \in Ats(d)
      OBVIOUS
    <2>1. k \in 1 .. n + q + 1
      BY <1>18
    <2> QED
      BY <1>14, <1>15, <1>20, <1>21, <2>1
  (* The k-th cell: on the way, or behind its end. *)
  <1>35. PICK total : total = n + p - 1
    OBVIOUS
  <1> DEFINE On(k) == \E m : /\ OnWay(d, parts, cells, way[k], m)
                             /\ ToGo(parts, way[k], m) = total - (k - 1)
             Past(k) == Beyond(parts, way[k])
             T == {k \in Nat : k + 1 <= n + q + 1 =>
                     /\ k <= total => On(k + 1)
                     /\ k > total => Past(k + 1)}
  <1>23. total \in Nat /\ total + 1 <= n + q + 1
    BY <1>11, <1>35
  <1>24. On(1)
    <2>1. cells[1] = count
      BY <1>7 DEF Counted
    <2>2. 1 \in 1 .. p /\ parts[1] = i
      BY <1>11
    <2>3. n = EndPos(f) - d.cur + n - count
      BY <1>3, <1>11
    <2>4. OnWay(d, parts, cells, x, 1)
      BY <1>1, <1>8, <1>9, <1>16, <2>1, <2>2, <2>3 DEF OnWay
    <2>5. ToGo(parts, x, 1) = total - (1 - 1)
      BY <1>9, <1>11, <1>16, <1>35 DEF ToGo
    <2> QED
      BY <1>20, <2>4, <2>5
  <1> HIDE DEF On, Past
  <1>25. 0 \in T
    BY <1>23, <1>24
  <1>26. ASSUME NEW k \in Nat, k \in T PROVE k + 1 \in T
    <2> SUFFICES ASSUME k + 2 <= n + q + 1
                 PROVE  /\ k + 1 <= total => On(k + 2)
                        /\ k + 1 > total => Past(k + 2)
      <3>1. (k + 1) + 1 = k + 2
        OBVIOUS
      <3> QED
        BY <1>11, <3>1
    <2>1. k + 1 \in 1 .. n + q /\ (k + 1) + 1 = k + 2 /\ (k + 1) - 1 = k
      BY <1>11
    <2>8. /\ k <= total => On(k + 1)
          /\ k > total => Past(k + 1)
      <3>1. k + 1 <= n + q + 1
        BY <1>18, <2>1
      <3> QED
        BY <1>26, <3>1
    <2>2. way[k + 2] = ShiftStep(d, way[k + 1]) /\ way[k + 1] \in Ats(d)
      BY <1>22, <2>1
    <2>3. PICK s : s = way[k + 1]
      OBVIOUS
    <2>4. PICK t : t = way[k + 2]
      OBVIOUS
    <2>5. t = ShiftStep(d, s) /\ s \in Ats(d)
      BY <2>2, <2>3, <2>4
    <2>6. CASE k <= total
      <3>1. PICK m : OnWay(d, parts, cells, s, m) /\ ToGo(parts, s, m) = total - k
        BY <2>1, <2>3, <2>6, <2>8 DEF On
      <3>2. CASE k = total
        <4>1. ToGo(parts, s, m) = 0
          BY <1>23, <3>1, <3>2
        <4>2. Beyond(parts, t)
          BY <1>4, <1>6, <1>7, <2>5, <3>1, <4>1, OneShift
        <4> QED
          BY <1>23, <2>4, <3>2, <4>2 DEF Past
      <3>3. CASE k # total
        <4>1. ToGo(parts, s, m) # 0
          BY <1>23, <3>1, <3>3
        <4>2. PICK l : /\ OnWay(d, parts, cells, t, l)
                       /\ ToGo(parts, t, l) = ToGo(parts, s, m) - 1
          BY <1>4, <1>6, <1>7, <2>5, <3>1, <4>1, OneShift
        <4>3. ToGo(parts, t, l) = total - ((k + 2) - 1)
          BY <1>23, <3>1, <4>2
        <4>4. On(k + 2)
          BY <2>4, <4>2, <4>3 DEF On
        <4> QED
          BY <1>23, <2>6, <3>3, <4>4
      <3> QED
        BY <3>2, <3>3
    <2>7. CASE k > total
      <3>1. Beyond(parts, s)
        BY <2>3, <2>7, <2>8 DEF Past
      <3>2. ~Continues(d.fields[s.in])
        BY <1>6, <1>9, <1>11, <3>1 DEF Beyond, AlongList, Continuing
      <3>3. t.in = s.in /\ t.left = s.left - 1 /\ s.left \in Int
        BY <2>5, <3>2, ShiftStepTyped DEF Ats
      <3>4. Beyond(parts, t)
        BY <3>1, <3>3 DEF Beyond
      <3> QED
        BY <1>23, <2>4, <2>7, <3>4 DEF Past
    <2> QED
      BY <1>23, <2>6, <2>7
  <1> HIDE DEF T
  <1>27. Nat \subseteq T
    BY <1>25, <1>26, Induction
  <1>28. ASSUME NEW k \in 1 .. n + q + 1
         PROVE  /\ k <= total + 1 => On(k)
                /\ k > total + 1 => Past(k)
    <2>1. k - 1 \in T /\ (k - 1) + 1 = k /\ k - 1 \in Nat
      BY <1>27
    <2> QED
      BY <1>11, <1>23, <2>1 DEF T
  <1> DEFINE InPart(k) == \E m \in 1 .. Len(parts) : way[k].at \in FieldCells(d.fields[parts[m]])
  <1>29. \A k \in 1 .. n + q + 1 : k <= total + 1 => way[k].at \in Cells /\ InPart(k)
    <2> SUFFICES ASSUME NEW k \in 1 .. n + q + 1, k <= total + 1
                 PROVE  way[k].at \in Cells /\ InPart(k)
      OBVIOUS
    <2>1. PICK m : OnWay(d, parts, cells, way[k], m)
      BY <1>28 DEF On
    <2>2. /\ m \in 1 .. Len(parts) /\ way[k].at \in FieldCells(d.fields[parts[m]])
      BY <2>1 DEF OnWay
    <2>3. parts[m] \in 1 .. Len(d.fields)
      BY <1>6, <2>2 DEF AlongList
    <2> QED
      BY <2>2, <2>3, FieldsAre
  <1>30. DOMAIN way = 1 .. n + q + 1 /\ Len(way) \in Nat
    BY <1>18, <1>20
  <1>31. AtEnd(way) = {k \in 1 .. n + q + 1 : way[k].left = 0}
    BY <1>30 DEF AtEnd
  <1>32. total + 1 \in AtEnd(way)
    <2>1. total + 1 \in 1 .. n + q + 1
      BY <1>23
    <2>6. PICK e : e = total + 1
      OBVIOUS
    <2>7. On(e)
      BY <1>23, <1>28, <2>1, <2>6
    <2>2. PICK m : OnWay(d, parts, cells, way[e], m) /\ ToGo(parts, way[e], m) = total - (e - 1)
      BY <2>7 DEF On
    <2>3. ToGo(parts, way[e], m) = 0
      BY <1>23, <2>2, <2>6
    <2>4. way[e] \in Ats(d)
      BY <1>14, <1>21, <2>1, <2>6
    <2>5. way[e].left = 0
      BY <1>4, <1>6, <1>7, <2>2, <2>3, <2>4, OneShift
    <2> QED
      BY <1>31, <2>1, <2>5, <2>6
  <1>33. \A e \in AtEnd(way) : e \in 1 .. n + q + 1 /\ e <= total + 1
    <2> SUFFICES ASSUME NEW e \in 1 .. n + q + 1, way[e].left = 0, e > total + 1 PROVE FALSE
      BY <1>23, <1>31
    <2>1. Beyond(parts, way[e])
      BY <1>28 DEF Past
    <2> QED
      BY <2>1 DEF Beyond
  <1>34. ASSUME NEW e \in AtEnd(way), NEW k \in 1 .. e PROVE way[k].at \in Cells /\ InPart(k)
    <2>1. k \in 1 .. n + q + 1 /\ k <= total + 1
      BY <1>18, <1>23, <1>33
    <2> QED
      BY <1>29, <2>1
  <1> QED
    BY <1>5, <1>14, <1>20, <1>30, <1>32, <1>33, <1>34

(* What keys leave alone, field by field. *)
LEMMA EditedFields ==
    ASSUME NEW d \in Boards, NEW e \in Edited(d)
    PROVE  /\ e \in Boards /\ Len(e.fields) = Len(d.fields)
           /\ \A i \in 1 .. Len(d.fields) :
                 /\ e.fields[i].start = d.fields[i].start /\ e.fields[i].len = d.fields[i].len
                 /\ e.fields[i].part = d.fields[i].part /\ e.fields[i].fer = d.fields[i].fer
                 /\ e.fields[i].bypass = d.fields[i].bypass /\ e.fields[i].type = d.fields[i].type
                 /\ e.fields[i].wordwrap = d.fields[i].wordwrap
                 /\ EndPos(e.fields[i]) = EndPos(d.fields[i])
                 /\ FieldCells(e.fields[i]) = FieldCells(d.fields[i])
           /\ \A p : FieldYX(e, p) = FieldYX(d, p)
  <1>1. e \in Boards /\ FormatOf(e) = FormatOf(d)
    BY DEF Edited
  <1>2. /\ FormatOf(d) = [i \in 1 .. Len(d.fields) |-> [d.fields[i] EXCEPT !.mdt = FALSE]]
        /\ FormatOf(e) = [i \in 1 .. Len(e.fields) |-> [e.fields[i] EXCEPT !.mdt = FALSE]]
        /\ Len(d.fields) \in Nat /\ Len(e.fields) \in Nat
        /\ DOMAIN d.fields = 1 .. Len(d.fields) /\ DOMAIN e.fields = 1 .. Len(e.fields)
    BY <1>1, BoardIs
  <1>3. 1 .. Len(d.fields) = 1 .. Len(e.fields)
    BY <1>1, <1>2
  <1>4. Len(e.fields) = Len(d.fields)
    BY <1>2, <1>3
  <1>5. ASSUME NEW i \in 1 .. Len(d.fields)
        PROVE  /\ e.fields[i].start = d.fields[i].start /\ e.fields[i].len = d.fields[i].len
               /\ e.fields[i].part = d.fields[i].part /\ e.fields[i].fer = d.fields[i].fer
               /\ e.fields[i].bypass = d.fields[i].bypass /\ e.fields[i].type = d.fields[i].type
               /\ e.fields[i].wordwrap = d.fields[i].wordwrap
    <2>1. PICK f : f = d.fields[i]
      OBVIOUS
    <2>2. PICK g : g = e.fields[i]
      OBVIOUS
    <2>3. [f EXCEPT !.mdt = FALSE] = [g EXCEPT !.mdt = FALSE]
      <3>1. FormatOf(d)[i] = [f EXCEPT !.mdt = FALSE]
        BY <1>2, <2>1
      <3>2. FormatOf(e)[i] = [g EXCEPT !.mdt = FALSE]
        BY <1>2, <1>4, <2>2
      <3> QED
        BY <1>1, <3>1, <3>2
    <2>4. f \in Field /\ g \in Field
      BY <1>1, <1>4, <2>1, <2>2, FieldsAre
    <2>5. PICK y : y = [f EXCEPT !.mdt = FALSE]
      OBVIOUS
    <2>6. /\ f.start = y.start /\ f.len = y.len /\ f.part = y.part /\ f.fer = y.fer
          /\ f.bypass = y.bypass /\ f.type = y.type /\ f.wordwrap = y.wordwrap
      BY <2>4, <2>5 DEF Field
    <2>7. y = [g EXCEPT !.mdt = FALSE]
      BY <2>3, <2>5
    <2>8. /\ g.start = y.start /\ g.len = y.len /\ g.part = y.part /\ g.fer = y.fer
          /\ g.bypass = y.bypass /\ g.type = y.type /\ g.wordwrap = y.wordwrap
      BY <2>4, <2>7 DEF Field
    <2> QED
      BY <2>1, <2>2, <2>6, <2>8
  <1>6. \A i \in 1 .. Len(d.fields) :
           /\ EndPos(e.fields[i]) = EndPos(d.fields[i])
           /\ FieldCells(e.fields[i]) = FieldCells(d.fields[i])
    BY <1>5 DEF EndPos, FieldCells
  <1>7. ASSUME NEW p PROVE FieldYX(e, p) = FieldYX(d, p)
    <2>1. {i \in DOMAIN d.fields : HitTest(d.fields[i], p)}
            = {i \in DOMAIN e.fields : HitTest(e.fields[i], p)}
      BY <1>2, <1>4, <1>5, <1>6 DEF HitTest
    <2> QED
      BY <2>1 DEF FieldYX
  <1> QED
    BY <1>1, <1>4, <1>5, <1>6, <1>7

LEMMA DelKeeps ==
    ASSUME NEW d \in Boards, NEW i \in 1 .. Len(d.fields), d.cur \in FieldCells(d.fields[i]),
           NEW count, count = CountRight(d.fields[i], d.cur)
    PROVE  Del(d, i, count) \in EditedAt(d)
  <1>1. PICK full : full = ShiftWay(d, i, count)
    OBVIOUS
  <1>2. /\ Len(full) \in Nat /\ full \in Seq(Ats(d))
        /\ AtEnd(full) # {} /\ AtEnd(full) \in SUBSET (1 .. Len(full))
        /\ \A e \in AtEnd(full) : \A k \in 1 .. e : full[k].at \in Cells
    BY <1>1, ShiftWayIs
  <1>3. PICK e : e = Smallest(AtEnd(full))
    OBVIOUS
  <1>4. e \in AtEnd(full) /\ e \in 1 .. Len(full)
    <2>1. AtEnd(full) \in SUBSET Nat
      BY <1>2
    <2> QED
      BY <1>2, <1>3, <2>1, SmallestExists
  <1>5. PICK way : way = SubSeq(full, 1, e)
    OBVIOUS
  <1>6. /\ Len(way) = e /\ DOMAIN way = 1 .. e
        /\ \A k \in 1 .. e : way[k] = full[k]
    BY <1>2, <1>4, <1>5, PrefixIs DEF BeginsAs
  <1>7. \A k \in 1 .. e : way[k].at \in Cells
    BY <1>2, <1>4, <1>6
  <1> DEFINE content(k) == IF k = Len(way) THEN Nul ELSE d.data[way[k + 1].at]
             steps(p) == {k \in DOMAIN way : way[k].at = p}
             data == [p \in Cells |-> IF steps(p) = {} THEN d.data[p]
                                      ELSE content(Largest(steps(p)))]
  <1>8. \A k \in 1 .. e : content(k) \in Chars
    <2> SUFFICES ASSUME NEW k \in 1 .. e PROVE content(k) \in Chars
      OBVIOUS
    <2>1. k # e => k + 1 \in 1 .. e
      BY <1>4
    <2>2. k # e => d.data[way[k + 1].at] \in Chars
      BY <1>7, <2>1, BoardIs
    <2> QED
      BY <1>6, <2>2, ConstantChars
  <1>9. \A p \in Cells : steps(p) # {} => Largest(steps(p)) \in 1 .. e
    <2> SUFFICES ASSUME NEW p \in Cells, steps(p) # {} PROVE Largest(steps(p)) \in 1 .. e
      OBVIOUS
    <2>1. e \in Nat /\ steps(p) \in SUBSET (0 .. e) /\ steps(p) \subseteq 1 .. e
      BY <1>4, <1>6
    <2> HIDE DEF steps
    <2> QED
      BY <2>1, LargestExists
  <1>10. Del(d, i, count) = [d EXCEPT !.data = data]
    BY <1>1, <1>3, <1>5 DEF Del, DelAlong, Shifted
  <1> HIDE DEF content, steps
  <1>11. data \in [Cells -> Chars]
    BY <1>8, <1>9, BoardIs
  <1> HIDE DEF data
  <1>12. d.cur \in Cells
    BY FieldsAre
  <1>13. PICK t : t = [d EXCEPT !.data = data]
    OBVIOUS
  <1>14. t \in Edited(d) /\ t.cur = d.cur
    BY <1>11, <1>12, <1>13, DataChanges
  <1>15. t \in EditedAt(d)
    BY <1>12, <1>14, Transitive
  <1> QED
    BY <1>10, <1>13, <1>15

LEMMA InsKeeps ==
    ASSUME NEW d \in Boards, NEW i \in 1 .. Len(d.fields), d.cur \in FieldCells(d.fields[i]),
           NEW count, count = CountRight(d.fields[i], d.cur), NEW c \in Chars
    PROVE  Ins(d, i, c, count) \in EditedAt(d)
  <1>1. PICK full : full = ShiftWay(d, i, count)
    OBVIOUS
  <1>2. /\ Len(full) \in Nat /\ full \in Seq(Ats(d))
        /\ AtEnd(full) # {} /\ AtEnd(full) \in SUBSET (1 .. Len(full))
        /\ \A e \in AtEnd(full) : \A k \in 1 .. e : full[k].at \in Cells
    BY <1>1, ShiftWayIs
  <1>3. PICK e : e = Largest(AtEnd(full))
    OBVIOUS
  <1>4. e \in AtEnd(full) /\ e \in 1 .. Len(full)
    <2>1. AtEnd(full) \in SUBSET (0 .. Len(full))
      BY <1>2
    <2> QED
      BY <1>2, <1>3, <2>1, LargestExists
  <1>5. PICK way : way = SubSeq(full, 1, e)
    OBVIOUS
  <1>6. /\ Len(way) = e /\ DOMAIN way = 1 .. e
        /\ \A k \in 1 .. e : way[k] = full[k]
    BY <1>2, <1>4, <1>5, PrefixIs DEF BeginsAs
  <1>7. \A k \in 1 .. e : way[k].at \in Cells
    BY <1>2, <1>4, <1>6
  <1> DEFINE content(k) == IF k = 1 THEN c ELSE d.data[way[k - 1].at]
             steps(p) == {k \in DOMAIN way : way[k].at = p}
             data == [p \in Cells |-> IF steps(p) = {} THEN d.data[p]
                                      ELSE content(Largest(steps(p)))]
  <1>8. \A k \in 1 .. e : content(k) \in Chars
    <2> SUFFICES ASSUME NEW k \in 1 .. e PROVE content(k) \in Chars
      OBVIOUS
    <2>1. k # 1 => k - 1 \in 1 .. e
      BY <1>4
    <2>2. k # 1 => d.data[way[k - 1].at] \in Chars
      BY <1>7, <2>1, BoardIs
    <2> QED
      BY <2>2
  <1>9. \A p \in Cells : steps(p) # {} => Largest(steps(p)) \in 1 .. e
    <2> SUFFICES ASSUME NEW p \in Cells, steps(p) # {} PROVE Largest(steps(p)) \in 1 .. e
      OBVIOUS
    <2>1. e \in Nat /\ steps(p) \in SUBSET (0 .. e) /\ steps(p) \subseteq 1 .. e
      BY <1>4, <1>6
    <2> HIDE DEF steps
    <2> QED
      BY <2>1, LargestExists
  <1>10. Ins(d, i, c, count) = [d EXCEPT !.data = data, !.cur = RightOf(d.cur, 1)]
    BY <1>1, <1>3, <1>5 DEF Ins, InsAlong, Shifted
  <1> HIDE DEF content, steps
  <1>11. data \in [Cells -> Chars]
    BY <1>8, <1>9, BoardIs
  <1> HIDE DEF data
  <1>12. d.cur \in Cells /\ 1 \in Int
    BY FieldsAre
  <1>13. PICK q : q = RightOf(d.cur, 1)
    OBVIOUS
  <1>14. q \in Cells
    BY <1>12, <1>13, CellMoves
  <1>15. [d EXCEPT !.data = data, !.cur = q] \in EditedAt(d)
    BY <1>11, <1>14, DataChanges
  <1> QED
    BY <1>10, <1>13, <1>15

------------------------------------------------------------------------------
(* Adjustment, and the keys that leave a field.  The cursor stays. *)
Kept(d, e) == e \in Edited(d) /\ e.cur = d.cur

LEMMA KeptKeeps ==
    ASSUME NEW d \in Boards, NEW e, Kept(d, e)
    PROVE  /\ e \in Boards /\ Kept(d, d)
           /\ \A t : Kept(e, t) => Kept(d, t)
           /\ \A t \in EditedAt(e) : t \in EditedAt(d)
           /\ \A t \in Edited(e) : t \in Edited(d)
           /\ \A i : Kept(d, SetMdt(e, i))
           /\ d.cur \in Cells => e \in EditedAt(d)
  <1>1. e \in Edited(d) /\ e.cur = d.cur
    BY DEF Kept
  <1>2. d \in Edited(d)
    BY DEF Edited
  <1>3. e \in Boards /\ Edited(e) = Edited(d) /\ EditedAt(e) = EditedAt(d)
    BY <1>1, <1>2, Transitive
  <1>4. \A i : SetMdt(e, i) \in Edited(d) /\ SetMdt(e, i).cur = d.cur
    BY <1>1, <1>3, MarkKeeps
  <1>5. d.cur \in Cells => e \in EditedAt(d)
    BY <1>1, <1>3 DEF EditedAt, Edited, Ready
  <1> QED
    BY <1>1, <1>2, <1>3, <1>4, <1>5 DEF Kept

LEMMA DataKept ==
    ASSUME NEW d \in Boards, NEW data \in [Cells -> Chars]
    PROVE  Kept(d, [d EXCEPT !.data = data]) /\ [d EXCEPT !.data = data].data = data
  BY DataChanges, ScreenSize DEF Kept

LEMMA ShiftRightKeeps ==
    ASSUME NEW d \in Boards, NEW i \in 1 .. Len(d.fields), NEW fill \in Chars
    PROVE  Kept(d, ShiftRight(d, i, fill))
  <1>1. PICK f : f = d.fields[i]
    OBVIOUS
  <1>2. PICK end : end = IF f.type = "signed_num" THEN EndPos(f) - 1 ELSE EndPos(f)
    OBVIOUS
  <1> DEFINE text == {p \in f.start .. end : ~Empty(d.data[p])}
             gap == end - Largest(text)
             first == Smallest(text)
             padded(p) == IF p < first THEN fill ELSE d.data[p]
             data == [p \in Cells |->
                        IF p \notin f.start .. end THEN d.data[p]
                        ELSE IF text = {} THEN fill
                        ELSE IF p - gap < f.start THEN fill ELSE padded(p - gap)]
  <1>3. ShiftRight(d, i, fill) = SetMdt([d EXCEPT !.data = data], i)
    BY <1>1, <1>2 DEF ShiftRight
  <1>4. f.start \in Nat /\ EndPos(f) \in Nat /\ EndPos(f) < Size /\ end \in Int /\ end <= EndPos(f)
    <2>1. f.start \in Nat /\ EndPos(f) \in Nat /\ EndPos(f) \in Cells
      BY <1>1, FieldsAre
    <2>2. EndPos(f) < Size
      BY <2>1, CellsRight
    <2> QED
      BY <1>2, <2>1, <2>2
  <1>5. text # {} => gap \in Nat
    <2>1. text \in SUBSET (0 .. EndPos(f)) /\ \A p \in text : p <= end /\ p \in Nat
      BY <1>4
    <2> HIDE DEF text
    <2>2. text # {} => Largest(text) \in text
      BY <1>4, <2>1, LargestExists
    <2>3. PICK x : x = Largest(text)
      OBVIOUS
    <2>4. text # {} => x \in Nat /\ x <= end
      BY <2>1, <2>2, <2>3
    <2> QED
      BY <1>4, <2>3, <2>4
  <1> HIDE DEF text, gap, first
  <1>6. ASSUME NEW p \in Cells, text # {}, ~(p - gap < f.start)
        PROVE  padded(p - gap) \in Chars
    <2>1. p - gap \in Cells
      <3>1. p \in Nat /\ p < Size /\ Size \in Nat
        BY CellsRight, ScreenSize
      <3> QED
        BY <1>4, <1>5, <1>6, <3>1 DEF Cells
    <2> QED
      BY <2>1, BoardIs
  <1> HIDE DEF padded
  <1>7. data \in [Cells -> Chars]
    BY <1>6, BoardIs
  <1> HIDE DEF data
  <1>8. Kept(d, [d EXCEPT !.data = data])
    BY <1>7, DataKept
  <1> QED
    BY <1>3, <1>8, KeptKeeps

LEMMA AdjustKeeps ==
    ASSUME NEW d \in Boards, NEW i \in 1 .. Len(d.fields)
    PROVE  Kept(d, FieldAdjust(d, i))
  <1>1. Kept(d, d)
    BY DEF Kept, Edited
  <1>2. Kept(d, ShiftRight(d, i, "0")) /\ Kept(d, ShiftRight(d, i, Blank))
    BY ConstantChars, ShiftRightKeeps
  <1>3. PICK e : e = LET f == d.fields[i]
                         fill == IF f.type = "signed_num" THEN "right_blank" ELSE f.fill
                     IN CASE fill = "right_zero" -> ShiftRight(d, i, "0")
                          [] fill = "right_blank" -> ShiftRight(d, i, Blank)
                          [] OTHER -> d
    OBVIOUS
  <1>4. Kept(d, e)
    BY <1>1, <1>2, <1>3
  <1>5. FieldAdjust(d, i) = SetMdt(e, i)
    BY <1>3 DEF FieldAdjust
  <1> QED
    BY <1>4, <1>5, KeptKeeps

LEMMA PadKeeps ==
    ASSUME NEW d \in Boards, NEW i \in 1 .. Len(d.fields)
    PROVE  Kept(d, PadAndAdjust(d, i))
  <1> DEFINE f == d.fields[i]
             end == EndPos(f) - (IF f.type = "signed_num" THEN 1 ELSE 0)
             rest == (d.cur .. end) \cup
                     UNION {FieldCells(d.fields[j]) : j \in
                         {k \in DOMAIN d.fields : k > i /\ \E l \in Logical(d) :
                             {i, k} \subseteq PartsOf(d, l)}}
             data == [p \in Cells |-> IF p \in rest THEN Nul ELSE d.data[p]]
  <1>1. PICK e : e = IF fer THEN d ELSE [d EXCEPT !.data = data]
    OBVIOUS
  <1>2. PadAndAdjust(d, i) = FieldAdjust(e, i)
    BY <1>1 DEF PadAndAdjust
  <1> HIDE DEF rest
  <1>3. data \in [Cells -> Chars]
    BY BoardIs, ConstantChars
  <1> HIDE DEF data
  <1>4. Kept(d, [d EXCEPT !.data = data]) /\ Kept(d, d)
    BY <1>3, DataKept DEF Kept, Edited
  <1>5. Kept(d, e)
    BY <1>1, <1>4
  <1>6. e \in Boards /\ Len(e.fields) = Len(d.fields)
    BY <1>5, EditedFields DEF Kept
  <1>7. Kept(e, FieldAdjust(e, i))
    BY <1>6, AdjustKeeps
  <1> QED
    BY <1>2, <1>5, <1>7, KeptKeeps

------------------------------------------------------------------------------
(* Word wrap.  The texts of parts are put together. *)
LEMMA JoinedTyped ==
    ASSUME NEW S, NEW n \in Nat, NEW texts, Len(texts) = n,
           \A k \in 1 .. n : texts[k] \in Seq(S)
    PROVE  Joined(texts) \in Seq(S)
  <1>1. PICK T : T = Seq(S)
    OBVIOUS
  <1> DEFINE g == [s \in T \X Nat |-> IF s[2] \in 1 .. n THEN s[1] \o texts[s[2]] ELSE s[1]]
  <1>2. \A s \in T, k \in 1 .. n : s \o texts[k] \in T
    BY <1>1
  <1>3. g \in StepsIn(T)
    <2>1. ASSUME NEW s \in T \X Nat PROVE g[s] \in T
      <3>1. s[1] \in T
        OBVIOUS
      <3> QED
        BY <1>2, <3>1
    <2> QED
      BY <2>1 DEF StepsIn
  <1>4. <<>> \in T
    BY <1>1
  <1>5. ASSUME NEW s \in T, NEW k \in 1 .. n PROVE g[<<s, k>>] = s \o texts[k]
    <2>1. <<s, k>> \in T \X Nat
      OBVIOUS
    <2> QED
      BY <2>1
  <1> HIDE DEF g
  <1>6. PICK f : Iterated(f, T, <<>>, g, n)
    BY <1>3, <1>4, Recursion
  <1>7. /\ f \in [0 .. n -> T] /\ f[0] = <<>>
        /\ \A k \in 1 .. n : f[k] = g[<<f[k - 1], k>>]
    BY <1>6 DEF Iterated
  <1>8. ASSUME NEW k \in 1 .. n PROVE f[k] = f[k - 1] \o texts[k]
    <2>1. k - 1 \in 0 .. n
      OBVIOUS
    <2>2. f[k - 1] \in T
      BY <1>7, <2>1
    <2> QED
      BY <1>5, <1>7, <2>2
  <1> DEFINE upTo[k \in 0 .. n] == IF k = 0 THEN <<>> ELSE upTo[k - 1] \o texts[k]
  <1>9. f = [k \in 0 .. n |-> IF k = 0 THEN <<>> ELSE f[k - 1] \o texts[k]]
    <2>1. f = [k \in 0 .. n |-> f[k]]
      BY <1>7
    <2>2. \A k \in 0 .. n : k # 0 => k \in 1 .. n
      OBVIOUS
    <2>3. \A k \in 0 .. n : f[k] = IF k = 0 THEN <<>> ELSE f[k - 1] \o texts[k]
      BY <1>7, <1>8, <2>2
    <2> QED
      BY <2>1, <2>3, Zenon
  <1>10. upTo = [k \in 0 .. n |-> IF k = 0 THEN <<>> ELSE upTo[k - 1] \o texts[k]]
    BY <1>9
  <1>11. Joined(texts) = upTo[n]
    BY DEF Joined
  <1> HIDE DEF upTo
  <1>12. upTo[0] \in T
    BY <1>4, <1>10
  <1>13. ASSUME NEW k \in 1 .. n, upTo[k - 1] \in T PROVE upTo[k] \in T
    <2>1. k \in 0 .. n /\ k # 0
      OBVIOUS
    <2>2. upTo[k] = upTo[k - 1] \o texts[k]
      BY <1>10, <2>1
    <2> QED
      BY <1>2, <1>13, <2>2
  <1>14. \A k \in 0 .. n : upTo[k] \in T
    BY <1>12, <1>13, AllFromZero
  <1>15. upTo[n] \in T
    BY <1>14
  <1> QED
    BY <1>1, <1>11, <1>15

LEMMA PartCellsTyped ==
    ASSUME NEW d \in Boards, NEW i \in 1 .. Len(d.fields)
    PROVE  /\ PartCells(d, i) \in Seq(Chars)
           /\ Len(PartCells(d, i)) = d.fields[i].len
  <1>1. PICK f : f = d.fields[i]
    OBVIOUS
  <1>2. /\ f.start \in Nat /\ f.len \in Nat /\ f.start + f.len <= Size /\ Size \in Nat
    BY <1>1, FieldsAre, ScreenSize
  <1>3. \A k \in 1 .. f.len : f.start + k - 1 \in Cells
    BY <1>2 DEF Cells
  <1>4. \A k \in 1 .. f.len : d.data[f.start + k - 1] \in Chars
    BY <1>3, BoardIs
  <1>5. PartCells(d, i) = [k \in 1 .. f.len |-> d.data[f.start + k - 1]]
    BY <1>1 DEF PartCells
  <1>6. PICK n, c : n = f.len /\ c = [k \in 1 .. n |-> d.data[f.start + k - 1]]
    OBVIOUS
  <1>7. n \in Nat /\ c \in [1 .. n -> Chars]
    BY <1>2, <1>4, <1>6
  <1>8. c \in Seq(Chars) /\ Len(c) = n
    BY <1>7
  <1> QED
    BY <1>1, <1>5, <1>6, <1>8

LEMMA RunningTextTyped ==
    ASSUME NEW d \in Boards, NEW i \in 1 .. Len(d.fields)
    PROVE  RunningText(d, i) \in Seq(Chars)
  <1>1. PICK parts : parts = UpTo(d, i, LAMBDA j : d.fields[j].wordwrap)
    OBVIOUS
  <1>2. PICK n : n = Len(parts)
    OBVIOUS
  <1>3. n \in Nat /\ \A m \in 1 .. n : parts[m] \in 1 .. Len(d.fields)
    <2>1. AlongList(d, i, Wrapping(d), parts)
      BY <1>1, PartsAre
    <2> QED
      BY <1>2, <2>1, BoardIs DEF AlongList
  <1>4. PICK texts : texts = [m \in 1 .. n |-> IF m = 1 THEN PartCells(d, i)
                                               ELSE <<Nul>> \o PartCells(d, parts[m])]
    OBVIOUS
  <1>5. <<Nul>> \in Seq(Chars)
    BY ConstantChars
  <1>6. \A m \in 1 .. n : texts[m] \in Seq(Chars)
    BY <1>3, <1>4, <1>5, PartCellsTyped
  <1>7. Len(texts) = n
    BY <1>3, <1>4
  <1>8. RunningText(d, i) = Joined(texts)
    BY <1>1, <1>2, <1>4 DEF RunningText
  <1> QED
    BY <1>3, <1>6, <1>7, <1>8, JoinedTyped

LEMMA PutLineKeeps ==
    ASSUME NEW d \in Boards, NEW i \in 1 .. Len(d.fields), NEW line \in Seq(Chars)
    PROVE  PutLine(d, i, line) \in EditedAt(d)
  <1>1. PICK f : f = d.fields[i]
    OBVIOUS
  <1>2. PICK n : n = IF Len(line) > f.len THEN Len(line) ELSE f.len
    OBVIOUS
  <1>3. f.start \in Cells /\ n \in Nat /\ n \in Int
    BY <1>1, <1>2, FieldsAre
  <1> DEFINE nth(p) == 1 + ((p + Size - f.start) % Size)
             data == [p \in Cells |-> IF nth(p) > n THEN d.data[p]
                                      ELSE IF nth(p) > Len(line) THEN Nul ELSE line[nth(p)]]
  <1>4. PutLine(d, i, line) = [d EXCEPT !.data = data, !.cur = RightOf(f.start, n)]
    BY <1>1, <1>2 DEF PutLine
  <1>5. \A p \in Cells : nth(p) \in Nat \ {0}
    BY <1>3, Distance
  <1> HIDE DEF nth
  <1>6. \A p \in Cells : ~(nth(p) > Len(line)) => line[nth(p)] \in Chars
    BY <1>5
  <1>7. data \in [Cells -> Chars]
    BY <1>6, BoardIs, ConstantChars
  <1> HIDE DEF data
  <1>8. PICK q : q = RightOf(f.start, n)
    OBVIOUS
  <1>9. q \in Cells
    BY <1>3, <1>8, CellMoves
  <1>10. [d EXCEPT !.data = data, !.cur = q] \in EditedAt(d)
    BY <1>7, <1>9, DataChanges
  <1> QED
    BY <1>4, <1>8, <1>10

(* The layout changes the text of the parts only. *)
Lines(d) == [d : Edited(d), part : 1 .. Len(d.fields), line : Seq(Chars), word : Seq(Chars),
             count : Int]

LEMMA LayoutStepTyped ==
    ASSUME NEW d \in Boards, NEW s \in Lines(d), NEW c \in Chars, NEW fieldLength \in Int
    PROVE  LayoutStep(s, c, fieldLength) \in Lines(d)
  <1>1. /\ s.d \in Edited(d) /\ s.part \in 1 .. Len(d.fields) /\ s.line \in Seq(Chars)
        /\ s.word \in Seq(Chars) /\ s.count \in Int
    BY DEF Lines
  <1>2. s.d \in Boards /\ Len(s.d.fields) = Len(d.fields)
    BY <1>1, EditedFields
  <1>3. PICK gap : gap = IF c = Nul THEN <<>> ELSE <<c>>
    OBVIOUS
  <1>4. gap \in Seq(Chars)
    BY <1>3
  <1>5. PICK full : full = (s.line # <<>> /\ s.count + 1 > fieldLength)
    OBVIOUS
  <1>6. PICK line : line = IF full THEN s.word \o gap ELSE s.line \o s.word \o gap
    OBVIOUS
  <1>7. line \in Seq(Chars) /\ Len(line) \in Int
    <2>1. s.word \o gap \in Seq(Chars) /\ (s.line \o s.word) \o gap \in Seq(Chars)
      BY <1>1, <1>4
    <2>2. line \in Seq(Chars)
      BY <1>6, <2>1
    <2> QED
      BY <2>2
  <1>8. PICK e : e = IF full THEN PutLine(s.d, s.part, s.line) ELSE s.d
    OBVIOUS
  <1>9. e \in Edited(d)
    <2>1. PutLine(s.d, s.part, s.line) \in EditedAt(s.d)
      BY <1>1, <1>2, PutLineKeeps
    <2>2. EditedAt(s.d) \subseteq Edited(d)
      BY <1>1, Transitive
    <2> QED
      BY <1>1, <1>8, <2>1, <2>2
  <1>10. PICK part : part = IF full /\ s.d.fields[s.part].wordwrap
                            THEN NextIn(s.d, s.part) ELSE s.part
    OBVIOUS
  <1>11. part \in 1 .. Len(d.fields)
    BY <1>1, <1>2, <1>10, ListIsCircular
  <1>12. PICK count : count = IF s.line = <<>> THEN s.count ELSE Len(line)
    OBVIOUS
  <1>13. count \in Int
    BY <1>1, <1>7, <1>12
  <1>14. LayoutStep(s, c, fieldLength)
           = IF c \notin {Nul, Blank} THEN [s EXCEPT !.word = Append(@, c), !.count = @ + 1]
             ELSE [d |-> e, part |-> part, line |-> line, word |-> <<>>, count |-> count]
    BY <1>3, <1>5, <1>6, <1>8, <1>10, <1>12 DEF LayoutStep
  <1>15. [s EXCEPT !.word = Append(@, c), !.count = @ + 1] \in Lines(d)
    <2>1. PICK word : word = Append(s.word, c)
      OBVIOUS
    <2>2. PICK k : k = s.count + 1
      OBVIOUS
    <2>3. word \in Seq(Chars) /\ k \in Int
      BY <1>1, <2>1, <2>2
    <2>4. [s EXCEPT !.word = word, !.count = k] \in Lines(d)
      BY <2>3 DEF Lines
    <2> QED
      BY <2>1, <2>2, <2>4
  <1>16. [d |-> e, part |-> part, line |-> line, word |-> <<>>, count |-> count] \in Lines(d)
    BY <1>7, <1>9, <1>11, <1>13 DEF Lines
  <1> QED
    BY <1>14, <1>15, <1>16

LEMMA LayoutTyped ==
    ASSUME NEW d \in Boards, NEW text \in Seq(Chars), NEW fieldLength \in Int,
           NEW first \in 1 .. Len(d.fields)
    PROVE  /\ Layout(d, text, fieldLength, first).d \in EditedAt(d)
           /\ Layout(d, text, fieldLength, first).part \in 1 .. Len(d.fields)
  <1>1. PICK n : n = Len(text)
    OBVIOUS
  <1>2. n \in Nat /\ \A k \in 1 .. n : text[k] \in Chars
    BY <1>1
  <1>3. PICK S : S = Lines(d)
    OBVIOUS
  <1>4. PICK x : x = [d |-> d, part |-> first, line |-> <<>>, word |-> <<>>, count |-> 0]
    OBVIOUS
  <1>5. x \in S
    <2>1. d \in Edited(d)
      BY DEF Edited
    <2> QED
      BY <1>3, <1>4, <2>1 DEF Lines
  <1>6. \A s \in S, k \in 1 .. n : LayoutStep(s, text[k], fieldLength) \in S
    BY <1>2, <1>3, LayoutStepTyped
  <1> DEFINE g == [s \in S \X Nat |-> IF s[2] \in 1 .. n
                                      THEN LayoutStep(s[1], text[s[2]], fieldLength) ELSE s[1]]
  <1>7. g \in StepsIn(S)
    <2>1. ASSUME NEW s \in S \X Nat PROVE g[s] \in S
      <3>1. s[1] \in S
        OBVIOUS
      <3> QED
        BY <1>6, <3>1
    <2> QED
      BY <2>1 DEF StepsIn
  <1>8. ASSUME NEW s \in S, NEW k \in 1 .. n
        PROVE  g[<<s, k>>] = LayoutStep(s, text[k], fieldLength)
    <2>1. <<s, k>> \in S \X Nat
      BY <1>2
    <2> QED
      BY <2>1
  <1> HIDE DEF g
  <1>9. PICK f : Iterated(f, S, x, g, n)
    BY <1>2, <1>5, <1>7, Recursion
  <1>10. /\ f \in [0 .. n -> S] /\ f[0] = x
         /\ \A k \in 1 .. n : f[k] = g[<<f[k - 1], k>>]
    BY <1>9 DEF Iterated
  <1>11. ASSUME NEW k \in 1 .. n PROVE f[k] = LayoutStep(f[k - 1], text[k], fieldLength)
    <2>1. k - 1 \in 0 .. n
      BY <1>2
    <2>2. f[k - 1] \in S
      BY <1>10, <2>1
    <2> QED
      BY <1>8, <1>10, <2>2
  <1> DEFINE at[k \in 0 .. n] == IF k = 0 THEN x
                                 ELSE LayoutStep(at[k - 1], text[k], fieldLength)
  <1>12. f = [k \in 0 .. n |-> IF k = 0 THEN x ELSE LayoutStep(f[k - 1], text[k], fieldLength)]
    <2>1. f = [k \in 0 .. n |-> f[k]]
      BY <1>10
    <2>2. \A k \in 0 .. n : k # 0 => k \in 1 .. n
      BY <1>2
    <2>3. \A k \in 0 .. n :
             f[k] = IF k = 0 THEN x ELSE LayoutStep(f[k - 1], text[k], fieldLength)
      BY <1>10, <1>11, <2>2
    <2> QED
      BY <2>1, <2>3, Zenon
  <1>13. at = [k \in 0 .. n |-> IF k = 0 THEN x
                                ELSE LayoutStep(at[k - 1], text[k], fieldLength)]
    BY <1>12
  <1>14. PICK end : end = at[n]
    OBVIOUS
  <1>15. Layout(d, text, fieldLength, first)
           = [d |-> PutLine(end.d, end.part, end.line \o end.word), part |-> end.part]
    BY <1>1, <1>4, <1>14 DEF Layout
  <1> HIDE DEF at
  <1>16. at[0] \in S
    BY <1>2, <1>5, <1>13
  <1>17. ASSUME NEW k \in 1 .. n, at[k - 1] \in S PROVE at[k] \in S
    <2>1. k \in 0 .. n /\ k # 0
      BY <1>2
    <2>2. at[k] = LayoutStep(at[k - 1], text[k], fieldLength)
      BY <1>13, <2>1
    <2> QED
      BY <1>6, <1>17, <2>2
  <1>18. \A k \in 0 .. n : at[k] \in S
    BY <1>2, <1>16, <1>17, AllFromZero
  <1>19. end \in Lines(d)
    BY <1>2, <1>3, <1>14, <1>18
  <1>20. /\ end.d \in Edited(d) /\ end.part \in 1 .. Len(d.fields)
         /\ end.line \o end.word \in Seq(Chars)
    BY <1>19 DEF Lines
  <1>21. end.d \in Boards /\ Len(end.d.fields) = Len(d.fields)
    BY <1>20, EditedFields
  <1>22. PutLine(end.d, end.part, end.line \o end.word) \in EditedAt(end.d)
    BY <1>20, <1>21, PutLineKeeps
  <1>23. EditedAt(end.d) = EditedAt(d)
    BY <1>20, Transitive
  <1> QED
    BY <1>15, <1>20, <1>22, <1>23

(* The parts behind the one the text ends in continue a field. *)
LEMMA BehindAre ==
    ASSUME NEW d \in Boards, NEW i \in 1 .. Len(d.fields)
    PROVE  Behind(d, i) \subseteq {j \in 1 .. Len(d.fields) : IsContinuation(d.fields[j])}
  <1>1. PICK n : n = NextIn(d, i)
    OBVIOUS
  <1>2. n \in 1 .. Len(d.fields)
    BY <1>1, ListIsCircular
  <1>3. PICK run : run = UpTo(d, n, LAMBDA j : d.fields[j].wordwrap)
    OBVIOUS
  <1>4. AlongList(d, n, Wrapping(d), run)
    BY <1>2, <1>3, PartsAre
  <1>5. PICK f : f = d.fields[n]
    OBVIOUS
  <1>6. CASE f.part = "last" \/ (f.wordwrap /\ f.part # "first")
    <2>1. IsContinuation(f)
      <3>1. f.wordwrap => Continues(f)
        BY <1>2, <1>5, BoardIs DEF IsFormat
      <3> QED
        BY <1>6, <3>1 DEF IsContinuation, Continues
    <2>2. ASSUME NEW m \in 1 .. Len(run)
          PROVE  run[m] \in 1 .. Len(d.fields) /\ IsContinuation(d.fields[run[m]])
      <3>1. run[m] \in 1 .. Len(d.fields) /\ Len(run) \in Nat
        BY <1>4, BoardIs DEF AlongList
      <3>2. CASE m = 1
        BY <1>4, <1>5, <2>1, <3>1, <3>2 DEF AlongList
      <3>3. CASE m # 1
        <4>1. m - 1 \in 1 .. Len(run) - 1 /\ m - 1 + 1 = m
          BY <3>1, <3>3
        <4>2. PICK k : k = run[m - 1]
          OBVIOUS
        <4>3. k \in Wrapping(d) /\ run[m] = NextIn(d, k)
          BY <1>4, <4>1, <4>2 DEF AlongList
        <4>4. k \in 1 .. Len(d.fields) /\ d.fields[k].wordwrap
          BY <4>3 DEF Wrapping
        <4>5. k < Len(d.fields) /\ IsContinuation(d.fields[k + 1])
          BY <4>4, BoardIs DEF IsFormat
        <4>6. run[m] = k + 1
          BY <4>3, <4>4, <4>5, BoardIs DEF NextIn
        <4> QED
          BY <3>1, <4>5, <4>6
      <3> QED
        BY <3>2, <3>3
    <2>3. DOMAIN run = 1 .. Len(run)
      BY <1>4 DEF AlongList
    <2>4. Behind(d, i) \subseteq {run[m] : m \in DOMAIN run}
      BY <1>1, <1>3, <1>5, <1>6 DEF Behind
    <2> QED
      BY <2>2, <2>3, <2>4
  <1>7. CASE ~(f.part = "last" \/ (f.wordwrap /\ f.part # "first"))
    BY <1>1, <1>3, <1>5, <1>7 DEF Behind
  <1> QED
    BY <1>6, <1>7

LEMMA ClearedKeeps ==
    ASSUME NEW d \in Ready, NEW i \in 1 .. Len(d.fields)
    PROVE  ClearedBehind(d, i) \in EditedAt(d)
  <1>1. PICK parts : parts = Behind(d, i)
    OBVIOUS
  <1>2. PICK n : n = Len(d.fields)
    OBVIOUS
  <1>3. d \in Boards /\ n \in Nat /\ d \in EditedAt(d)
    BY <1>2, BoardIs DEF Ready, EditedAt
  <1>4. parts \subseteq 1 .. n /\ \A j \in parts : IsContinuation(d.fields[j])
    BY <1>1, <1>2, <1>3, BehindAre
  <1>5. 1 \notin parts
    <2>1. 1 \in 1 .. n => ~IsContinuation(d.fields[1])
      BY <1>2, <1>3, BoardIs DEF IsFormat
    <2> QED
      BY <1>4, <2>1
  <1>6. CASE parts = {}
    BY <1>1, <1>3, <1>6 DEF ClearedBehind
  <1>7. CASE parts # {}
    <2>1. \E j \in parts : NextIn(d, j) \notin parts
      <3>1. parts \in SUBSET (0 .. n)
        BY <1>3, <1>4
      <3>2. PICK j : j = Largest(parts)
        OBVIOUS
      <3>3. j \in parts /\ \A k \in parts : k <= j
        BY <1>3, <1>7, <3>1, <3>2, LargestExists
      <3>4. j \in Nat
        <4>1. j \in 1 .. n
          BY <1>4, <3>3
        <4> QED
          BY <1>3, <4>1
      <3>5. j + 1 \notin parts
        <4> SUFFICES ASSUME j + 1 \in parts PROVE FALSE
          OBVIOUS
        <4>1. j + 1 <= j
          BY <3>3
        <4> QED
          BY <3>4, <4>1
      <3> QED
        BY <1>5, <3>3, <3>5 DEF NextIn
    <2>2. PICK last : last = CHOOSE j \in parts : NextIn(d, j) \notin parts
      OBVIOUS
    <2>3. last \in 1 .. Len(d.fields)
      BY <1>2, <1>4, <2>1, <2>2
    <2>4. PICK p : p = RightOf(EndPos(d.fields[last]), 1)
      OBVIOUS
    <2>5. p \in Cells
      <3>1. PICK e : e = EndPos(d.fields[last])
        OBVIOUS
      <3>2. e \in Cells
        BY <1>3, <2>3, <3>1, FieldsAre
      <3>3. 1 \in Int /\ p = RightOf(e, 1)
        BY <2>4, <3>1
      <3> QED
        BY <3>2, <3>3, CellMoves
    <2> DEFINE cells == UNION {FieldCells(d.fields[j]) : j \in parts}
               data == [q \in Cells |-> IF q \in cells THEN Nul ELSE d.data[q]]
    <2>6. ClearedBehind(d, i) = [d EXCEPT !.data = data, !.cur = p]
      BY <1>1, <1>7, <2>2, <2>4 DEF ClearedBehind
    <2> HIDE DEF cells
    <2>7. data \in [Cells -> Chars]
      BY <1>3, BoardIs, ConstantChars
    <2> HIDE DEF data
    <2>8. [d EXCEPT !.data = data, !.cur = p] \in EditedAt(d)
      BY <1>3, <2>5, <2>7, DataChanges
    <2> QED
      BY <2>6, <2>8
  <1> QED
    BY <1>6, <1>7

(* The cursor behind the text is on one of its characters, or stays. *)
LEMMA WrittenTyped ==
    ASSUME NEW d \in Boards, NEW i \in 1 .. Len(d.fields)
    PROVE  WrittenCells(d, d.fields[i]) \in Seq(Cells)
  <1>1. PICK f : f = d.fields[i]
    OBVIOUS
  <1>2. f.start \in Nat /\ f.len \in Nat /\ f.start + f.len <= Size /\ Size \in Nat
    BY <1>1, FieldsAre, ScreenSize
  <1>3. \A k \in 1 .. f.len : f.start + k - 1 \in Cells
    BY <1>2 DEF Cells
  <1>4. PICK texts : texts = [k \in 1 .. f.len |->
                                LET p == f.start + k - 1
                                IN IF d.data[p] # Nul THEN <<p>> ELSE <<>>]
    OBVIOUS
  <1>5. ASSUME NEW k \in 1 .. f.len PROVE texts[k] \in Seq(Cells)
    <2>1. PICK p : p = f.start + k - 1
      OBVIOUS
    <2>2. p \in Cells
      BY <1>3, <2>1
    <2>3. <<p>> \in Seq(Cells) /\ <<>> \in Seq(Cells)
      BY <2>2
    <2>4. texts[k] = IF d.data[p] # Nul THEN <<p>> ELSE <<>>
      BY <1>4, <2>1
    <2> QED
      BY <2>3, <2>4
  <1>6. Len(texts) = f.len
    BY <1>2, <1>4
  <1>7. WrittenCells(d, f) = Joined(texts)
    BY <1>4 DEF WrittenCells
  <1> QED
    BY <1>1, <1>2, <1>5, <1>6, <1>7, JoinedTyped

LEMMA EntryPartsAre ==
    ASSUME NEW d \in Boards, NEW first \in 1 .. Len(d.fields), NEW parts,
           parts = UpTo(d, first, LAMBDA j : /\ d.fields[NextIn(d, j)].entry = d.fields[first].entry
                                             /\ NextIn(d, j) # first)
    PROVE  Len(parts) \in Nat /\ \A m \in 1 .. Len(parts) : parts[m] \in 1 .. Len(d.fields)
  <1>1. PICK n : n = Len(d.fields)
    OBVIOUS
  <1>2. n \in Nat /\ n \in 1 .. n /\ DOMAIN d.fields = 1 .. n
    BY <1>1, BoardIs
  <1>3. PICK Go : Go = {j \in 1 .. n : /\ d.fields[NextIn(d, j)].entry = d.fields[first].entry
                                       /\ NextIn(d, j) # first}
    OBVIOUS
  <1>4. PICK out : out = PrevIn(d, first)
    OBVIOUS
  <1>5. out \in 1 .. n
    BY <1>1, <1>4, ListIsCircular
  <1>6. NextIn(d, out) = first
    BY <1>1, <1>2, <1>4, <1>5 DEF NextIn, PrevIn
  <1>7. out \notin Go
    BY <1>3, <1>6
  <1>8. PICK round : round = Walk([j \in DOMAIN d.fields |-> NextIn(d, j)], first, n)
    OBVIOUS
  <1>9. \A k \in DOMAIN round : round[k] \in 1 .. n
    <2>1. PICK step : step = [j \in DOMAIN d.fields |-> NextIn(d, j)]
      OBVIOUS
    <2>2. step \in [1 .. n -> 1 .. n]
      BY <1>1, <1>2, <2>1, ListIsCircular
    <2>3. PICK S : S = 1 .. n
      OBVIOUS
    <2>4. first \in S /\ step \in [S -> S] /\ n \in Nat
      BY <1>1, <1>2, <2>2, <2>3
    <2>5. /\ DOMAIN Walk(step, first, n) = 1 .. n + 1
          /\ \A k \in 1 .. n + 1 : Walk(step, first, n)[k] \in S
      BY <2>4, WalkStays
    <2> QED
      BY <1>8, <2>1, <2>3, <2>5
  <1>10. parts = LET ends == {k \in DOMAIN round : round[k] \notin Go}
                 IN SubSeq(round, 1, Smallest(ends))
    <2>1. {k \in DOMAIN round : round[k] \notin Go}
            = {k \in DOMAIN round : ~(/\ d.fields[NextIn(d, round[k])].entry = d.fields[first].entry
                                      /\ NextIn(d, round[k]) # first)}
      BY <1>3, <1>9
    <2> QED
      BY <1>1, <1>8, <2>1 DEF UpTo
  <1>11. AlongList(d, first, Go, parts)
    BY <1>1, <1>5, <1>7, <1>8, <1>10, ListLeadsAlong
  <1>12. Len(parts) \in 1 .. n + 1 /\ \A m \in 1 .. Len(parts) : parts[m] \in 1 .. n
    BY <1>1, <1>11 DEF AlongList
  <1>13. Len(parts) \in Nat
    BY <1>2, <1>12
  <1> QED
    BY <1>1, <1>12, <1>13

LEMMA CursorBehindMoves ==
    ASSUME NEW d \in Ready, NEW first \in 1 .. Len(d.fields), NEW count \in Nat
    PROVE  CursorBehind(d, first, count) \in Landing
  <1>1. PICK parts : parts = UpTo(d, first,
                               LAMBDA j : /\ d.fields[NextIn(d, j)].entry = d.fields[first].entry
                                          /\ NextIn(d, j) # first)
    OBVIOUS
  <1>2. PICK n : n = Len(parts)
    OBVIOUS
  <1>3. d \in Boards /\ d.cur \in Landing
    BY DEF Ready, Landing
  <1>4. n \in Nat /\ \A m \in 1 .. n : parts[m] \in 1 .. Len(d.fields)
    BY <1>1, <1>2, <1>3, EntryPartsAre
  <1>5. PICK texts : texts = [m \in 1 .. n |-> WrittenCells(d, d.fields[parts[m]])]
    OBVIOUS
  <1>6. Len(texts) = n /\ \A m \in 1 .. n : texts[m] \in Seq(Cells)
    BY <1>3, <1>4, <1>5, WrittenTyped
  <1>7. PICK all : all = Joined(texts)
    OBVIOUS
  <1>8. PICK S : S = Cells
    OBVIOUS
  <1>9. all \in Seq(S)
    BY <1>4, <1>6, <1>7, <1>8, JoinedTyped
  <1>10. PICK whole : whole = \A j \in DOMAIN d.fields : d.fields[j].entry = d.fields[first].entry
    OBVIOUS
  <1>11. CursorBehind(d, first, count)
           = IF count < Len(all) THEN all[count + 1]
             ELSE IF ~whole THEN d.cur
             ELSE IF all = <<>> THEN Hung ELSE all[(count % Len(all)) + 1]
    BY <1>1, <1>2, <1>5, <1>7, <1>10 DEF CursorBehind
  <1>12. count < Len(all) => all[count + 1] \in S
    BY <1>9
  <1>13. all # <<>> => all[(count % Len(all)) + 1] \in S
    <2>1. CASE all # <<>>
      <3>1. Len(all) \in Nat \ {0}
        BY <1>9, <2>1, EmptySeq
      <3>2. (count % Len(all)) + 1 \in 1 .. Len(all)
        BY <3>1
      <3> QED
        BY <1>9, <3>2
    <2> QED
      BY <2>1
  <1> QED
    BY <1>3, <1>8, <1>11, <1>12, <1>13 DEF Landing

LEMMA CursorChanges ==
    ASSUME NEW d \in Boards, NEW q \in Cells \cup {Hung}
    PROVE  /\ [d EXCEPT !.cur = q] \in Edited(d)
           /\ [d EXCEPT !.cur = q].cur = q
           /\ [d EXCEPT !.cur = q].fields = d.fields
  <1>1. 0 \in Cells /\ d.data \in [Cells -> Chars]
    BY ScreenSize, BoardIs
  <1>2. [d EXCEPT !.cur = q] \in Edited(d)
    BY <1>1, DataChanges
  <1>3. [d EXCEPT !.cur = q].cur = q /\ [d EXCEPT !.cur = q].fields = d.fields
    BY DEF Boards, Buffers
  <1> QED
    BY <1>2, <1>3

LEMMA WrapKeeps ==
    ASSUME NEW d \in Boards, NEW text \in Seq(Chars), NEW fieldLength \in Nat,
           NEW first \in 1 .. Len(d.fields), NEW here \in 1 .. Len(d.fields)
    PROVE  Wrap(d, text, fieldLength, first, here) \in Edited(d)
  <1>1. PICK n : n = (IF here = first THEN 0 ELSE fieldLength + 1)
                       + d.cur - d.fields[here].start
    OBVIOUS
  <1>2. n \in Int
    <2>1. d.cur \in Int
      BY BoardIs, HungIsNoCell, CellsRight
    <2>2. d.fields[here].start \in Int
      BY FieldsAre
    <2> QED
      BY <1>1, <2>1, <2>2
  <1>3. PICK before : before = {k \in 1 .. n : text[k] # Nul}
    OBVIOUS
  <1>4. PICK count : count = Cardinality(before)
    OBVIOUS
  <1>5. count \in Nat
    <2>1. 1 \in Int /\ IsFiniteSet(1 .. n) /\ before \subseteq 1 .. n
      BY <1>2, <1>3, FS_Interval
    <2>2. IsFiniteSet(before)
      BY <2>1, FS_Subset
    <2> QED
      BY <1>4, <2>2, FS_CardinalityType
  <1>6. PICK laid : laid = Layout(d, text, fieldLength, first)
    OBVIOUS
  <1>7. laid.d \in EditedAt(d) /\ laid.part \in 1 .. Len(d.fields)
    BY <1>6, LayoutTyped
  <1>8. laid.d \in Ready /\ laid.d \in Edited(d) /\ d \in Edited(d)
    BY <1>7, Transitive DEF EditedAt, Edited, Ready
  <1>9. Len(laid.d.fields) = Len(d.fields)
    BY <1>8, EditedFields
  <1>10. PICK cleared : cleared = ClearedBehind(laid.d, laid.part)
    OBVIOUS
  <1>11. cleared \in EditedAt(d)
    <2>1. cleared \in EditedAt(laid.d)
      BY <1>7, <1>8, <1>9, <1>10, ClearedKeeps
    <2>2. EditedAt(laid.d) = EditedAt(d)
      BY <1>8, Transitive
    <2> QED
      BY <2>1, <2>2
  <1>12. cleared \in Ready /\ cleared \in Edited(d) /\ cleared \in Boards
    BY <1>11 DEF EditedAt, Edited, Ready
  <1>13. Len(cleared.fields) = Len(d.fields)
    BY <1>12, EditedFields
  <1>14. PICK q : q = CursorBehind(cleared, first, count)
    OBVIOUS
  <1>15. q \in Cells \cup {Hung}
    BY <1>5, <1>12, <1>13, <1>14, CursorBehindMoves DEF Landing
  <1>16. Wrap(d, text, fieldLength, first, here) = [cleared EXCEPT !.cur = q]
    BY <1>1, <1>3, <1>4, <1>6, <1>10, <1>14 DEF Wrap
  <1>17. [cleared EXCEPT !.cur = q] \in Edited(cleared)
    BY <1>12, <1>15, CursorChanges
  <1>18. Edited(cleared) = Edited(d)
    BY <1>12, Transitive
  <1> QED
    BY <1>16, <1>17, <1>18

LEMMA AfterCharKeeps ==
    ASSUME NEW d \in Boards, NEW i
    PROVE  AfterChar(d, i) \in Edited(d)
  <1>1. PICK p : p = RightOf(d.cur, 1)
    OBVIOUS
  <1>2. PICK q : q = IF Col(p) > Col(EndPos(d.fields[i]))
                     THEN CursorNextField(d, LeftOf(p)) ELSE p
    OBVIOUS
  <1>3. d \in Edited(d)
    BY DEF Edited
  <1>4. CASE d.cur = Hung
    BY <1>3, <1>4 DEF AfterChar
  <1>5. CASE d.cur # Hung
    <2>1. d.cur \in Cells /\ 1 \in Int
      BY <1>5, BoardIs
    <2>2. p \in Cells
      BY <1>1, <2>1, CellMoves
    <2>3. LeftOf(p) \in Cells
      BY <2>2, CellMoves
    <2>4. q \in Cells \cup {Hung}
      BY <1>2, <2>2, <2>3, NextFieldMoves DEF Landing
    <2>5. AfterChar(d, i) = [d EXCEPT !.cur = q]
      BY <1>1, <1>2, <1>5 DEF AfterChar
    <2> QED
      BY <2>4, <2>5, CursorChanges
  <1> QED
    BY <1>4, <1>5

LEMMA WrapAndGoOnKeeps ==
    ASSUME NEW d \in Boards, NEW text \in Seq(Chars), NEW fieldLength \in Nat,
           NEW first \in 1 .. Len(d.fields), NEW here \in 1 .. Len(d.fields), NEW i
    PROVE  AfterChar(Wrap(d, text, fieldLength, first, here), i) \in Edited(d)
  <1>1. PICK e : e = Wrap(d, text, fieldLength, first, here)
    OBVIOUS
  <1>2. e \in Edited(d)
    BY <1>1, WrapKeeps
  <1>3. e \in Boards /\ Edited(e) = Edited(d)
    BY <1>2, Transitive DEF Edited
  <1>4. AfterChar(e, i) \in Edited(e)
    BY <1>3, AfterCharKeeps
  <1> QED
    BY <1>1, <1>3, <1>4

LEMMA FirstToWrapIs ==
    ASSUME NEW d \in Boards, NEW i \in 1 .. Len(d.fields)
    PROVE  FirstToWrap(d, i) \in 1 .. Len(d.fields)
  BY ListIsCircular DEF FirstToWrap

LEMMA WrapAddChKeeps ==
    ASSUME NEW d \in Boards, NEW i \in 1 .. Len(d.fields), NEW c \in Chars
    PROVE  WrapAddCh(d, i, c) \in Edited(d)
  <1>1. PICK e : e = [d EXCEPT !.data[d.cur] = c]
    OBVIOUS
  <1>2. 0 \in Cells
    BY ScreenSize
  <1>3. e \in Edited(d) /\ e.fields = d.fields
    <2>1. PICK p : p = d.cur
      OBVIOUS
    <2>2. [d EXCEPT !.data[p] = c] \in Edited(d)
      BY <1>2, CharWritten
    <2>3. [d EXCEPT !.data[p] = c].fields = d.fields
      BY DEF Boards, Buffers
    <2> QED
      BY <1>1, <2>1, <2>2, <2>3
  <1>4. e \in Boards /\ Edited(e) = Edited(d)
    BY <1>3, Transitive DEF Edited
  <1>5. PICK first : first = FirstToWrap(d, i)
    OBVIOUS
  <1>6. first \in 1 .. Len(e.fields) /\ i \in 1 .. Len(e.fields)
    BY <1>3, <1>5, FirstToWrapIs
  <1>7. PICK text : text = RunningText(e, first)
    OBVIOUS
  <1>8. text \in Seq(Chars)
    BY <1>4, <1>6, <1>7, RunningTextTyped
  <1>9. PICK len : len = d.fields[i].len
    OBVIOUS
  <1>10. len \in Nat
    BY <1>9, FieldsAre
  <1>11. AfterChar(Wrap(e, text, len, first, i), i) \in Edited(e)
    BY <1>4, <1>6, <1>8, <1>10, WrapAndGoOnKeeps
  <1>12. WrapAddCh(d, i, c) = AfterChar(Wrap(e, text, len, first, i), i)
    BY <1>1, <1>5, <1>7, <1>9 DEF WrapAddCh
  <1> QED
    BY <1>4, <1>11, <1>12

LEMMA WrapInsertKeeps ==
    ASSUME NEW d \in Boards, NEW i \in 1 .. Len(d.fields), NEW c \in Chars,
           d.cur \in FieldCells(d.fields[i])
    PROVE  WrapInsert(d, i, c) \in Edited(d)
  <1>1. PICK f : f = d.fields[i]
    OBVIOUS
  <1>2. PICK first : first = FirstToWrap(d, i)
    OBVIOUS
  <1>3. PICK part : part = PartCells(d, i)
    OBVIOUS
  <1>4. PICK n : n = CountLeft(f, d.cur)
    OBVIOUS
  <1>5. first \in 1 .. Len(d.fields) /\ NextIn(d, i) \in 1 .. Len(d.fields) /\ f.len \in Nat
    BY <1>1, <1>2, FirstToWrapIs, ListIsCircular, FieldsAre
  <1>6. part \in Seq(Chars) /\ Len(part) = f.len
    BY <1>1, <1>3, PartCellsTyped
  <1>7. n \in 0 .. f.len - 1
    <2>1. d.cur \in f.start .. EndPos(f) /\ f.start \in Nat /\ f.len \in Nat
      BY <1>1, FieldsAre
    <2> QED
      BY <1>4, <2>1 DEF CountLeft, EndPos
  <1>8. SubSeq(part, 1, n) \in Seq(Chars) /\ SubSeq(part, n + 1, Len(part)) \in Seq(Chars)
    BY <1>6, <1>7
  <1>9. /\ <<c>> \in Seq(Chars) /\ <<Nul>> \in Seq(Chars) /\ <<>> \in Seq(Chars)
        /\ PartCells(d, first) \in Seq(Chars) /\ RunningText(d, NextIn(d, i)) \in Seq(Chars)
    BY <1>5, PartCellsTyped, RunningTextTyped, ConstantChars
  <1>10. PICK text : text = (IF first = i THEN <<>> ELSE PartCells(d, first) \o <<Nul>>)
                            \o SubSeq(part, 1, n) \o <<c>> \o SubSeq(part, n + 1, Len(part))
                            \o <<Nul>> \o RunningText(d, NextIn(d, i))
    OBVIOUS
  <1>11. text \in Seq(Chars)
    BY <1>8, <1>9, <1>10
  <1>12. PICK cut : cut = SubSeq(text, 1, Len(text) - 1)
    OBVIOUS
  <1>13. cut \in Seq(Chars)
    BY <1>11, <1>12
  <1>14. WrapInsert(d, i, c) = AfterChar(Wrap(d, cut, f.len, first, i), i)
    BY <1>1, <1>2, <1>3, <1>4, <1>10, <1>12 DEF WrapInsert
  <1> QED
    BY <1>5, <1>13, <1>14, WrapAndGoOnKeeps

LEMMA WrapDeleteKeeps ==
    ASSUME NEW d \in Boards, NEW i \in 1 .. Len(d.fields), d.cur \in Cells
    PROVE  WrapDelete(d, i) \in Edited(d)
  <1>1. PICK end : end = EndPos(d.fields[i])
    OBVIOUS
  <1>2. end \in Cells
    BY <1>1, FieldsAre
  <1> DEFINE data == [p \in Cells |-> IF p \in d.cur .. end
                                      THEN IF p = end THEN Nul ELSE d.data[p + 1] ELSE d.data[p]]
  <1>3. \A p \in Cells : p \in d.cur .. end /\ p # end => p + 1 \in Cells
    BY <1>2, CellsRight, ScreenSize DEF Cells
  <1>4. data \in [Cells -> Chars]
    BY <1>3, BoardIs, ConstantChars
  <1>5. DelThisFieldOnly(d, i) = [d EXCEPT !.data = data]
    BY <1>1 DEF DelThisFieldOnly
  <1> HIDE DEF data
  <1>6. PICK e : e = DelThisFieldOnly(d, i)
    OBVIOUS
  <1>7. e \in Edited(d) /\ e.fields = d.fields
    <2>1. 0 \in Cells
      BY ScreenSize
    <2>2. [d EXCEPT !.data = data] \in Edited(d)
      BY <1>4, <2>1, DataChanges
    <2>3. [d EXCEPT !.data = data].fields = d.fields
      BY <1>4, <2>1, DataChanges
    <2> QED
      BY <1>5, <1>6, <2>2, <2>3
  <1>8. e \in Boards /\ Edited(e) = Edited(d)
    BY <1>7, Transitive DEF Edited
  <1>9. PICK text : text = RunningText(e, i)
    OBVIOUS
  <1>10. text \in Seq(Chars)
    BY <1>7, <1>8, <1>9, RunningTextTyped
  <1>11. PICK len : len = d.fields[i].len
    OBVIOUS
  <1>12. len \in Nat
    BY <1>11, FieldsAre
  <1>13. Wrap(e, text, len, i, i) \in Edited(e)
    BY <1>7, <1>8, <1>10, <1>12, WrapKeeps
  <1>14. WrapDelete(d, i) = Wrap(e, text, len, i, i)
    BY <1>6, <1>9, <1>11 DEF WrapDelete
  <1> QED
    BY <1>8, <1>13, <1>14

------------------------------------------------------------------------------
(* How a key ends. *)
Codes == {"none", "protect", "alpha_only", "num_only", "only_09", "data_disallowed",
          "sign_position", "no_room", "field_minus_disallowed", "fer", "dup_disallowed"}
Settled ==
    /\ screen \in Boards
    /\ phase \in {"input", "inhibited", "locked", "hung"}
    /\ phase # "hung" => screen.cur \in Cells
    /\ insert \in BOOLEAN /\ fer \in BOOLEAN /\ src \in Codes
    /\ aid \in {0} \cup FunctionKeys
Ended ==
    /\ screen' \in Edited(screen)
    /\ phase' \in {"input", "inhibited", "locked", "hung"}
    /\ phase' # "hung" => screen'.cur \in Cells
    /\ insert' \in BOOLEAN /\ src' \in Codes /\ aid' \in {0} \cup FunctionKeys

LEMMA DoneEnds ==
    ASSUME Settled, NEW d \in Edited(screen), Done(d)
    PROVE  Ended
  <1>1. d.cur \in Cells \cup {Hung}
    BY BoardIs DEF Edited
  <1>2. screen' = d /\ phase' = (IF d.cur = Hung THEN "hung" ELSE "input")
    BY DEF Done
  <1>3. insert' = insert /\ src' = src /\ aid' = aid
    BY DEF Done
  <1> QED
    BY <1>1, <1>2, <1>3 DEF Ended, Settled

LEMMA ErrorEnds ==
    ASSUME Settled, NEW d \in EditedAt(screen), NEW code \in Codes, ErrorOn(d, code)
    PROVE  Ended
  <1>1. d \in Edited(screen) /\ d.cur \in Cells
    BY DEF EditedAt, Edited, Ready
  <1> QED
    BY <1>1 DEF ErrorOn, Ended, Settled

LEMMA SendEnds ==
    ASSUME Settled, NEW d \in EditedAt(screen), NEW k \in {0} \cup FunctionKeys, SendFor(d, k)
    PROVE  Ended
  <1>1. d \in Edited(screen) /\ d.cur \in Cells
    BY DEF EditedAt, Edited, Ready
  <1> QED
    BY <1>1 DEF SendFor, Ended, Settled

(* Keys are acted upon with the cursor on the screen. *)
LEMMA KeyFinds ==
    ASSUME Settled, phase = "input"
    PROVE  /\ screen \in Boards /\ screen \in Ready /\ screen.cur \in Cells
           /\ screen \in EditedAt(screen) /\ screen \in Edited(screen)
           /\ Here # 0 => /\ Here \in 1 .. Len(screen.fields)
                          /\ screen.cur \in FieldCells(screen.fields[Here])
  <1>1. /\ screen \in Boards /\ screen \in Ready /\ screen.cur \in Cells
        /\ screen \in EditedAt(screen) /\ screen \in Edited(screen)
    BY DEF Settled, Ready, EditedAt, Edited
  <1>2. PICK i : i = Here
    OBVIOUS
  <1>3. i \in {0} \cup (1 .. Len(screen.fields))
    BY <1>1, <1>2, FieldFound DEF Here
  <1>4. i # 0 => HitTest(screen.fields[i], screen.cur)
    BY <1>1, <1>2, FieldFound DEF Here
  <1>5. i # 0 => i \in 1 .. Len(screen.fields) /\ screen.cur \in FieldCells(screen.fields[i])
    BY <1>1, <1>3, <1>4, FieldsAre
  <1> QED
    BY <1>1, <1>2, <1>5

LEMMA MoveEnds ==
    ASSUME Settled, phase = "input", NEW p \in Cells \cup {Hung}, Done(At(p))
    PROVE  Ended
  <1>1. At(p) \in Edited(screen)
    BY CursorChanges DEF At, Settled
  <1> QED
    BY <1>1, DoneEnds

LEMMA ErrorHereEnds ==
    ASSUME Settled, phase = "input", NEW code \in Codes, Error(code)
    PROVE  Ended
  BY KeyFinds, ErrorEnds DEF Error

(* Field Exit and the keys like it. *)
LEMMA LeaveEnds ==
    ASSUME Settled, NEW d \in EditedAt(screen), NEW i, Leave(d, i)
    PROVE  Ended
  <1>1. d \in Boards /\ d.cur \in Cells /\ d \in Ready /\ d \in Edited(screen)
    BY DEF EditedAt, Ready, Edited
  <1>2. CASE d.fields[i].auto_enter
    <2>1. SendFor(d, 0)
      BY <1>2 DEF Leave, Send
    <2> QED
      BY <2>1, SendEnds
  <1>3. CASE ~d.fields[i].auto_enter
    <2>1. PICK q : q = CursorNextLogicalField(d, d.cur)
      OBVIOUS
    <2>2. q \in Cells \cup {Hung}
      BY <1>1, <2>1, LogicalMoves DEF Landing
    <2>3. [d EXCEPT !.cur = q] \in Edited(d)
      BY <1>1, <2>2, CursorChanges
    <2>4. Edited(d) = Edited(screen)
      BY <1>1, Transitive
    <2>5. Done([d EXCEPT !.cur = q])
      BY <1>3, <2>1 DEF Leave
    <2> QED
      BY <2>3, <2>4, <2>5, DoneEnds
  <1> QED
    BY <1>2, <1>3

LEMMA PaddedHere ==
    ASSUME Settled, phase = "input", Here # 0
    PROVE  PadAndAdjust(screen, Here) \in EditedAt(screen)
  <1>1. screen \in Boards /\ Here \in 1 .. Len(screen.fields) /\ screen.cur \in Cells
    BY KeyFinds
  <1>2. PICK i : i = Here
    OBVIOUS
  <1>3. Kept(screen, PadAndAdjust(screen, i))
    BY <1>1, <1>2, PadKeeps
  <1> QED
    BY <1>1, <1>2, <1>3, KeptKeeps

LEMMA CharKept ==
    ASSUME NEW d, NEW e \in EditedAt(d), NEW p, NEW c \in Chars
    PROVE  [e EXCEPT !.data[p] = c] \in EditedAt(d)
  <1>1. e \in Boards /\ e.cur \in Cells /\ e \in Edited(d)
    BY DEF EditedAt, Ready, Edited
  <1>2. [e EXCEPT !.data[p] = c] \in Edited(e)
    BY <1>1, CharWritten
  <1>3. [e EXCEPT !.data[p] = c].cur = e.cur
    BY <1>1 DEF Boards, Buffers
  <1>4. Edited(e) = Edited(d)
    BY <1>1, Transitive
  <1> QED
    BY <1>1, <1>2, <1>3, <1>4 DEF Edited, EditedAt, Ready

LEMMA FieldExitEnds ==
    ASSUME Settled, phase = "input", FieldExitKey
    PROVE  Ended
  <1>1. CASE ~Enterable
    <2>1. "protect" \in Codes
      BY DEF Codes
    <2> QED
      BY <1>1, <2>1, ErrorHereEnds DEF FieldExitKey
  <1>2. CASE Enterable
    BY <1>2, PaddedHere, LeaveEnds DEF FieldExitKey, Enterable
  <1> QED
    BY <1>1, <1>2

LEMMA FieldPlusEnds ==
    ASSUME Settled, phase = "input", FieldPlusKey
    PROVE  Ended
  <1>1. CASE ~Enterable
    <2>1. "protect" \in Codes
      BY DEF Codes
    <2> QED
      BY <1>1, <2>1, ErrorHereEnds DEF FieldPlusKey
  <1>2. CASE Enterable
    <2>1. PICK d : d = PadAndAdjust(screen, Here)
      OBVIOUS
    <2>2. d \in EditedAt(screen)
      BY <1>2, <2>1, PaddedHere DEF Enterable
    <2>3. PICK end : end = EndPos(HereField)
      OBVIOUS
    <2>4. Nul \in Chars
      BY ConstantChars
    <2>5. [d EXCEPT !.data[end] = Nul] \in EditedAt(screen)
      BY <2>2, <2>4, CharKept
    <2>6. Leave(IF HereField.type = "signed_num" THEN [d EXCEPT !.data[end] = Nul] ELSE d, Here)
      BY <1>2, <2>1, <2>3 DEF FieldPlusKey
    <2> QED
      BY <2>2, <2>5, <2>6, LeaveEnds
  <1> QED
    BY <1>1, <1>2

LEMMA FieldMinusEnds ==
    ASSUME Settled, phase = "input", FieldMinusKey
    PROVE  Ended
  <1>1. PICK other : other = (Here = 0 \/ (Here # 0 /\ HereField.type \notin {"signed_num", "num_only"}))
    OBVIOUS
  <1>2. CASE other
    <2>1. "field_minus_disallowed" \in Codes
      BY DEF Codes
    <2>2. IF FieldMinusInChar THEN FieldExitKey ELSE Error("field_minus_disallowed")
      BY <1>1, <1>2 DEF FieldMinusKey
    <2> QED
      BY <2>1, <2>2, FieldExitEnds, ErrorHereEnds
  <1>3. CASE ~other
    <2>1. PICK d : d = PadAndAdjust(screen, Here)
      OBVIOUS
    <2>2. d \in EditedAt(screen)
      BY <1>1, <1>3, <2>1, PaddedHere
    <2>3. PICK end : end = EndPos(HereField)
      OBVIOUS
    <2>4. PICK c : c = IF HereField.type = "num_only" THEN Zoned(d.data[end]) ELSE Minus
      OBVIOUS
    <2>5. c \in Chars
      BY <2>4, ConstantChars
    <2>6. [d EXCEPT !.data[end] = c] \in EditedAt(screen)
      BY <2>2, <2>5, CharKept
    <2>7. Leave([d EXCEPT !.data[end] = IF HereField.type = "num_only"
                                        THEN Zoned(@) ELSE Minus], Here)
      BY <1>1, <1>3, <2>1, <2>3 DEF FieldMinusKey
    <2>8. Leave([d EXCEPT !.data[end] = c], Here)
      <3>1. [d EXCEPT !.data[end] = IF HereField.type = "num_only" THEN Zoned(@) ELSE Minus]
              = [d EXCEPT !.data[end] = c]
        BY <2>4
      <3> QED
        BY <2>7, <3>1
    <2> QED
      BY <2>6, <2>8, LeaveEnds
  <1> QED
    BY <1>2, <1>3

(* Typing, with or without field exit required. *)
FerSet ==
    /\ fer' \in BOOLEAN
    /\ fer' => /\ phase' \in {"input", "inhibited"}
               /\ \E i \in 1 .. Len(screen.fields) :
                     /\ ~screen.fields[i].bypass /\ screen.fields[i].fer
                     /\ screen'.cur = EndPos(screen.fields[i])

LEMMA TypeOverKeeps ==
    ASSUME NEW d \in Boards, NEW i \in 1 .. Len(d.fields), d.cur \in FieldCells(d.fields[i]),
           NEW c \in Chars
    PROVE  TypeOver(d, i, c) \in Edited(d)
  <1>1. WrapAddCh(d, i, c) \in Edited(d)
    BY WrapAddChKeeps
  <1>2. AddCh(d, c) \in Edited(d)
    <2>1. d.cur \in Cells /\ 1 \in Int
      BY FieldsAre
    <2>2. PICK p : p = d.cur
      OBVIOUS
    <2>3. PICK q : q = RightOf(p, 1)
      OBVIOUS
    <2>4. q \in Cells
      BY <2>1, <2>2, <2>3, CellMoves
    <2>5. [d EXCEPT !.data[p] = c, !.cur = q] \in EditedAt(d)
      BY <2>4, CharWritten
    <2>6. AddCh(d, c) = [d EXCEPT !.data[p] = c, !.cur = q]
      BY <2>2, <2>3 DEF AddCh
    <2> QED
      BY <2>5, <2>6 DEF EditedAt, Edited, Ready
  <1> QED
    BY <1>1, <1>2 DEF TypeOver

LEMMA InsertCharKeeps ==
    ASSUME NEW d \in Boards, NEW i \in 1 .. Len(d.fields), d.cur \in FieldCells(d.fields[i]),
           NEW c \in Chars
    PROVE  InsertChar(d, i, c) \in Edited(d)
  <1>1. WrapInsert(d, i, c) \in Edited(d)
    BY WrapInsertKeeps
  <1>2. PICK count : count = CountRight(d.fields[i], d.cur)
    OBVIOUS
  <1>3. Ins(d, i, c, count) \in Edited(d)
    BY <1>2, InsKeeps DEF EditedAt, Edited, Ready
  <1> QED
    BY <1>1, <1>2, <1>3 DEF InsertChar

LEMMA LeaveAtEndEnds ==
    ASSUME Settled, NEW d \in EditedAt(screen), NEW i \in 1 .. Len(d.fields), LeaveAtEnd(d, i)
    PROVE  Ended
  <1>1. d \in Boards /\ d.cur \in Cells /\ d \in Edited(screen)
    BY DEF EditedAt, Ready, Edited
  <1>2. PICK e : e = FieldAdjust(d, i)
    OBVIOUS
  <1>3. Kept(d, e)
    BY <1>1, <1>2, AdjustKeeps
  <1>4. e \in EditedAt(d)
    BY <1>1, <1>3, KeptKeeps
  <1>5. EditedAt(d) = EditedAt(screen)
    BY <1>1, Transitive
  <1>6. e \in EditedAt(screen) /\ e \in Boards /\ e.cur \in Cells /\ e \in Edited(screen)
    BY <1>4, <1>5 DEF EditedAt, Ready, Edited
  <1>7. PICK f : f = d.fields[i]
    OBVIOUS
  <1>8. CASE f.auto_enter
    <2>1. SendFor(e, 0)
      BY <1>2, <1>7, <1>8 DEF LeaveAtEnd, Send
    <2> QED
      BY <1>6, <2>1, SendEnds
  <1>9. CASE ~f.auto_enter
    <2>1. PICK q : q = IF f.nextfield # 0 THEN NextProgressionField(e, e.cur, f.nextfield)
                       ELSE CursorNextField(e, LeftOf(e.cur))
      OBVIOUS
    <2>2. LeftOf(e.cur) \in Cells
      BY <1>6, CellMoves
    <2>3. q \in Cells \cup {Hung}
      BY <1>6, <2>1, <2>2, NextFieldMoves DEF Landing
    <2>4. [e EXCEPT !.cur = q] \in Edited(e)
      BY <1>6, <2>3, CursorChanges
    <2>5. Edited(e) = Edited(screen)
      BY <1>6, Transitive
    <2>6. Done([e EXCEPT !.cur = q])
      BY <1>2, <1>7, <1>9, <2>1 DEF LeaveAtEnd
    <2> QED
      BY <2>4, <2>5, <2>6, DoneEnds
  <1> QED
    BY <1>8, <1>9

(* The end of a field that requires field exit. *)
LEMMA AtEndEnds ==
    ASSUME Settled, phase = "input", Enterable, HereField.fer,
           NEW d \in Edited(screen), Done([d EXCEPT !.cur = EndPos(HereField)]), fer' = TRUE
    PROVE  Ended /\ FerSet
  <1>1. PICK i : i = Here
    OBVIOUS
  <1>2. /\ i \in 1 .. Len(screen.fields) /\ screen \in Boards
        /\ ~screen.fields[i].bypass /\ screen.fields[i].fer
    BY <1>1, KeyFinds DEF Enterable, HereField
  <1>3. PICK q : q = EndPos(screen.fields[i])
    OBVIOUS
  <1>4. q \in Cells
    BY <1>2, <1>3, FieldsAre
  <1>5. d \in Boards /\ Edited(d) = Edited(screen)
    BY Transitive DEF Edited
  <1>6. PICK e : e = [d EXCEPT !.cur = q]
    OBVIOUS
  <1>7. e \in Edited(screen) /\ e.cur = q
    BY <1>4, <1>5, <1>6, CursorChanges
  <1>8. Done(e)
    BY <1>1, <1>3, <1>6 DEF HereField
  <1>9. Ended
    BY <1>7, <1>8, DoneEnds
  <1>10. screen'.cur = q /\ phase' = "input"
    BY <1>4, <1>7, <1>8, HungIsNoCell DEF Done
  <1> QED
    BY <1>2, <1>3, <1>9, <1>10 DEF FerSet

LEMMA PutCharEnds ==
    ASSUME Settled, phase = "input", fer = FALSE, Enterable, NEW c \in Chars, PutChar(c)
    PROVE  Ended /\ FerSet
  <1>1. PICK i : i = Here
    OBVIOUS
  <1>2. PICK f : f = HereField
    OBVIOUS
  <1>3. /\ i \in 1 .. Len(screen.fields) /\ screen \in Boards
        /\ screen.cur \in FieldCells(screen.fields[i])
    BY <1>1, KeyFinds DEF Enterable
  <1>4. PICK e : e = IF insert THEN InsertChar(screen, i, c) ELSE TypeOver(screen, i, c)
    OBVIOUS
  <1>5. e \in Edited(screen)
    BY <1>3, <1>4, InsertCharKeeps, TypeOverKeeps
  <1>6. PICK d : d = SetMdt(e, i)
    OBVIOUS
  <1>7. d \in Edited(screen)
    <2>1. e \in Boards /\ Edited(e) = Edited(screen)
      BY <1>5, Transitive DEF Edited
    <2> QED
      BY <1>6, <2>1, MarkKeeps
  <1>8. /\ CharError(f.type) \in Codes /\ "sign_position" \in Codes /\ "no_room" \in Codes
    BY DEF Codes, CharError
  <1>9. UNCHANGED fer => FerSet
    BY DEF FerSet
  <1>10. CASE ~ValidChar(f.type, c)
    <2>1. Error(CharError(f.type)) /\ UNCHANGED fer
      BY <1>2, <1>10 DEF PutChar, Placed
    <2> QED
      BY <1>8, <1>9, <2>1, ErrorHereEnds
  <1>11. CASE ValidChar(f.type, c) /\ f.type = "signed_num" /\ screen.cur = EndPos(f)
    <2>1. Error("sign_position") /\ UNCHANGED fer
      BY <1>2, <1>11 DEF PutChar, Placed
    <2> QED
      BY <1>8, <1>9, <2>1, ErrorHereEnds
  <1>12. CASE ValidChar(f.type, c) /\ ~(f.type = "signed_num" /\ screen.cur = EndPos(f))
    <2>1. CASE insert /\ NoRoom(screen, i)
      <3>1. Error("no_room") /\ UNCHANGED fer
        BY <1>1, <1>2, <1>12, <2>1 DEF PutChar, Placed
      <3> QED
        BY <1>8, <1>9, <3>1, ErrorHereEnds
    <2>2. CASE ~(insert /\ NoRoom(screen, i))
      <3>1. IF screen.cur # EndPos(f) \/ f.wordwrap \/ d.cur = Hung
            THEN Done(d) /\ UNCHANGED fer
            ELSE IF f.fer THEN Done([d EXCEPT !.cur = EndPos(f)]) /\ fer' = TRUE
            ELSE LeaveAtEnd(d, i) /\ UNCHANGED fer
        BY <1>1, <1>2, <1>4, <1>6, <1>12, <2>2 DEF PutChar, Placed
      <3>2. CASE screen.cur # EndPos(f) \/ f.wordwrap \/ d.cur = Hung
        BY <1>7, <1>9, <3>1, <3>2, DoneEnds
      <3>3. CASE ~(screen.cur # EndPos(f) \/ f.wordwrap \/ d.cur = Hung) /\ f.fer
        BY <1>2, <1>7, <3>1, <3>3, AtEndEnds
      <3>4. CASE ~(screen.cur # EndPos(f) \/ f.wordwrap \/ d.cur = Hung) /\ ~f.fer
        <4>1. LeaveAtEnd(d, i) /\ UNCHANGED fer
          BY <3>1, <3>4
        <4>2. d \in EditedAt(screen) /\ i \in 1 .. Len(d.fields)
          <5>1. d.cur \in Cells
            BY <1>7, <3>4, BoardIs DEF Edited
          <5>2. d \in EditedAt(screen)
            BY <1>7, <5>1, Transitive
          <5> QED
            BY <1>3, <1>7, <5>2, EditedFields
        <4> QED
          BY <1>9, <4>1, <4>2, LeaveAtEndEnds
      <3> QED
        BY <3>2, <3>3, <3>4
    <2> QED
      BY <2>1, <2>2
  <1> QED
    BY <1>10, <1>11, <1>12

LEMMA TypeEnds ==
    ASSUME Settled, NEW c \in Typed, Type(c)
    PROVE  Ended /\ FerSet
  <1>1. phase = "input" /\ fer = FALSE
    BY DEF Type, Refused, Settled
  <1>2. UNCHANGED fer => FerSet
    BY <1>1 DEF FerSet
  <1>3. CASE ~Enterable
    <2>1. "protect" \in Codes
      BY DEF Codes
    <2>2. Error("protect") /\ UNCHANGED fer
      BY <1>3 DEF Type
    <2> QED
      BY <1>1, <1>2, <2>1, <2>2, ErrorHereEnds
  <1>4. CASE Enterable
    <2>1. PICK typed : typed = IF HereField.monocase THEN Upcase(c) ELSE c
      OBVIOUS
    <2>2. typed \in Chars
      BY <2>1, FieldEditingAssumption, ConstantChars
    <2>3. PICK sign : sign = (SignKeyHack /\ HereField.type \in {"num_only", "signed_num"}
                              /\ c \in {Plus, Minus})
      OBVIOUS
    <2>4. CASE sign
      <3>1. (FieldPlusKey \/ FieldMinusKey) /\ UNCHANGED fer
        BY <1>4, <2>3, <2>4 DEF Type
      <3> QED
        BY <1>1, <1>2, <3>1, FieldPlusEnds, FieldMinusEnds
    <2>5. CASE ~sign
      <3>1. PutChar(typed)
        BY <1>4, <2>1, <2>3, <2>5 DEF Type
      <3> QED
        BY <1>1, <1>4, <2>2, <3>1, PutCharEnds
    <2> QED
      BY <2>4, <2>5
  <1> QED
    BY <1>3, <1>4

(* The other keys. *)
LEMMA DuplicateEnds ==
    ASSUME Settled, Duplicate
    PROVE  Ended /\ FerSet
  <1>1. phase = "input" /\ fer = FALSE
    BY DEF Duplicate, Refused, Settled
  <1>2. UNCHANGED fer => FerSet
    BY <1>1 DEF FerSet
  <1>3. "protect" \in Codes /\ "dup_disallowed" \in Codes
    BY DEF Codes
  <1>4. CASE ~Enterable
    <2>1. Error("protect") /\ UNCHANGED fer
      BY <1>4 DEF Duplicate
    <2> QED
      BY <1>1, <1>2, <1>3, <2>1, ErrorHereEnds
  <1>5. CASE Enterable
    <2>1. PICK i : i = Here
      OBVIOUS
    <2>2. PICK f : f = HereField
      OBVIOUS
    <2>3. /\ i \in 1 .. Len(screen.fields) /\ screen \in Boards /\ screen.cur \in Cells
      BY <1>1, <1>5, <2>1, KeyFinds DEF Enterable
    <2>4. PICK m : m = SetMdt(screen, i)
      OBVIOUS
    <2>5. Kept(screen, m)
      BY <2>3, <2>4, MarkKeeps DEF Kept
    <2>6. m \in Boards /\ m \in EditedAt(screen)
      BY <2>3, <2>5, KeptKeeps
    <2> DEFINE data == [p \in Cells |-> IF p \in screen.cur .. EndPos(f) THEN Dup ELSE m.data[p]]
    <2>7. PICK d : d = [m EXCEPT !.data = data]
      OBVIOUS
    <2>8. data \in [Cells -> Chars]
      BY <2>6, BoardIs, ConstantChars
    <2>9. PICK adjusted : adjusted = FieldAdjust(d, i)
      OBVIOUS
    <2>10. /\ ~f.dup_enable => ErrorOn(m, "dup_disallowed") /\ UNCHANGED fer
           /\ f.dup_enable /\ f.fer => Done([d EXCEPT !.cur = EndPos(f)]) /\ fer' = TRUE
           /\ f.dup_enable /\ ~f.fer /\ f.auto_enter => Send(adjusted) /\ UNCHANGED fer
           /\ f.dup_enable /\ ~f.fer /\ ~f.auto_enter =>
                /\ Done([adjusted EXCEPT !.cur = CursorNextField(adjusted, @)])
                /\ UNCHANGED fer
      BY <1>5, <2>1, <2>2, <2>4, <2>7, <2>9 DEF Duplicate
    <2> HIDE DEF data
    <2>11. Kept(m, d)
      BY <2>6, <2>7, <2>8, DataKept
    <2>12. Kept(screen, d) /\ d \in Edited(screen)
      BY <2>3, <2>5, <2>11, KeptKeeps DEF Kept
    <2>13. d \in Boards /\ i \in 1 .. Len(d.fields)
      BY <2>3, <2>12, EditedFields
    <2>14. Kept(d, adjusted)
      BY <2>9, <2>13, AdjustKeeps
    <2>15. Kept(screen, adjusted)
      BY <2>3, <2>12, <2>14, KeptKeeps
    <2>16. adjusted \in EditedAt(screen)
      BY <2>3, <2>15, KeptKeeps
    <2>17. CASE ~f.dup_enable
      BY <1>2, <1>3, <2>6, <2>10, <2>17, ErrorEnds
    <2>18. CASE f.dup_enable /\ f.fer
      BY <1>1, <1>5, <2>2, <2>10, <2>12, <2>18, AtEndEnds
    <2>19. CASE f.dup_enable /\ ~f.fer /\ f.auto_enter
      BY <1>2, <2>10, <2>16, <2>19, SendEnds DEF Send
    <2>20. CASE f.dup_enable /\ ~f.fer /\ ~f.auto_enter
      <3>1. PICK q : q = CursorNextField(adjusted, adjusted.cur)
        OBVIOUS
      <3>2. adjusted \in Boards /\ adjusted.cur \in Cells /\ adjusted \in Edited(screen)
        BY <2>16 DEF EditedAt, Edited, Ready
      <3>3. q \in Cells \cup {Hung}
        BY <3>1, <3>2, NextFieldMoves DEF Landing
      <3>4. [adjusted EXCEPT !.cur = q] \in Edited(adjusted)
        BY <3>2, <3>3, CursorChanges
      <3>5. Edited(adjusted) = Edited(screen)
        BY <3>2, Transitive
      <3>6. Done([adjusted EXCEPT !.cur = q]) /\ UNCHANGED fer
        BY <2>10, <2>20, <3>1
      <3> QED
        BY <1>2, <3>4, <3>5, <3>6, DoneEnds
    <2> QED
      BY <2>17, <2>18, <2>19, <2>20
  <1> QED
    BY <1>4, <1>5

LEMMA DeleteEnds ==
    ASSUME Settled, NEW d \in EditedAt(screen), DeleteKey(d)
    PROVE  Ended
  <1>1. d \in Boards /\ d.cur \in Cells /\ d \in Edited(screen) /\ Edited(d) = Edited(screen)
    BY Transitive DEF EditedAt, Ready, Edited
  <1>2. PICK i : i = FieldYX(d, d.cur)
    OBVIOUS
  <1>3. PICK f : f = d.fields[i]
    OBVIOUS
  <1>4. CASE i = 0 \/ (i # 0 /\ f.bypass)
    <2>1. "protect" \in Codes
      BY DEF Codes
    <2>2. ErrorOn(d, "protect")
      BY <1>2, <1>3, <1>4 DEF DeleteKey
    <2> QED
      BY <2>1, <2>2, ErrorEnds
  <1>5. CASE ~(i = 0 \/ (i # 0 /\ f.bypass))
    <2>1. PICK m : m = SetMdt(d, i)
      OBVIOUS
    <2>2. i \in 1 .. Len(d.fields) /\ d.cur \in FieldCells(f)
      <3>1. i \in {0} \cup (1 .. Len(d.fields)) /\ HitTest(f, d.cur)
        BY <1>1, <1>2, <1>3, <1>5, FieldFound
      <3> QED
        BY <1>1, <1>3, <1>5, <3>1, FieldsAre
    <2>3. m \in Edited(d) /\ m.cur = d.cur
      BY <1>1, <2>1, MarkKeeps
    <2>4. m \in Boards /\ Edited(m) = Edited(d)
      BY <2>3, Transitive DEF Edited
    <2>5. /\ i \in 1 .. Len(m.fields) /\ m.cur \in Cells
          /\ FieldCells(m.fields[i]) = FieldCells(f) /\ EndPos(m.fields[i]) = EndPos(f)
      BY <1>1, <1>3, <2>2, <2>3, EditedFields
    <2>6. PICK count : count = CountRight(f, d.cur)
      OBVIOUS
    <2>7. count = CountRight(m.fields[i], m.cur)
      BY <2>3, <2>5, <2>6 DEF CountRight
    <2>8. Del(m, i, count) \in EditedAt(m)
      BY <2>2, <2>3, <2>4, <2>5, <2>7, DelKeeps
    <2>9. Del(m, i, count) \in Edited(m)
      BY <2>8 DEF EditedAt, Edited, Ready
    <2>10. WrapDelete(m, i) \in Edited(m)
      BY <2>4, <2>5, WrapDeleteKeeps
    <2>11. Done(IF f.wordwrap THEN WrapDelete(m, i) ELSE Del(m, i, count))
      BY <1>2, <1>3, <1>5, <2>1, <2>6 DEF DeleteKey
    <2> QED
      BY <1>1, <2>4, <2>9, <2>10, <2>11, DoneEnds
  <1> QED
    BY <1>4, <1>5

LEMMA BackspaceEnds ==
    ASSUME Settled, Backspace
    PROVE  Ended
  <1>1. phase = "input"
    BY DEF Backspace, Refused
  <1>2. screen \in Boards /\ screen.cur \in Cells
    BY <1>1, KeyFinds
  <1>3. CASE Here = 0
    <2>1. "protect" \in Codes
      BY DEF Codes
    <2>2. Error("protect")
      BY <1>3 DEF Backspace
    <2> QED
      BY <1>1, <2>1, <2>2, ErrorHereEnds
  <1>4. CASE Here # 0
    <2>1. PICK p : p = BackspaceTo
      OBVIOUS
    <2>2. p \in Cells
      <3>1. PICK i : i = PrevField(screen, screen.cur)
        OBVIOUS
      <3>2. i \in {0} \cup (1 .. Len(screen.fields))
        BY <1>2, <3>1, FieldBehind DEF Found
      <3>3. i # 0 => EndPos(screen.fields[i]) \in Cells
        BY <1>2, <3>2, FieldsAre
      <3>4. LeftOf(screen.cur) \in Cells
        BY <1>2, CellMoves
      <3> QED
        BY <1>2, <2>1, <3>1, <3>3, <3>4 DEF BackspaceTo
    <2>3. At(p) \in EditedAt(screen)
      <3>1. screen.data \in [Cells -> Chars]
        BY <1>2, BoardIs
      <3>2. [screen EXCEPT !.cur = p] \in EditedAt(screen)
        BY <1>2, <2>2, <3>1, DataChanges
      <3> QED
        BY <3>2 DEF At
    <2>4. IF DestructiveBackspace THEN DeleteKey(At(p)) ELSE Done(At(p))
      BY <1>4, <2>1 DEF Backspace
    <2> QED
      BY <1>1, <2>2, <2>3, <2>4, DeleteEnds, MoveEnds
  <1> QED
    BY <1>3, <1>4

LEMMA EndEnds ==
    ASSUME Settled, End
    PROVE  Ended
  <1>1. phase = "input"
    BY DEF End, Refused
  <1>2. CASE ~Enterable
    <2>1. "protect" \in Codes
      BY DEF Codes
    <2>2. Error("protect")
      BY <1>2 DEF End
    <2> QED
      BY <1>1, <2>1, <2>2, ErrorHereEnds
  <1>3. CASE Enterable
    <2>1. PICK f : f = HereField
      OBVIOUS
    <2>2. /\ EndPos(f) \in Cells /\ f.start \in Cells /\ f.len \in Nat
      BY <1>1, <1>3, <2>1, KeyFinds, FieldsAre DEF Enterable, HereField
    <2>3. PICK used : used = {k \in 1 .. f.len - 1 : screen.data[f.start + k] # Nul}
      OBVIOUS
    <2>4. {0} \cup used \in SUBSET (0 .. f.len) /\ {0} \cup used # {}
      BY <2>2, <2>3
    <2>5. PICK n : n = Largest({0} \cup used) + 1
      OBVIOUS
    <2>6. n \in Int
      <3>1. Largest({0} \cup used) \in {0} \cup used
        BY <2>2, <2>4, LargestExists
      <3> QED
        BY <2>2, <2>4, <2>5, <3>1
    <2>7. PICK p : p = IF screen.data[EndPos(f)] # Nul THEN EndPos(f) ELSE RightOf(f.start, n)
      OBVIOUS
    <2>8. p \in Cells
      BY <2>2, <2>6, <2>7, CellMoves
    <2>9. Done(At(p))
      BY <1>3, <2>1, <2>3, <2>5, <2>7 DEF End
    <2> QED
      BY <1>1, <2>8, <2>9, MoveEnds
  <1> QED
    BY <1>2, <1>3

LEMMA MovingKeysEnd ==
    ASSUME Settled,
           \/ Left \/ Right \/ Up \/ Down \/ Tab \/ Backtab
           \/ Home \/ FieldHome \/ NewLine \/ WordKeys
    PROVE  Ended
  <1>1. phase = "input"
    BY DEF Left, Right, Up, Down, Tab, Backtab, Home, FieldHome, NewLine, WordKeys,
           Refused, Clearing
  <1>2. /\ screen \in Boards /\ screen.cur \in Cells
        /\ Here # 0 => Here \in 1 .. Len(screen.fields)
    BY <1>1, KeyFinds
  <1>3. Cells \subseteq Cells \cup {Hung} /\ Landing = Cells \cup {Hung}
    BY DEF Landing
  <1>4. Here # 0 => HereField.start \in Cells
    BY <1>2, FieldsAre DEF HereField
  <1>5. ASSUME NEW p \in Landing, Done(At(p)) PROVE Ended
    BY <1>1, <1>3, <1>5, MoveEnds
  <1>6. CASE Left
    BY <1>2, <1>3, <1>5, <1>6, CellMoves DEF Left
  <1>7. CASE Right
    <2>1. RightOf(screen.cur, 1) \in Cells
      <3>1. 1 \in Int
        OBVIOUS
      <3>2. PICK q : q = screen.cur
        OBVIOUS
      <3>3. RightOf(q, 1) \in Cells
        BY <1>2, <3>1, <3>2, CellMoves
      <3> QED
        BY <3>2, <3>3
    <2> QED
      BY <1>3, <1>5, <1>7, <2>1 DEF Right
  <1>8. CASE Up
    BY <1>2, <1>3, <1>5, <1>8, CellMoves DEF Up
  <1>9. CASE Down
    BY <1>2, <1>3, <1>5, <1>9, CellMoves DEF Down
  <1>10. CASE Tab
    BY <1>2, <1>5, <1>10, LogicalMoves DEF Tab
  <1>11. CASE Backtab
    <2>1. CursorPrevLogicalField(screen, screen.cur) \in Landing
      BY <1>2, LogicalMoves
    <2> QED
      BY <1>3, <1>4, <1>5, <1>11, <2>1 DEF Backtab
  <1>12. CASE Home
    BY <1>2, <1>3, <1>5, <1>12, StartsAreCells DEF Home
  <1>13. CASE FieldHome
    <2>1. "protect" \in Codes
      BY DEF Codes
    <2>2. CASE Enterable
      BY <1>3, <1>4, <1>5, <1>13, <2>2 DEF FieldHome, Enterable
    <2>3. CASE ~Enterable
      <3>1. Error("protect")
        BY <1>13, <2>3 DEF FieldHome
      <3> QED
        BY <1>1, <2>1, <3>1, ErrorHereEnds
    <2> QED
      BY <2>2, <2>3
  <1>14. CASE NewLine
    <2>1. PICK p : p = DownFrom(Row(screen.cur) * w)
      OBVIOUS
    <2>2. p \in Cells
      BY <1>2, <2>1, CellMoves
    <2>3. CursorNextField(screen, p) \in Landing
      BY <1>2, <2>2, NextFieldMoves
    <2>4. Done(At(CursorNextField(screen, p))) \/ Done(At(p))
      BY <1>14, <2>1 DEF NewLine
    <2> QED
      BY <1>3, <1>5, <2>2, <2>3, <2>4
  <1>15. CASE WordKeys
    <2>1. PICK p \in {PrevWord(screen, screen.cur), NextWord(screen, screen.cur),
                      PrevWordOrField(screen, screen.cur),
                      NextWordOrField(screen, screen.cur)} : Done(At(p))
      BY <1>15 DEF WordKeys
    <2>2. p \in Cells
      BY <1>2, <2>1, WordMoves
    <2> QED
      BY <1>3, <1>5, <2>1, <2>2
  <1> QED
    BY <1>6, <1>7, <1>8, <1>9, <1>10, <1>11, <1>12, <1>13, <1>14, <1>15

(* Every key. *)
LEMMA KeyEnds ==
    ASSUME Settled, FerAtFieldEnd, Key
    PROVE  Ended /\ FerSet
  <1>1. phase = "input" => screen \in EditedAt(screen) /\ screen \in Edited(screen)
    BY KeyFinds
  <1>2. UNCHANGED fer /\ ~fer => FerSet
    BY DEF FerSet, Settled
  <1>3. fer' = FALSE => FerSet
    BY DEF FerSet
  <1>4. 0 \in {0} \cup FunctionKeys /\ FunctionKeys \subseteq {0} \cup FunctionKeys
    OBVIOUS
  <1>5. CASE \E c \in Typed : Type(c)
    BY <1>5, TypeEnds
  <1>6. CASE FieldExit \/ FieldPlus \/ FieldMinus
    BY <1>3, <1>6, FieldExitEnds, FieldPlusEnds, FieldMinusEnds
       DEF FieldExit, FieldPlus, FieldMinus, Clearing
  <1>7. CASE Duplicate
    BY <1>7, DuplicateEnds
  <1>8. CASE Delete
    BY <1>1, <1>2, <1>8, DeleteEnds DEF Delete, Refused
  <1>9. CASE Backspace
    BY <1>2, <1>9, BackspaceEnds DEF Backspace, Refused
  <1>10. CASE Insert
    <2>1. phase = "input" /\ ~fer
      BY <1>10 DEF Insert, Refused
    <2>2. /\ screen' = screen /\ UNCHANGED fer /\ phase' = phase /\ src' = src /\ aid' = aid
          /\ insert' = ~insert
      BY <1>10 DEF Insert
    <2>3. screen \in Edited(screen) /\ screen.cur \in Cells
      BY <2>1, KeyFinds
    <2>4. Ended
      BY <2>1, <2>2, <2>3 DEF Ended, Settled
    <2> QED
      BY <1>2, <2>1, <2>2, <2>4
  <1>11. CASE Left \/ Home \/ FieldHome \/ NewLine \/ WordKeys
    <2>1. UNCHANGED fer /\ ~fer
      BY <1>11 DEF Left, Home, FieldHome, NewLine, WordKeys, Refused
    <2> QED
      BY <1>2, <1>11, <2>1, MovingKeysEnd
  <1>12. CASE Right \/ Up \/ Down \/ Tab \/ Backtab
    <2>1. fer' = FALSE
      BY <1>12 DEF Right, Up, Down, Tab, Backtab, Clearing
    <2> QED
      BY <1>3, <1>12, <2>1, MovingKeysEnd
  <1>13. CASE End
    BY <1>2, <1>13, EndEnds DEF End, Refused
  <1>14. CASE FieldExitRequiredError
    <2>1. phase = "input" /\ fer /\ Error("fer") /\ UNCHANGED fer
      BY <1>14 DEF FieldExitRequiredError
    <2>2. Ended
      <3>1. "fer" \in Codes
        BY DEF Codes
      <3> QED
        BY <2>1, <3>1, ErrorHereEnds
    <2>3. Here \in 1 .. Len(screen.fields)
      BY <2>1, KeyFinds DEF FerAtFieldEnd, Enterable
    <2>4. /\ ~screen.fields[Here].bypass /\ screen.fields[Here].fer
          /\ screen.cur = EndPos(screen.fields[Here])
      BY <2>1 DEF FerAtFieldEnd, Enterable, HereField
    <2>5. screen' = screen /\ phase' = "inhibited"
      BY <2>1 DEF Error, ErrorOn
    <2>6. PICK i : i = Here
      OBVIOUS
    <2>7. screen'.cur = EndPos(screen.fields[i])
      BY <2>4, <2>5, <2>6
    <2>8. fer' \in BOOLEAN
      BY <2>1 DEF Settled
    <2> QED
      BY <2>2, <2>3, <2>4, <2>5, <2>6, <2>7, <2>8 DEF FerSet
  <1>15. CASE FieldExitRequiredUndone \/ Reset
    <2>1. /\ screen' = screen /\ fer' = FALSE /\ insert' = insert /\ aid' = aid
          /\ phase \in {"input", "inhibited"} /\ phase' \in {"input", "inhibited"}
          /\ src' \in {src, "none"}
      BY <1>15 DEF FieldExitRequiredUndone, Reset
    <2>2. "none" \in Codes
      BY DEF Codes
    <2>3. screen \in Edited(screen) /\ screen.cur \in Cells
      BY <2>1 DEF Settled, Edited
    <2>4. Ended
      BY <2>1, <2>2, <2>3 DEF Ended, Settled
    <2> QED
      BY <1>3, <2>1, <2>4
  <1>16. CASE Enter
    BY <1>1, <1>3, <1>4, <1>16, SendEnds DEF Enter, Clearing, Send
  <1>17. CASE \E k \in FunctionKeys : Function(k)
    <2>1. PICK k \in FunctionKeys : Function(k)
      BY <1>17
    <2>2. phase = "input" /\ ~fer /\ SendFor(screen, k) /\ UNCHANGED fer
      BY <2>1 DEF Function, Refused
    <2> QED
      BY <1>1, <1>2, <1>4, <2>2, SendEnds
  <1> QED
    BY <1>5, <1>6, <1>7, <1>8, <1>9, <1>10, <1>11, <1>12, <1>13, <1>14, <1>15, <1>16, <1>17
       DEF Key

------------------------------------------------------------------------------
(* The host's answer. *)
LEMMA NulledKeeps ==
    ASSUME NEW d \in Boards, NEW cc1
    PROVE  Kept(d, Nulled(d, cc1)) /\ Nulled(d, cc1).fields = d.fields
  <1>1. PICK cells : Nulled(d, cc1)
                       = [d EXCEPT !.data = [p \in Cells |-> IF p \in cells THEN Nul ELSE @[p]]]
    BY DEF Nulled
  <1>2. PICK data : data = [p \in Cells |-> IF p \in cells THEN Nul ELSE d.data[p]]
    OBVIOUS
  <1>3. data \in [Cells -> Chars]
    BY <1>2, BoardIs, ConstantChars
  <1>4. Nulled(d, cc1) = [d EXCEPT !.data = data]
    BY <1>1, <1>2
  <1>5. [d EXCEPT !.data = data].fields = d.fields
    BY DEF Boards, Buffers
  <1> QED
    BY <1>3, <1>4, <1>5, DataKept

LEMMA Cc1Keeps ==
    ASSUME NEW d \in Boards, NEW cc1
    PROVE  Kept(d, HandleCc1(d, cc1))
  <1>1. PICK e : e = Nulled(d, cc1)
    OBVIOUS
  <1>2. Kept(d, e)
    BY <1>1, NulledKeeps
  <1>3. e \in Boards
    BY <1>2, KeptKeeps
  <1>4. PICK s : s = e.fields
    OBVIOUS
  <1>5. s \in Seq(Field) /\ IsFormat(s) /\ DOMAIN s = 1 .. Len(s) /\ Len(s) \in Nat
    BY <1>3, <1>4, BoardIs
  <1> DEFINE all == cc1 \in {"reset_all", "reset_all_null"}
             some == cc1 \in {"reset", "reset_null", "reset_null_modified"}
  <1>6. PICK t : t = [i \in DOMAIN s |-> IF all \/ (some /\ ~s[i].bypass)
                                         THEN [s[i] EXCEPT !.mdt = FALSE] ELSE s[i]]
    OBVIOUS
  <1>7. HandleCc1(d, cc1) = [e EXCEPT !.fields = t]
    BY <1>1, <1>4, <1>6 DEF HandleCc1, MdtReset
  <1> HIDE DEF all, some
  <1>8. \A i \in 1 .. Len(s) : s[i] \in Field
    BY <1>5
  <1>9. ASSUME NEW f \in Field
        PROVE  /\ [f EXCEPT !.mdt = FALSE] \in Field
               /\ [f EXCEPT !.mdt = FALSE].start = f.start /\ [f EXCEPT !.mdt = FALSE].len = f.len
               /\ [f EXCEPT !.mdt = FALSE].part = f.part
               /\ [f EXCEPT !.mdt = FALSE].wordwrap = f.wordwrap
               /\ [[f EXCEPT !.mdt = FALSE] EXCEPT !.mdt = FALSE] = [f EXCEPT !.mdt = FALSE]
    BY DEF Field
  <1>10. ASSUME NEW i \in 1 .. Len(s)
         PROVE  /\ t[i] \in Field /\ t[i].start = s[i].start /\ t[i].len = s[i].len
                /\ t[i].part = s[i].part /\ t[i].wordwrap = s[i].wordwrap
                /\ [t[i] EXCEPT !.mdt = FALSE] = [s[i] EXCEPT !.mdt = FALSE]
    BY <1>5, <1>6, <1>8, <1>9
  <1>11. t \in Seq(Field) /\ Len(t) = Len(s)
    BY <1>5, <1>6, <1>10
  <1>12. IsFormat(t)
    BY <1>5, <1>10, <1>11, SameGeometry
  <1>13. PICK m : m = [e EXCEPT !.fields = t]
    OBVIOUS
  <1>14. m \in Boards /\ m.fields = t /\ m.cur = e.cur
    BY <1>3, <1>11, <1>12, <1>13 DEF Boards, Buffers
  <1>15. FormatOf(m) = FormatOf(e)
    <2>1. FormatOf(m) = [i \in 1 .. Len(s) |-> [t[i] EXCEPT !.mdt = FALSE]]
      <3>1. DOMAIN t = 1 .. Len(s)
        BY <1>5, <1>11
      <3> QED
        BY <1>14, <3>1 DEF FormatOf
    <2>2. FormatOf(e) = [i \in 1 .. Len(s) |-> [s[i] EXCEPT !.mdt = FALSE]]
      BY <1>4, <1>5 DEF FormatOf
    <2> QED
      BY <1>10, <2>1, <2>2
  <1>16. Kept(e, m)
    BY <1>14, <1>15 DEF Kept, Edited
  <1>17. Kept(d, m)
    BY <1>2, <1>16, KeptKeeps
  <1> QED
    BY <1>7, <1>13, <1>17

LEMMA AnswerKeeps ==
    ASSUME Settled, NEW cc1, HostAnswers(cc1)
    PROVE  /\ Ended /\ phase' = "input" /\ UNCHANGED fer
           /\ unseen' \subseteq unseen \cup Logical(screen)
  <1>1. screen \in Boards
    BY DEF Settled
  <1>2. PICK d : d = HandleCc1(screen, cc1)
    OBVIOUS
  <1>3. d \in Edited(screen) /\ d \in Boards /\ Edited(d) = Edited(screen)
    BY <1>1, <1>2, Cc1Keeps, Transitive DEF Kept, Edited
  <1>4. PICK q : q = CursorHome(d)
    OBVIOUS
  <1>5. q \in Cells
    BY <1>3, <1>4, StartsAreCells
  <1>6. screen' = [d EXCEPT !.cur = q]
    BY <1>2, <1>4 DEF HostAnswers
  <1>7. screen' \in Edited(screen) /\ screen'.cur \in Cells
    <2>1. q \in Cells \cup {Hung}
      BY <1>5
    <2>2. [d EXCEPT !.cur = q] \in Edited(d) /\ [d EXCEPT !.cur = q].cur = q
      BY <1>3, <2>1, CursorChanges
    <2> QED
      BY <1>3, <1>5, <1>6, <2>2
  <1>8. phase' = "input" /\ aid' = 0 /\ UNCHANGED <<insert, fer, src>>
    BY DEF HostAnswers
  <1>9. Ended
    BY <1>7, <1>8 DEF Ended, Settled
  <1>10. ClearedForHost(cc1) \subseteq Logical(screen)
    BY DEF ClearedForHost
  <1>11. unseen' \subseteq unseen \cup Logical(screen)
    BY <1>10 DEF HostAnswers
  <1> QED
    BY <1>8, <1>9, <1>11

------------------------------------------------------------------------------
(* The screen at the start. *)
Built(d, format, k) ==
    /\ d \in Buffers /\ Len(d.fields) = k
    /\ \A j \in 1 .. k : /\ d.fields[j].start = format[j].start
                         /\ d.fields[j].len = format[j].len
                         /\ d.fields[j].part = format[j].part
                         /\ d.fields[j].wordwrap = format[j].wordwrap
                         /\ d.fields[j].bypass = format[j].bypass
                         /\ d.fields[j].type = format[j].type

LEMMA AddFieldTyped ==
    ASSUME NEW d \in Buffers, NEW f \in Field
    PROVE  /\ AddField(d, f) \in Buffers
           /\ \E e \in Field : /\ AddField(d, f).fields = Append(d.fields, e)
                               /\ e.start = f.start /\ e.len = f.len
                               /\ e.part = f.part /\ e.wordwrap = f.wordwrap
                               /\ e.bypass = f.bypass /\ e.type = f.type
  <1>1. PICK n : n = d.entries + (IF f.part \in {"middle", "last"} THEN 0 ELSE 1)
    OBVIOUS
  <1>2. n \in Nat
    BY <1>1 DEF Buffers
  <1>3. PICK e : e = [f EXCEPT !.entry = n]
    OBVIOUS
  <1>4. /\ e \in Field /\ e.start = f.start /\ e.len = f.len
        /\ e.part = f.part /\ e.wordwrap = f.wordwrap
        /\ e.bypass = f.bypass /\ e.type = f.type
    BY <1>2, <1>3 DEF Field
  <1>5. PICK s : s = Append(d.fields, e)
    OBVIOUS
  <1>6. d.fields \in Seq(Field)
    BY DEF Buffers
  <1>7. s \in Seq(Field)
    BY <1>4, <1>5, <1>6
  <1>8. AddField(d, f) = [d EXCEPT !.fields = s, !.entries = n]
    BY <1>1, <1>3, <1>5 DEF AddField
  <1>9. /\ [d EXCEPT !.fields = s, !.entries = n] \in Buffers
        /\ [d EXCEPT !.fields = s, !.entries = n].fields = s
    BY <1>2, <1>7 DEF Buffers
  <1> QED
    BY <1>4, <1>5, <1>8, <1>9

LEMMA OneMoreBuilt ==
    ASSUME NEW format \in Seq(Field), NEW k \in 1 .. Len(format), NEW d,
           Built(d, format, k - 1)
    PROVE  Built(AddField(d, format[k]), format, k)
  <1>1. PICK f : f = format[k]
    OBVIOUS
  <1>2. f \in Field /\ k \in Nat /\ k - 1 \in Nat
    BY <1>1
  <1>3. d \in Buffers /\ Len(d.fields) = k - 1 /\ d.fields \in Seq(Field)
    BY DEF Built, Buffers
  <1>4. PICK b : b = AddField(d, f)
    OBVIOUS
  <1>5. b \in Buffers
    BY <1>2, <1>3, <1>4, AddFieldTyped
  <1>6. PICK e \in Field : /\ b.fields = Append(d.fields, e)
                           /\ e.start = f.start /\ e.len = f.len
                           /\ e.part = f.part /\ e.wordwrap = f.wordwrap
                           /\ e.bypass = f.bypass /\ e.type = f.type
    BY <1>2, <1>3, <1>4, AddFieldTyped
  <1>7. Len(b.fields) = k
    BY <1>2, <1>3, <1>6
  <1>8. b.fields[k] = e
    BY <1>2, <1>3, <1>6
  <1>9. ASSUME NEW j \in 1 .. k - 1 PROVE b.fields[j] = d.fields[j]
    BY <1>2, <1>3, <1>6
  <1>10. ASSUME NEW j \in 1 .. k
         PROVE  /\ b.fields[j].start = format[j].start /\ b.fields[j].len = format[j].len
                /\ b.fields[j].part = format[j].part
                /\ b.fields[j].wordwrap = format[j].wordwrap
                /\ b.fields[j].bypass = format[j].bypass
                /\ b.fields[j].type = format[j].type
    <2>1. CASE j = k
      BY <1>1, <1>6, <1>8, <2>1
    <2>2. CASE j # k
      <3>1. j \in 1 .. k - 1
        BY <1>2, <2>2
      <3> QED
        BY <1>9, <3>1 DEF Built
    <2> QED
      BY <2>1, <2>2
  <1> QED
    BY <1>1, <1>4, <1>5, <1>7, <1>10 DEF Built

LEMMA ScreenBuilt ==
    ASSUME NEW format, IsFormat(format), NEW text \in [Cells -> Chars]
    PROVE  Screen(format, text) \in Ready /\ Built(Screen(format, text), format, Len(format))
  <1>1. PICK n : n = Len(format)
    OBVIOUS
  <1>2. format \in Seq(Field) /\ n \in Nat /\ \A k \in 1 .. n : format[k] \in Field
    BY <1>1 DEF IsFormat
  <1>3. PICK S : S = Buffers
    OBVIOUS
  <1>4. PICK x : x = Cleared
    OBVIOUS
  <1>5. x \in S /\ Built(x, format, 0)
    <2>1. [p \in Cells |-> Nul] \in [Cells -> Chars]
      BY ConstantChars
    <2>2. x \in Buffers /\ x.fields = <<>>
      BY <1>4, <2>1, ScreenSize DEF Cleared, Buffers
    <2> QED
      BY <1>3, <2>2 DEF Built
  <1>6. \A s \in S, k \in 1 .. n : AddField(s, format[k]) \in S
    BY <1>2, <1>3, AddFieldTyped
  <1> DEFINE g == [s \in S \X Nat |-> IF s[2] \in 1 .. n THEN AddField(s[1], format[s[2]])
                                      ELSE s[1]]
  <1>7. g \in StepsIn(S)
    <2>1. ASSUME NEW s \in S \X Nat PROVE g[s] \in S
      <3>1. s[1] \in S
        OBVIOUS
      <3> QED
        BY <1>6, <3>1
    <2> QED
      BY <2>1 DEF StepsIn
  <1>8. ASSUME NEW s \in S, NEW k \in 1 .. n PROVE g[<<s, k>>] = AddField(s, format[k])
    <2>1. <<s, k>> \in S \X Nat
      BY <1>2
    <2> QED
      BY <2>1
  <1> HIDE DEF g
  <1>9. PICK f : Iterated(f, S, x, g, n)
    BY <1>2, <1>5, <1>7, Recursion
  <1>10. /\ f \in [0 .. n -> S] /\ f[0] = x
         /\ \A k \in 1 .. n : f[k] = g[<<f[k - 1], k>>]
    BY <1>9 DEF Iterated
  <1>11. ASSUME NEW k \in 1 .. n PROVE f[k] = AddField(f[k - 1], format[k])
    <2>1. k - 1 \in 0 .. n
      BY <1>2
    <2>2. f[k - 1] \in S
      BY <1>10, <2>1
    <2> QED
      BY <1>8, <1>10, <2>2
  <1> DEFINE add[k \in 0 .. n] == IF k = 0 THEN x ELSE AddField(add[k - 1], format[k])
  <1>12. f = [k \in 0 .. n |-> IF k = 0 THEN x ELSE AddField(f[k - 1], format[k])]
    <2>1. f = [k \in 0 .. n |-> f[k]]
      BY <1>10
    <2>2. \A k \in 0 .. n : k # 0 => k \in 1 .. n
      BY <1>2
    <2>3. \A k \in 0 .. n : f[k] = IF k = 0 THEN x ELSE AddField(f[k - 1], format[k])
      BY <1>10, <1>11, <2>2
    <2> QED
      BY <2>1, <2>3, Zenon
  <1>13. add = [k \in 0 .. n |-> IF k = 0 THEN x ELSE AddField(add[k - 1], format[k])]
    BY <1>12
  <1>14. PICK d : d = add[n]
    OBVIOUS
  <1> DEFINE fields == {format[k] : k \in DOMAIN format}
             edges == UNION {{LeftOf(e.start), RightOf(EndPos(e), 1)} : e \in fields}
             data == [p \in Cells |-> IF p \in edges THEN Attr
                                      ELSE IF FieldYX(d, p) # 0 THEN text[p] ELSE Nul]
  <1>15. Screen(format, text) = [d EXCEPT !.data = data, !.cur = CursorHome(d)]
    BY <1>1, <1>4, <1>14 DEF Screen
  <1> HIDE DEF add, edges
  <1>16. data \in [Cells -> Chars]
    BY ConstantChars
  <1> HIDE DEF data
  <1> DEFINE T == {k \in Nat : k <= n => Built(add[k], format, k)}
  <1>17. 0 \in T
    BY <1>2, <1>5, <1>13
  <1>18. ASSUME NEW k \in Nat, k \in T PROVE k + 1 \in T
    <2> SUFFICES ASSUME k + 1 <= n PROVE Built(add[k + 1], format, k + 1)
      OBVIOUS
    <2>1. PICK m : m = k + 1
      OBVIOUS
    <2>2. m \in 1 .. n /\ m \in 0 .. n /\ m # 0 /\ m - 1 = k
      BY <1>2, <2>1
    <2>3. Built(add[m - 1], format, m - 1)
      BY <1>2, <1>18, <2>1, <2>2
    <2>4. add[m] = AddField(add[m - 1], format[m])
      BY <1>13, <2>2
    <2>5. Built(AddField(add[m - 1], format[m]), format, m)
      BY <1>1, <1>2, <2>2, <2>3, OneMoreBuilt
    <2> QED
      BY <2>1, <2>4, <2>5
  <1> HIDE DEF T
  <1>19. n \in T
    BY <1>2, <1>17, <1>18, Induction
  <1>20. Built(d, format, n)
    BY <1>2, <1>14, <1>19 DEF T
  <1>21. d \in Boards
    <2>1. d \in Buffers /\ Len(d.fields) = n /\ d.fields \in Seq(Field)
      BY <1>20 DEF Built, Buffers
    <2>2. IsFormat(d.fields)
      BY <1>1, <1>2, <1>20, <2>1, SameGeometry DEF Built
    <2> QED
      BY <2>1, <2>2 DEF Boards
  <1>22. PICK p : p = CursorHome(d)
    OBVIOUS
  <1>23. p \in Cells
    BY <1>21, <1>22, StartsAreCells
  <1>24. [d EXCEPT !.data = data, !.cur = p] \in EditedAt(d)
    BY <1>16, <1>21, <1>23, DataChanges
  <1>25. PICK e : e = Screen(format, text)
    OBVIOUS
  <1>26. e = [d EXCEPT !.data = data, !.cur = p]
    BY <1>15, <1>22, <1>25
  <1>27. e \in Ready
    BY <1>24, <1>26 DEF EditedAt
  <1>28. d \in Buffers /\ e \in Buffers
    BY <1>20, <1>27 DEF Built, Ready, Boards
  <1>29. e.fields = d.fields
    BY <1>26, <1>28 DEF Buffers
  <1>30. Built(e, format, n)
    BY <1>20, <1>28, <1>29 DEF Built
  <1> QED
    BY <1>1, <1>25, <1>27, <1>30

------------------------------------------------------------------------------
(* What the keys and the host keep: the screen and the record are whole, the  *)
(* changes the host has not seen are in fields of the format, and field exit  *)
(* is required only while the operator is to type, at the end of a field.     *)
IInv == /\ Settled
        /\ unseen \subseteq Logical(screen)
        /\ fer => phase \in {"input", "inhibited"}
        /\ FerAtFieldEnd

LEMMA InitInvariant == Init => IInv
  <1> SUFFICES ASSUME Init PROVE IInv
    OBVIOUS
  <1>1. PICK format \in Formats, text \in Contents :
            screen = [Screen(format, text) EXCEPT !.header = HeaderOf[format]]
    BY DEF Init
  <1>2. IsFormat(format) /\ text \in [Cells -> Chars] /\ HeaderOf[format] \in Seq(0 .. 255)
    BY FieldEditingAssumption
  <1>3. PICK d : d = Screen(format, text)
    OBVIOUS
  <1>4. PICK header : header = HeaderOf[format]
    OBVIOUS
  <1>5. d \in Ready
    BY <1>2, <1>3, ScreenBuilt
  <1>6. screen = [d EXCEPT !.header = header]
    BY <1>1, <1>3, <1>4
  <1>7. screen \in Boards /\ screen.cur \in Cells
    BY <1>2, <1>4, <1>5, <1>6 DEF Ready, Boards, Buffers
  <1>8. /\ insert = FALSE /\ fer = FALSE /\ phase = "input" /\ src = "none"
        /\ aid = 0 /\ unseen = {}
    BY DEF Init
  <1>9. Settled
    BY <1>7, <1>8 DEF Settled, Codes
  <1> QED
    BY <1>8, <1>9 DEF IInv, FerAtFieldEnd

(* Marks apart, an edited screen has the same logical fields. *)
LEMMA SameLogical ==
    ASSUME NEW d \in Boards, NEW e \in Edited(d)
    PROVE  Logical(e) = Logical(d)
  <1>1. e \in Boards /\ Len(e.fields) = Len(d.fields)
    BY EditedFields
  <1>2. DOMAIN e.fields = 1 .. Len(d.fields) /\ DOMAIN d.fields = 1 .. Len(d.fields)
    BY <1>1, BoardIs
  <1>3. \A i \in 1 .. Len(d.fields) : e.fields[i].part = d.fields[i].part
    BY EditedFields
  <1> QED
    BY <1>2, <1>3 DEF Logical

LEMMA EndedSettles ==
    ASSUME Settled, Ended, fer' \in BOOLEAN
    PROVE  Settled'
  <1>1. screen' \in Boards
    BY DEF Ended, Edited
  <1> QED
    BY <1>1 DEF Ended, Settled

LEMMA KeyKeeps ==
    ASSUME IInv, Key, Observed
    PROVE  IInv'
  <1>1. Settled /\ FerAtFieldEnd /\ unseen \subseteq Logical(screen) /\ screen \in Boards
    BY DEF IInv, Settled
  <1>2. Ended /\ FerSet
    BY <1>1, KeyEnds
  <1>3. Settled'
    BY <1>1, <1>2, EndedSettles DEF FerSet
  <1>4. screen' \in Edited(screen)
    BY <1>2 DEF Ended
  <1>5. unseen' \subseteq Logical(screen')
    <2>1. unseen' \subseteq unseen \cup Logical(screen)
      BY DEF Observed
    <2>2. Logical(screen') = Logical(screen)
      BY <1>1, <1>4, SameLogical
    <2> QED
      BY <1>1, <2>1, <2>2
  <1>6. FerAtFieldEnd' /\ (fer' => phase' \in {"input", "inhibited"})
    <2> SUFFICES ASSUME fer' PROVE FerAtFieldEnd' /\ phase' \in {"input", "inhibited"}
      BY DEF FerAtFieldEnd
    <2>1. phase' \in {"input", "inhibited"}
      BY <1>2 DEF FerSet
    <2>2. PICK i \in 1 .. Len(screen.fields) :
              /\ ~screen.fields[i].bypass /\ screen.fields[i].fer
              /\ screen'.cur = EndPos(screen.fields[i])
      BY <1>2 DEF FerSet
    <2>3. PICK e : e = screen'
      OBVIOUS
    <2>4. e \in Edited(screen)
      BY <1>4, <2>3
    <2>5. /\ e \in Boards /\ i \in 1 .. Len(e.fields)
          /\ ~e.fields[i].bypass /\ e.fields[i].fer /\ e.cur = EndPos(e.fields[i])
      BY <1>1, <2>2, <2>3, <2>4, EditedFields
    <2>6. HitTest(e.fields[i], e.cur)
      BY <2>5, FieldsAre
    <2>7. FieldYX(e, e.cur) = i
      BY <2>5, <2>6, FieldFound
    <2>8. i # 0
      BY <1>1, <2>2, BoardIs
    <2>9. Here' = i
      BY <2>3, <2>7 DEF Here
    <2> QED
      BY <2>1, <2>3, <2>5, <2>8, <2>9 DEF FerAtFieldEnd, Enterable, HereField
  <1> QED
    BY <1>3, <1>5, <1>6 DEF IInv

LEMMA AnswerSettles ==
    ASSUME IInv, NEW cc1, HostAnswers(cc1)
    PROVE  IInv'
  <1>1. /\ Settled /\ unseen \subseteq Logical(screen) /\ screen \in Boards
        /\ phase = "locked" /\ (fer => phase \in {"input", "inhibited"}) /\ fer \in BOOLEAN
    BY DEF IInv, Settled, HostAnswers
  <1>2. /\ Ended /\ phase' = "input" /\ UNCHANGED fer
        /\ unseen' \subseteq unseen \cup Logical(screen)
    BY <1>1, AnswerKeeps
  <1>3. Settled'
    BY <1>1, <1>2, EndedSettles
  <1>4. Logical(screen') = Logical(screen)
    BY <1>1, <1>2, SameLogical DEF Ended
  <1>5. ~fer'
    BY <1>1, <1>2
  <1> QED
    BY <1>1, <1>2, <1>3, <1>4, <1>5 DEF IInv, FerAtFieldEnd

LEMMA StutterKeeps ==
    ASSUME IInv, UNCHANGED vars
    PROVE  IInv'
  BY DEF IInv, vars, Settled, FerAtFieldEnd, Enterable, HereField, Here, Logical

(* Every key (display.c:1273-1547), error, command and answer of the host     *)
(* leaves the screen whole, as IInv says.                                     *)
THEOREM Invariance == Spec => []IInv
  <1>1. IInv /\ [Next]_vars => IInv'
    BY KeyKeeps, AnswerSettles, StutterKeeps DEF Next
  <1> QED
    BY <1>1, InitInvariant, PTL DEF Spec

(* Every cell holds a byte, whatever is typed, inserted, deleted, adjusted   *)
(* or wrapped; no movement takes the cursor off the screen; the table keeps   *)
(* the fields the host defined (dbuffer.c, field.c, the keys of display.c).   *)
THEOREM EditingTypeCorrect == Spec => []TypeOK
  <1>1. IInv => TypeOK
    <2> SUFFICES ASSUME IInv PROVE TypeOK
      OBVIOUS
    <2>1. Settled /\ unseen \subseteq Logical(screen)
      BY DEF IInv
    <2>2. screen \in Boards
      BY <2>1 DEF Settled
    <2>3. /\ screen.data \in [Cells -> Chars] /\ screen.cur \in Cells \cup {Hung}
          /\ \A i \in DOMAIN screen.fields : screen.fields[i] \in Field
      BY <2>2, BoardIs
    <2> QED
      BY <2>1, <2>3 DEF TypeOK, Settled, Codes
  <1> QED
    BY <1>1, Invariance, PTL

(* When field exit is required, the cursor is at the end of a field that can  *)
(* be entered and requires it, whichever keys, errors and answers of the host *)
(* there were (display.c:1034, 1337-1374, 1814).                              *)
THEOREM FerRight == Spec => []FerAtFieldEnd
  <1>1. IInv => FerAtFieldEnd
    BY DEF IInv
  <1> QED
    BY <1>1, Invariance, PTL

------------------------------------------------------------------------------
(* Where keys write.  A format without word wrap, in which no number is       *)
(* protected and the parts of a field are protected together.                 *)
IsPlain(format) ==
    \A i \in DOMAIN format :
        /\ ~format[i].wordwrap
        /\ format[i].bypass => format[i].type \notin {"signed_num", "num_only"}
        /\ Continues(format[i]) => format[i + 1].bypass = format[i].bypass

PlainBoards == {d \in Boards : IsPlain(d.fields)}
Open(d) == UNION {FieldCells(d.fields[i]) : i \in NonBypass(d)}
SameBut(d, e) == \A p \in Cells : e.data[p] # d.data[p] => p \in Open(d)
Within(d, e) == e \in Edited(d) /\ SameBut(d, e)

LEMMA PlainBoardIs ==
    ASSUME NEW d \in PlainBoards
    PROVE  /\ d \in Boards /\ NonBypass(d) = {i \in 1 .. Len(d.fields) : ~d.fields[i].bypass}
           /\ \A i \in 1 .. Len(d.fields) :
                 /\ ~d.fields[i].wordwrap
                 /\ d.fields[i].bypass => d.fields[i].type \notin {"signed_num", "num_only"}
                 /\ Continues(d.fields[i]) => /\ i + 1 \in 1 .. Len(d.fields)
                                              /\ d.fields[i + 1].bypass = d.fields[i].bypass
  <1>1. d \in Boards /\ DOMAIN d.fields = 1 .. Len(d.fields) /\ Len(d.fields) \in Nat
    BY BoardIs DEF PlainBoards
  <1>2. \A i \in 1 .. Len(d.fields) : Continues(d.fields[i]) => i < Len(d.fields)
    BY <1>1, BoardIs DEF IsFormat
  <1>3. \A i \in 1 .. Len(d.fields) : Continues(d.fields[i]) => i + 1 \in 1 .. Len(d.fields)
    BY <1>1, <1>2
  <1> QED
    BY <1>1, <1>3 DEF PlainBoards, IsPlain, NonBypass

LEMMA EditedPlain ==
    ASSUME NEW d \in PlainBoards, NEW e \in Edited(d)
    PROVE  e \in PlainBoards /\ Open(e) = Open(d) /\ NonBypass(e) = NonBypass(d)
  <1>1. d \in Boards
    BY PlainBoardIs
  <1>2. /\ e \in Boards /\ Len(e.fields) = Len(d.fields)
        /\ \A i \in 1 .. Len(d.fields) :
              /\ e.fields[i].bypass = d.fields[i].bypass /\ e.fields[i].type = d.fields[i].type
              /\ e.fields[i].part = d.fields[i].part
              /\ e.fields[i].wordwrap = d.fields[i].wordwrap
              /\ FieldCells(e.fields[i]) = FieldCells(d.fields[i])
    BY <1>1, EditedFields
  <1>3. DOMAIN d.fields = 1 .. Len(d.fields) /\ DOMAIN e.fields = 1 .. Len(d.fields)
    BY <1>1, <1>2, BoardIs
  <1>4. NonBypass(e) = NonBypass(d) /\ NonBypass(d) \subseteq 1 .. Len(d.fields)
    BY <1>2, <1>3 DEF NonBypass
  <1>5. Open(e) = Open(d)
    BY <1>2, <1>4 DEF Open
  <1>6. IsPlain(e.fields)
    <2> SUFFICES ASSUME NEW i \in 1 .. Len(d.fields)
                 PROVE  /\ ~e.fields[i].wordwrap
                        /\ e.fields[i].bypass => e.fields[i].type \notin {"signed_num", "num_only"}
                        /\ Continues(e.fields[i]) => e.fields[i + 1].bypass = e.fields[i].bypass
      BY <1>3 DEF IsPlain
    <2>1. Continues(e.fields[i]) <=> Continues(d.fields[i])
      BY <1>2 DEF Continues
    <2>2. Continues(d.fields[i]) => /\ i + 1 \in 1 .. Len(d.fields)
                                    /\ d.fields[i + 1].bypass = d.fields[i].bypass
      BY PlainBoardIs
    <2>3. Continues(d.fields[i]) => e.fields[i + 1].bypass = d.fields[i + 1].bypass
      BY <1>2, <2>2
    <2> QED
      BY <1>2, <2>1, <2>2, <2>3, PlainBoardIs
  <1> QED
    BY <1>2, <1>4, <1>5, <1>6 DEF PlainBoards

LEMMA WithinKeeps ==
    ASSUME NEW d \in PlainBoards, NEW e, Within(d, e)
    PROVE  /\ e \in PlainBoards /\ e \in Edited(d) /\ Open(e) = Open(d) /\ Within(d, d)
           /\ \A t : Within(e, t) => Within(d, t)
           /\ \A i : Within(d, SetMdt(e, i)) /\ SetMdt(e, i).cur = e.cur
           /\ \A q \in Cells \cup {Hung} : Within(d, [e EXCEPT !.cur = q])
  <1>1. e \in Edited(d) /\ SameBut(d, e) /\ d \in Boards
    BY PlainBoardIs DEF Within
  <1>2. e \in PlainBoards /\ Open(e) = Open(d) /\ e \in Boards
    BY <1>1, EditedPlain, PlainBoardIs
  <1>3. Edited(e) = Edited(d)
    BY <1>1, Transitive
  <1>4. Within(d, d)
    BY <1>1 DEF Within, Edited, SameBut
  <1>5. ASSUME NEW t, t \in Edited(e), SameBut(e, t) PROVE Within(d, t)
    <2>1. \A p \in Cells : t.data[p] # d.data[p] => e.data[p] # d.data[p] \/ t.data[p] # e.data[p]
      OBVIOUS
    <2>2. SameBut(d, t)
      BY <1>1, <1>2, <1>5, <2>1 DEF SameBut
    <2> QED
      BY <1>3, <1>5, <2>2 DEF Within
  <1>6. ASSUME NEW t, t \in Edited(e), t.data = e.data PROVE Within(d, t)
    <2>1. SameBut(e, t)
      BY <1>6 DEF SameBut
    <2> QED
      BY <1>5, <1>6, <2>1
  <1>7. \A i : Within(d, SetMdt(e, i)) /\ SetMdt(e, i).cur = e.cur
    BY <1>2, <1>6, MarkKeeps
  <1>8. ASSUME NEW q \in Cells \cup {Hung} PROVE Within(d, [e EXCEPT !.cur = q])
    <2>1. [e EXCEPT !.cur = q] \in Edited(e) /\ [e EXCEPT !.cur = q].data = e.data
      BY <1>2, CursorChanges DEF Boards, Buffers
    <2> QED
      BY <1>6, <2>1
  <1> QED
    BY <1>1, <1>2, <1>4, <1>5, <1>7, <1>8 DEF Within

(* A screen with other cells, in fields that can be entered. *)
LEMMA WrittenWithin ==
    ASSUME NEW d \in PlainBoards, NEW data \in [Cells -> Chars],
           \A p \in Cells : p \notin Open(d) => data[p] = d.data[p]
    PROVE  /\ Within(d, [d EXCEPT !.data = data])
           /\ \A q \in Cells : Within(d, [d EXCEPT !.data = data, !.cur = q])
  <1>1. d \in Boards
    BY PlainBoardIs
  <1>2. ASSUME NEW q \in Cells
        PROVE  /\ [d EXCEPT !.data = data, !.cur = q] \in EditedAt(d)
               /\ [d EXCEPT !.data = data, !.cur = q].data = data
    BY <1>1, DataChanges DEF Boards, Buffers
  <1>3. [d EXCEPT !.data = data] \in Edited(d) /\ [d EXCEPT !.data = data].data = data
    BY <1>1, DataKept DEF Kept
  <1> QED
    BY <1>2, <1>3 DEF Within, SameBut, EditedAt, Edited, Ready

LEMMA OpenCells ==
    ASSUME NEW d \in PlainBoards, NEW i \in NonBypass(d)
    PROVE  FieldCells(d.fields[i]) \subseteq Open(d)
  BY DEF Open

LEMMA OneWithin ==
    ASSUME NEW d \in PlainBoards, NEW p \in Open(d), NEW c \in Chars
    PROVE  /\ Within(d, [d EXCEPT !.data[p] = c])
           /\ \A q \in Cells : Within(d, [d EXCEPT !.data[p] = c, !.cur = q])
           /\ [d EXCEPT !.data[p] = c].cur = d.cur
  <1>1. d \in Boards /\ d.data \in [Cells -> Chars]
    BY PlainBoardIs, BoardIs
  <1>2. PICK data : data = [d.data EXCEPT ![p] = c]
    OBVIOUS
  <1>3. data \in [Cells -> Chars] /\ \A q \in Cells : q \notin Open(d) => data[q] = d.data[q]
    BY <1>1, <1>2
  <1>4. [d EXCEPT !.data[p] = c] = [d EXCEPT !.data = data]
    BY <1>2
  <1>5. \A q : [d EXCEPT !.data[p] = c, !.cur = q] = [d EXCEPT !.data = data, !.cur = q]
    BY <1>2
  <1>6. [d EXCEPT !.data[p] = c].cur = d.cur
    BY <1>1 DEF Boards, Buffers
  <1> QED
    BY <1>3, <1>4, <1>5, <1>6, WrittenWithin

(* The parts that insertion and deletion go through are as open as the first. *)
LEMMA PartsOpen ==
    ASSUME NEW d \in PlainBoards, NEW i \in NonBypass(d), NEW parts,
           AlongList(d, i, Continuing(d), parts)
    PROVE  \A m \in 1 .. Len(parts) : parts[m] \in NonBypass(d)
  <1>1. /\ parts[1] = i /\ Len(parts) \in Nat \ {0} /\ Len(d.fields) \in Nat
        /\ \A m \in 1 .. Len(parts) - 1 : /\ parts[m] \in Continuing(d)
                                          /\ parts[m + 1] = NextIn(d, parts[m])
    BY PlainBoardIs, BoardIs DEF AlongList
  <1>2. ASSUME NEW k \in 2 .. Len(parts), parts[k - 1] \in NonBypass(d)
        PROVE  parts[k] \in NonBypass(d)
    <2>1. k - 1 \in 1 .. Len(parts) - 1 /\ (k - 1) + 1 = k
      BY <1>1
    <2>2. PICK j : j = parts[k - 1]
      OBVIOUS
    <2>3. j \in Continuing(d) /\ parts[k] = NextIn(d, j)
      BY <1>1, <2>1, <2>2
    <2>4. /\ j \in 1 .. Len(d.fields) /\ j + 1 \in 1 .. Len(d.fields)
          /\ d.fields[j + 1].bypass = d.fields[j].bypass
      BY <2>3, PlainBoardIs DEF Continuing
    <2>5. parts[k] = j + 1
      BY <1>1, <2>3, <2>4 DEF NextIn
    <2> QED
      BY <1>2, <2>2, <2>4, <2>5, PlainBoardIs
  <1>3. parts[1] \in NonBypass(d)
    BY <1>1
  <1> QED
    BY <1>1, <1>2, <1>3, AllFromOne

(* So are the parts of a field in the order of the table. *)
LEMMA PartsAlike ==
    ASSUME NEW d \in PlainBoards, NEW l \in Logical(d), NEW j \in PartsOf(d, l)
    PROVE  d.fields[j].bypass = d.fields[l].bypass
  <1>1. /\ Len(d.fields) \in Nat /\ l \in 1 .. Len(d.fields) /\ j \in 1 .. Len(d.fields)
    BY PlainBoardIs, BoardIs DEF Logical, PartsOf
  <1>2. CASE j = l
    BY <1>2
  <1>3. CASE j # l
    <2>1. /\ d.fields[l].part = "first" /\ j > l
          /\ \A k \in l + 1 .. j - 1 : d.fields[k].part = "middle"
      BY <1>3 DEF PartsOf
    <2>2. PICK n : n = j - l
      OBVIOUS
    <2>3. n \in Nat /\ l + n = j
      BY <1>1, <2>1, <2>2
    <2>4. PICK f : f = [k \in 0 .. n |-> d.fields[l + k].bypass]
      OBVIOUS
    <2>5. PICK S : S = {d.fields[l].bypass}
      OBVIOUS
    <2>6. f[0] \in S
      BY <1>1, <2>3, <2>4, <2>5
    <2>7. ASSUME NEW k \in 1 .. n, f[k - 1] \in S PROVE f[k] \in S
      <3>1. PICK m : m = l + (k - 1)
        OBVIOUS
      <3>2. m \in 1 .. Len(d.fields) /\ m \in l .. j - 1 /\ m + 1 = l + k /\ k - 1 \in 0 .. n
        BY <1>1, <2>3, <3>1
      <3>3. m = l \/ m \in l + 1 .. j - 1
        BY <1>1, <3>2
      <3>4. Continues(d.fields[m])
        BY <2>1, <3>3 DEF Continues
      <3>5. d.fields[m + 1].bypass = d.fields[m].bypass
        BY <3>2, <3>4, PlainBoardIs
      <3>6. f[k] = d.fields[m + 1].bypass /\ f[k - 1] = d.fields[m].bypass
        BY <2>4, <3>1, <3>2
      <3> QED
        BY <2>7, <3>5, <3>6
    <2>8. \A k \in 0 .. n : f[k] \in S
      BY <2>3, <2>6, <2>7, AllFromZero
    <2>9. f[n] \in S /\ f[n] = d.fields[j].bypass
      BY <2>3, <2>4, <2>8
    <2> QED
      BY <2>5, <2>9
  <1> QED
    BY <1>2, <1>3

------------------------------------------------------------------------------
(* Insertion, deletion and adjustment. *)
LEMMA ShiftedWithin ==
    ASSUME NEW d \in PlainBoards, NEW i \in NonBypass(d), d.cur \in FieldCells(d.fields[i]),
           NEW full, full = ShiftWay(d, i, CountRight(d.fields[i], d.cur)),
           NEW e \in AtEnd(full)
    PROVE  \A k \in 1 .. e : full[k].at \in Open(d)
  <1>1. d \in Boards /\ i \in 1 .. Len(d.fields)
    BY PlainBoardIs
  <1>2. PICK parts : parts = PartsFrom(d, i)
    OBVIOUS
  <1>3. \A k \in 1 .. e : \E m \in 1 .. Len(parts) : full[k].at \in FieldCells(d.fields[parts[m]])
    BY <1>1, <1>2, ShiftWayIs
  <1>4. \A m \in 1 .. Len(parts) : parts[m] \in NonBypass(d)
    BY <1>1, <1>2, PartsAre, PartsOpen
  <1> QED
    BY <1>3, <1>4 DEF Open

LEMMA DelWithin ==
    ASSUME NEW d \in PlainBoards, NEW i \in NonBypass(d), d.cur \in FieldCells(d.fields[i]),
           NEW count, count = CountRight(d.fields[i], d.cur)
    PROVE  Within(d, Del(d, i, count))
  <1>1. d \in Boards /\ i \in 1 .. Len(d.fields)
    BY PlainBoardIs
  <1>2. PICK full : full = ShiftWay(d, i, count)
    OBVIOUS
  <1>3. PICK e : e = Smallest(AtEnd(full))
    OBVIOUS
  <1>4. /\ Len(full) \in Nat /\ full \in Seq(Ats(d))
        /\ AtEnd(full) # {} /\ AtEnd(full) \in SUBSET (1 .. Len(full))
    BY <1>1, <1>2, ShiftWayIs
  <1>5. e \in AtEnd(full) /\ e \in 1 .. Len(full)
    <2>1. AtEnd(full) \in SUBSET Nat
      BY <1>4
    <2> QED
      BY <1>3, <1>4, <2>1, SmallestExists
  <1>6. PICK way : way = SubSeq(full, 1, e)
    OBVIOUS
  <1>7. DOMAIN way = 1 .. e /\ \A k \in 1 .. e : way[k] = full[k]
    BY <1>4, <1>5, <1>6, PrefixIs DEF BeginsAs
  <1>8. \A k \in DOMAIN way : way[k].at \in Open(d)
    BY <1>2, <1>5, <1>7, ShiftedWithin
  <1> DEFINE content(k) == IF k = Len(way) THEN Nul ELSE d.data[way[k + 1].at]
             steps(p) == {k \in DOMAIN way : way[k].at = p}
             data == [p \in Cells |-> IF steps(p) = {} THEN d.data[p]
                                      ELSE content(Largest(steps(p)))]
  <1>9. Del(d, i, count) = [d EXCEPT !.data = data]
    BY <1>2, <1>3, <1>6 DEF Del, DelAlong, Shifted
  <1> HIDE DEF content
  <1>10. \A p \in Cells : p \notin Open(d) => data[p] = d.data[p]
    BY <1>8
  <1> HIDE DEF data
  <1>11. PICK t : t = Del(d, i, count)
    OBVIOUS
  <1>12. t \in Edited(d)
    BY <1>1, <1>11, DelKeeps DEF EditedAt, Edited, Ready
  <1>13. t.data = data
    BY <1>1, <1>9, <1>11 DEF Boards, Buffers
  <1> QED
    BY <1>10, <1>11, <1>12, <1>13 DEF Within, SameBut

LEMMA InsWithin ==
    ASSUME NEW d \in PlainBoards, NEW i \in NonBypass(d), d.cur \in FieldCells(d.fields[i]),
           NEW count, count = CountRight(d.fields[i], d.cur), NEW c \in Chars
    PROVE  Within(d, Ins(d, i, c, count))
  <1>1. d \in Boards /\ i \in 1 .. Len(d.fields)
    BY PlainBoardIs
  <1>2. PICK full : full = ShiftWay(d, i, count)
    OBVIOUS
  <1>3. PICK e : e = Largest(AtEnd(full))
    OBVIOUS
  <1>4. /\ Len(full) \in Nat /\ full \in Seq(Ats(d))
        /\ AtEnd(full) # {} /\ AtEnd(full) \in SUBSET (1 .. Len(full))
    BY <1>1, <1>2, ShiftWayIs
  <1>5. e \in AtEnd(full) /\ e \in 1 .. Len(full)
    <2>1. AtEnd(full) \in SUBSET (0 .. Len(full))
      BY <1>4
    <2> QED
      BY <1>3, <1>4, <2>1, LargestExists
  <1>6. PICK way : way = SubSeq(full, 1, e)
    OBVIOUS
  <1>7. DOMAIN way = 1 .. e /\ \A k \in 1 .. e : way[k] = full[k]
    BY <1>4, <1>5, <1>6, PrefixIs DEF BeginsAs
  <1>8. \A k \in DOMAIN way : way[k].at \in Open(d)
    BY <1>2, <1>5, <1>7, ShiftedWithin
  <1> DEFINE content(k) == IF k = 1 THEN c ELSE d.data[way[k - 1].at]
             steps(p) == {k \in DOMAIN way : way[k].at = p}
             data == [p \in Cells |-> IF steps(p) = {} THEN d.data[p]
                                      ELSE content(Largest(steps(p)))]
  <1>9. Ins(d, i, c, count) = [d EXCEPT !.data = data, !.cur = RightOf(d.cur, 1)]
    BY <1>2, <1>3, <1>6 DEF Ins, InsAlong, Shifted
  <1> HIDE DEF content
  <1>10. \A p \in Cells : p \notin Open(d) => data[p] = d.data[p]
    BY <1>8
  <1> HIDE DEF data
  <1>11. PICK t : t = Ins(d, i, c, count)
    OBVIOUS
  <1>12. t \in Edited(d)
    BY <1>1, <1>11, InsKeeps DEF EditedAt, Edited, Ready
  <1>13. t.data = data
    BY <1>1, <1>9, <1>11 DEF Boards, Buffers
  <1> QED
    BY <1>10, <1>11, <1>12, <1>13 DEF Within, SameBut

LEMMA ShiftRightWithin ==
    ASSUME NEW d \in PlainBoards, NEW i \in NonBypass(d), NEW fill \in Chars
    PROVE  Within(d, ShiftRight(d, i, fill))
  <1>1. d \in Boards /\ i \in 1 .. Len(d.fields)
    BY PlainBoardIs
  <1>2. PICK f : f = d.fields[i]
    OBVIOUS
  <1>3. PICK end : end = IF f.type = "signed_num" THEN EndPos(f) - 1 ELSE EndPos(f)
    OBVIOUS
  <1> DEFINE text == {p \in f.start .. end : ~Empty(d.data[p])}
             gap == end - Largest(text)
             padded(p) == IF p < Smallest(text) THEN fill ELSE d.data[p]
             data == [p \in Cells |->
                        IF p \notin f.start .. end THEN d.data[p]
                        ELSE IF text = {} THEN fill
                        ELSE IF p - gap < f.start THEN fill ELSE padded(p - gap)]
  <1>4. ShiftRight(d, i, fill) = SetMdt([d EXCEPT !.data = data], i)
    BY <1>2, <1>3 DEF ShiftRight
  <1>5. f.start .. end \subseteq Open(d)
    <2>1. /\ FieldCells(f) = f.start .. EndPos(f) /\ f.start \in Nat /\ EndPos(f) \in Nat
          /\ FieldCells(f) \subseteq Open(d)
      BY <1>1, <1>2, FieldsAre, OpenCells
    <2> QED
      BY <1>3, <2>1
  <1> HIDE DEF text, gap, padded
  <1>6. \A p \in Cells : p \notin Open(d) => data[p] = d.data[p]
    BY <1>5
  <1> HIDE DEF data
  <1>7. PICK g : g = [d EXCEPT !.data = data]
    OBVIOUS
  <1>8. PICK t : t = ShiftRight(d, i, fill)
    OBVIOUS
  <1>9. t \in Edited(d) /\ t = SetMdt(g, i)
    BY <1>1, <1>4, <1>7, <1>8, ShiftRightKeeps DEF Kept
  <1>10. t.data = data
    BY <1>1, <1>7, <1>9 DEF SetMdt, Boards, Buffers
  <1> QED
    BY <1>6, <1>8, <1>9, <1>10 DEF Within, SameBut

LEMMA AdjustWithin ==
    ASSUME NEW d \in PlainBoards, NEW i \in NonBypass(d)
    PROVE  Within(d, FieldAdjust(d, i)) /\ FieldAdjust(d, i).cur = d.cur
  <1>1. d \in Boards /\ i \in 1 .. Len(d.fields) /\ Within(d, d)
    BY PlainBoardIs DEF Within, SameBut, Edited
  <1>2. Within(d, ShiftRight(d, i, "0")) /\ Within(d, ShiftRight(d, i, Blank))
    BY ConstantChars, ShiftRightWithin
  <1>3. PICK e : e = LET f == d.fields[i]
                         fill == IF f.type = "signed_num" THEN "right_blank" ELSE f.fill
                     IN CASE fill = "right_zero" -> ShiftRight(d, i, "0")
                          [] fill = "right_blank" -> ShiftRight(d, i, Blank)
                          [] OTHER -> d
    OBVIOUS
  <1>4. Within(d, e)
    BY <1>1, <1>2, <1>3
  <1>5. FieldAdjust(d, i) = SetMdt(e, i)
    BY <1>3 DEF FieldAdjust
  <1>6. FieldAdjust(d, i).cur = d.cur
    BY <1>1, AdjustKeeps DEF Kept
  <1> QED
    BY <1>4, <1>5, <1>6, WithinKeeps

LEMMA PadWithin ==
    ASSUME NEW d \in PlainBoards, NEW i \in NonBypass(d), d.cur \in FieldCells(d.fields[i])
    PROVE  Within(d, PadAndAdjust(d, i)) /\ PadAndAdjust(d, i).cur = d.cur
  <1> DEFINE f == d.fields[i]
             end == EndPos(f) - (IF f.type = "signed_num" THEN 1 ELSE 0)
             others == {k \in DOMAIN d.fields : k > i /\ \E l \in Logical(d) :
                           {i, k} \subseteq PartsOf(d, l)}
             rest == (d.cur .. end) \cup UNION {FieldCells(d.fields[j]) : j \in others}
             data == [p \in Cells |-> IF p \in rest THEN Nul ELSE d.data[p]]
  <1>1. PICK e : e = IF fer THEN d ELSE [d EXCEPT !.data = data]
    OBVIOUS
  <1>2. PadAndAdjust(d, i) = FieldAdjust(e, i)
    BY <1>1 DEF PadAndAdjust
  <1>3. d \in Boards /\ i \in 1 .. Len(d.fields) /\ ~d.fields[i].bypass
    BY PlainBoardIs
  <1>4. d.cur .. end \subseteq Open(d)
    <2>1. /\ FieldCells(f) = f.start .. EndPos(f) /\ f.start \in Nat /\ EndPos(f) \in Nat
          /\ FieldCells(f) \subseteq Open(d)
      BY <1>3, FieldsAre, OpenCells
    <2> QED
      BY <2>1
  <1>5. others \subseteq NonBypass(d)
    <2> SUFFICES ASSUME NEW k \in DOMAIN d.fields, NEW l \in Logical(d),
                        {i, k} \subseteq PartsOf(d, l)
                 PROVE  k \in NonBypass(d)
      OBVIOUS
    <2>1. d.fields[k].bypass = d.fields[l].bypass /\ d.fields[i].bypass = d.fields[l].bypass
      BY PartsAlike
    <2> QED
      BY <1>3, <2>1 DEF NonBypass
  <1> HIDE DEF others
  <1>6. rest \subseteq Open(d)
    BY <1>4, <1>5 DEF Open
  <1> HIDE DEF rest
  <1>7. data \in [Cells -> Chars] /\ \A p \in Cells : p \notin Open(d) => data[p] = d.data[p]
    BY <1>3, <1>6, BoardIs, ConstantChars
  <1> HIDE DEF data
  <1>8. Within(d, e)
    <2>1. Within(d, d)
      BY <1>3 DEF Within, SameBut, Edited
    <2> QED
      BY <1>1, <1>7, <2>1, WrittenWithin
  <1>9. e \in PlainBoards /\ i \in NonBypass(e)
    BY <1>8, EditedPlain DEF Within
  <1>10. Within(e, FieldAdjust(e, i))
    BY <1>9, AdjustWithin
  <1>11. PadAndAdjust(d, i).cur = d.cur
    BY <1>3, PadKeeps DEF Kept
  <1> QED
    BY <1>2, <1>8, <1>10, <1>11, WithinKeeps

------------------------------------------------------------------------------
(* The keys. *)
Plainly == Settled /\ phase = "input" /\ screen \in PlainBoards

LEMMA HereWithin ==
    ASSUME Plainly
    PROVE  /\ Within(screen, screen) /\ screen \in Boards /\ screen.cur \in Cells
           /\ Here # 0 => /\ Here \in 1 .. Len(screen.fields)
                          /\ screen.cur \in FieldCells(screen.fields[Here])
           /\ Enterable => /\ Here \in NonBypass(screen)
                           /\ EndPos(HereField) \in Open(screen) /\ EndPos(HereField) \in Cells
           /\ \A code : Error(code) => Within(screen, screen')
           /\ \A p \in Cells \cup {Hung} : Within(screen, At(p))
  <1>1. Settled /\ phase = "input" /\ screen \in PlainBoards
    BY DEF Plainly
  <1>2. /\ screen \in Boards /\ screen \in Edited(screen) /\ screen.cur \in Cells
        /\ Here # 0 => /\ Here \in 1 .. Len(screen.fields)
                       /\ screen.cur \in FieldCells(screen.fields[Here])
    BY <1>1, KeyFinds
  <1>3. Within(screen, screen)
    BY <1>2 DEF Within, SameBut
  <1>4. Enterable => /\ Here \in NonBypass(screen)
                     /\ EndPos(HereField) \in Open(screen) /\ EndPos(HereField) \in Cells
    <2> SUFFICES ASSUME Enterable
                 PROVE  /\ Here \in NonBypass(screen)
                        /\ EndPos(HereField) \in Open(screen) /\ EndPos(HereField) \in Cells
      OBVIOUS
    <2>1. PICK i : i = Here
      OBVIOUS
    <2>2. i \in NonBypass(screen) /\ i \in 1 .. Len(screen.fields)
      BY <1>1, <1>2, <2>1, PlainBoardIs DEF Enterable, HereField
    <2>3. EndPos(screen.fields[i]) \in FieldCells(screen.fields[i])
      BY <1>2, <2>2, FieldsAre
    <2>4. EndPos(screen.fields[i]) \in Open(screen) /\ EndPos(screen.fields[i]) \in Cells
      BY <1>1, <1>2, <2>2, <2>3, OpenCells, FieldsAre
    <2> QED
      BY <2>1, <2>2, <2>4 DEF HereField
  <1>5. \A code : Error(code) => Within(screen, screen')
    BY <1>3 DEF Error, ErrorOn
  <1>6. \A p \in Cells \cup {Hung} : Within(screen, At(p))
    BY <1>1, <1>3, WithinKeeps DEF At
  <1> QED
    BY <1>2, <1>3, <1>4, <1>5, <1>6

LEMMA LeaveWithin ==
    ASSUME Plainly, NEW d, Within(screen, d), d.cur \in Cells, NEW i, Leave(d, i)
    PROVE  Within(screen, screen')
  <1>1. screen \in PlainBoards /\ d \in Boards
    BY WithinKeeps, PlainBoardIs DEF Plainly
  <1>2. PICK q : q = CursorNextLogicalField(d, d.cur)
    OBVIOUS
  <1>3. q \in Cells \cup {Hung}
    BY <1>1, <1>2, LogicalMoves DEF Landing
  <1>4. screen' = d \/ screen' = [d EXCEPT !.cur = q]
    BY <1>2 DEF Leave, Send, SendFor, Done
  <1> QED
    BY <1>1, <1>3, <1>4, WithinKeeps

LEMMA PaddedWithin ==
    ASSUME Plainly, NEW i \in NonBypass(screen), i = Here
    PROVE  /\ Within(screen, PadAndAdjust(screen, i))
           /\ PadAndAdjust(screen, i).cur \in Cells
  <1>1. /\ screen \in PlainBoards /\ screen.cur \in FieldCells(screen.fields[i])
        /\ screen.cur \in Cells
    <2>1. i # 0
      BY PlainBoardIs DEF Plainly
    <2> QED
      BY <2>1, HereWithin DEF Plainly
  <1> QED
    BY <1>1, PadWithin

LEMMA FieldExitWithin ==
    ASSUME Plainly, FieldExitKey
    PROVE  Within(screen, screen')
  <1>1. CASE ~Enterable
    BY <1>1, HereWithin DEF FieldExitKey
  <1>2. CASE Enterable
    BY <1>2, HereWithin, PaddedWithin, LeaveWithin DEF FieldExitKey
  <1> QED
    BY <1>1, <1>2

(* A sign put at the end of a field after adjustment. *)
LEMMA SignWithin ==
    ASSUME Plainly, NEW d, Within(screen, d), d.cur \in Cells, NEW p \in Open(screen),
           NEW c \in Chars
    PROVE  Within(screen, [d EXCEPT !.data[p] = c]) /\ [d EXCEPT !.data[p] = c].cur \in Cells
  <1>1. screen \in PlainBoards /\ d \in PlainBoards /\ p \in Open(d)
    BY WithinKeeps DEF Plainly
  <1>2. PICK t : t = [d EXCEPT !.data[p] = c]
    OBVIOUS
  <1>3. Within(d, t) /\ t.cur = d.cur
    BY <1>1, <1>2, OneWithin
  <1>4. Within(screen, t)
    BY <1>1, <1>3, WithinKeeps
  <1> QED
    BY <1>2, <1>3, <1>4

LEMMA FieldPlusWithin ==
    ASSUME Plainly, FieldPlusKey
    PROVE  Within(screen, screen')
  <1>1. CASE ~Enterable
    BY <1>1, HereWithin DEF FieldPlusKey
  <1>2. CASE Enterable
    <2>1. PICK d : d = PadAndAdjust(screen, Here)
      OBVIOUS
    <2>2. Within(screen, d) /\ d.cur \in Cells
      BY <1>2, <2>1, HereWithin, PaddedWithin
    <2>3. PICK end : end = EndPos(HereField)
      OBVIOUS
    <2>4. Nul \in Chars /\ end \in Open(screen)
      BY <1>2, <2>3, ConstantChars, HereWithin
    <2>5. /\ Within(screen, [d EXCEPT !.data[end] = Nul])
          /\ [d EXCEPT !.data[end] = Nul].cur \in Cells
      BY <2>2, <2>4, SignWithin
    <2>6. Leave(IF HereField.type = "signed_num" THEN [d EXCEPT !.data[end] = Nul] ELSE d, Here)
      BY <1>2, <2>1, <2>3 DEF FieldPlusKey
    <2> QED
      BY <2>2, <2>5, <2>6, LeaveWithin
  <1> QED
    BY <1>1, <1>2

LEMMA FieldMinusWithin ==
    ASSUME Plainly, FieldMinusKey
    PROVE  Within(screen, screen')
  <1>1. PICK other : other = (Here = 0 \/ (Here # 0 /\ HereField.type \notin {"signed_num", "num_only"}))
    OBVIOUS
  <1>2. CASE other
    <2>1. IF FieldMinusInChar THEN FieldExitKey ELSE Error("field_minus_disallowed")
      BY <1>1, <1>2 DEF FieldMinusKey
    <2> QED
      BY <2>1, FieldExitWithin, HereWithin
  <1>3. CASE ~other
    <2>1. PICK d : d = PadAndAdjust(screen, Here)
      OBVIOUS
    <2>2. Enterable
      <3>1. Here \in 1 .. Len(screen.fields)
        BY <1>1, <1>3, HereWithin
      <3>2. PICK i : i = Here
        OBVIOUS
      <3>3. screen.fields[i].bypass => screen.fields[i].type \notin {"signed_num", "num_only"}
        BY <3>1, <3>2, PlainBoardIs DEF Plainly
      <3> QED
        BY <1>1, <1>3, <3>2, <3>3 DEF Enterable, HereField
    <2>3. Within(screen, d) /\ d.cur \in Cells
      BY <2>1, <2>2, HereWithin, PaddedWithin
    <2>4. PICK end : end = EndPos(HereField)
      OBVIOUS
    <2>5. PICK c : c = IF HereField.type = "num_only" THEN Zoned(d.data[end]) ELSE Minus
      OBVIOUS
    <2>6. c \in Chars /\ end \in Open(screen)
      BY <2>2, <2>4, <2>5, ConstantChars, HereWithin
    <2>7. Within(screen, [d EXCEPT !.data[end] = c]) /\ [d EXCEPT !.data[end] = c].cur \in Cells
      BY <2>3, <2>6, SignWithin
    <2>8. Leave([d EXCEPT !.data[end] = IF HereField.type = "num_only"
                                        THEN Zoned(@) ELSE Minus], Here)
      BY <1>1, <1>3, <2>1, <2>4 DEF FieldMinusKey
    <2>9. Leave([d EXCEPT !.data[end] = c], Here)
      <3>1. [d EXCEPT !.data[end] = IF HereField.type = "num_only" THEN Zoned(@) ELSE Minus]
              = [d EXCEPT !.data[end] = c]
        BY <2>5
      <3> QED
        BY <2>8, <3>1
    <2> QED
      BY <2>7, <2>9, LeaveWithin
  <1> QED
    BY <1>2, <1>3

LEMMA PutCharWithin ==
    ASSUME Plainly, Enterable, NEW c \in Chars, PutChar(c)
    PROVE  Within(screen, screen')
  <1>1. PICK i : i = Here
    OBVIOUS
  <1>2. PICK f : f = HereField
    OBVIOUS
  <1>3. /\ i \in NonBypass(screen) /\ screen \in PlainBoards /\ screen \in Boards
        /\ i \in 1 .. Len(screen.fields) /\ screen.cur \in FieldCells(screen.fields[i])
        /\ f = screen.fields[i] /\ screen.cur \in Cells
    BY <1>1, <1>2, HereWithin DEF Enterable, HereField, Plainly
  <1>4. PICK e : e = IF insert THEN InsertChar(screen, i, c) ELSE TypeOver(screen, i, c)
    OBVIOUS
  <1>5. Within(screen, e) /\ e.cur \in Cells
    <2>1. ~f.wordwrap
      BY <1>3, PlainBoardIs
    <2>2. CASE insert
      <3>1. PICK count : count = CountRight(screen.fields[i], screen.cur)
        OBVIOUS
      <3>2. e = Ins(screen, i, c, count)
        BY <1>3, <1>4, <2>1, <2>2, <3>1 DEF InsertChar
      <3>3. Within(screen, e)
        BY <1>3, <3>1, <3>2, InsWithin
      <3>4. e \in EditedAt(screen)
        BY <1>3, <3>1, <3>2, InsKeeps
      <3> QED
        BY <3>3, <3>4 DEF EditedAt, Ready
    <2>3. CASE ~insert
      <3>1. PrevIn(screen, i) \in 1 .. Len(screen.fields)
        BY <1>3, ListIsCircular
      <3>2. ~screen.fields[PrevIn(screen, i)].wordwrap
        BY <1>3, <3>1, PlainBoardIs
      <3>3. e = AddCh(screen, c)
        BY <1>3, <1>4, <2>1, <2>3, <3>2 DEF TypeOver
      <3>4. PICK p : p = screen.cur
        OBVIOUS
      <3>5. PICK q : q = RightOf(p, 1)
        OBVIOUS
      <3>6. q \in Cells
        <4>1. 1 \in Int /\ p \in Cells
          BY <1>3, <3>4
        <4> QED
          BY <3>5, <4>1, CellMoves
      <3>7. e = [screen EXCEPT !.data[p] = c, !.cur = q]
        BY <3>3, <3>4, <3>5 DEF AddCh
      <3>8. p \in Open(screen)
        BY <1>3, <3>4, OpenCells
      <3>9. Within(screen, e)
        BY <1>3, <3>6, <3>7, <3>8, OneWithin
      <3>10. e.cur = q
        BY <1>3, <3>7 DEF Boards, Buffers
      <3> QED
        BY <3>6, <3>9, <3>10
    <2> QED
      BY <2>2, <2>3
  <1>6. PICK d : d = SetMdt(e, i)
    OBVIOUS
  <1>7. Within(screen, d) /\ d.cur \in Cells
    BY <1>3, <1>5, <1>6, WithinKeeps
  <1>8. CASE ~ValidChar(f.type, c)
    BY <1>2, <1>8, HereWithin DEF PutChar, Placed
  <1>9. CASE ValidChar(f.type, c) /\ f.type = "signed_num" /\ screen.cur = EndPos(f)
    BY <1>2, <1>9, HereWithin DEF PutChar, Placed
  <1>10. CASE ValidChar(f.type, c) /\ ~(f.type = "signed_num" /\ screen.cur = EndPos(f))
    <2>1. CASE insert /\ NoRoom(screen, i)
      <3>1. Error("no_room")
        BY <1>1, <1>2, <1>10, <2>1 DEF PutChar, Placed
      <3> QED
        BY <3>1, HereWithin
    <2>2. CASE ~(insert /\ NoRoom(screen, i))
      <3>1. \/ Done(d)
            \/ Done([d EXCEPT !.cur = EndPos(f)])
            \/ LeaveAtEnd(d, i)
        BY <1>1, <1>2, <1>4, <1>6, <1>10, <2>2 DEF PutChar, Placed
      <3>2. EndPos(f) \in Cells
        BY <1>2, HereWithin
      <3>3. CASE Done(d)
        BY <1>7, <3>3 DEF Done
      <3>4. CASE Done([d EXCEPT !.cur = EndPos(f)])
        BY <1>3, <1>7, <3>2, <3>4, WithinKeeps DEF Done
      <3>5. CASE LeaveAtEnd(d, i)
        <4>1. PICK a : a = FieldAdjust(d, i)
          OBVIOUS
        <4>2. d \in PlainBoards /\ i \in NonBypass(d)
          BY <1>3, <1>7, EditedPlain DEF Within
        <4>3. Within(screen, a) /\ a.cur \in Cells /\ a \in Boards
          <5>1. Within(d, a) /\ a.cur = d.cur
            BY <4>1, <4>2, AdjustWithin
          <5>2. Within(screen, a)
            BY <1>3, <1>7, <5>1, WithinKeeps
          <5>3. a \in PlainBoards
            BY <1>3, <5>2, WithinKeeps
          <5> QED
            BY <1>7, <5>1, <5>2, <5>3, PlainBoardIs
        <4>4. PICK q : q = IF d.fields[i].nextfield # 0
                           THEN NextProgressionField(a, a.cur, d.fields[i].nextfield)
                           ELSE CursorNextField(a, LeftOf(a.cur))
          OBVIOUS
        <4>5. q \in Cells \cup {Hung}
          <5>1. LeftOf(a.cur) \in Cells
            BY <4>3, CellMoves
          <5> QED
            BY <4>3, <4>4, <5>1, NextFieldMoves DEF Landing
        <4>6. screen' = a \/ screen' = [a EXCEPT !.cur = q]
          BY <3>5, <4>1, <4>4 DEF LeaveAtEnd, Send, SendFor, Done
        <4> QED
          BY <1>3, <4>3, <4>5, <4>6, WithinKeeps
      <3> QED
        BY <3>1, <3>3, <3>4, <3>5
    <2> QED
      BY <2>1, <2>2
  <1> QED
    BY <1>8, <1>9, <1>10

LEMMA TypeWithin ==
    ASSUME Plainly, NEW c \in Typed, Type(c)
    PROVE  Within(screen, screen')
  <1>1. CASE ~Enterable
    BY <1>1, HereWithin DEF Type
  <1>2. CASE Enterable
    <2>1. PICK typed : typed = IF HereField.monocase THEN Upcase(c) ELSE c
      OBVIOUS
    <2>2. typed \in Chars
      BY <2>1, FieldEditingAssumption, ConstantChars
    <2>3. FieldPlusKey \/ FieldMinusKey \/ PutChar(typed)
      BY <1>2, <2>1 DEF Type
    <2> QED
      BY <1>2, <2>2, <2>3, FieldPlusWithin, FieldMinusWithin, PutCharWithin
  <1> QED
    BY <1>1, <1>2

LEMMA DuplicateWithin ==
    ASSUME Plainly, Duplicate
    PROVE  Within(screen, screen')
  <1>1. CASE ~Enterable
    BY <1>1, HereWithin DEF Duplicate
  <1>2. CASE Enterable
    <2>1. PICK i : i = Here
      OBVIOUS
    <2>2. PICK f : f = HereField
      OBVIOUS
    <2>3. /\ i \in NonBypass(screen) /\ screen \in PlainBoards /\ screen \in Boards
          /\ i \in 1 .. Len(screen.fields) /\ screen.cur \in FieldCells(screen.fields[i])
          /\ f = screen.fields[i] /\ screen.cur \in Cells /\ EndPos(f) \in Cells
      BY <1>2, <2>1, <2>2, HereWithin DEF Enterable, HereField, Plainly
    <2>4. PICK m : m = SetMdt(screen, i)
      OBVIOUS
    <2>5. Within(screen, m) /\ m.cur = screen.cur
      BY <2>3, <2>4, HereWithin, WithinKeeps
    <2>6. m \in PlainBoards /\ Open(m) = Open(screen) /\ m \in Boards
      BY <2>3, <2>5, WithinKeeps, PlainBoardIs
    <2> DEFINE data == [p \in Cells |-> IF p \in screen.cur .. EndPos(f) THEN Dup ELSE m.data[p]]
    <2>7. PICK d : d = [m EXCEPT !.data = data]
      OBVIOUS
    <2>8. PICK a : a = FieldAdjust(d, i)
      OBVIOUS
    <2>9. \/ ErrorOn(m, "dup_disallowed")
          \/ Done([d EXCEPT !.cur = EndPos(f)])
          \/ Send(a)
          \/ Done([a EXCEPT !.cur = CursorNextField(a, @)])
      BY <1>2, <2>1, <2>2, <2>4, <2>7, <2>8 DEF Duplicate
    <2>10. screen.cur .. EndPos(f) \subseteq Open(m)
      <3>1. /\ FieldCells(f) = f.start .. EndPos(f) /\ f.start \in Nat /\ EndPos(f) \in Nat
            /\ FieldCells(f) \subseteq Open(m)
        BY <2>3, <2>6, FieldsAre, OpenCells
      <3> QED
        BY <2>3, <3>1
    <2>11. data \in [Cells -> Chars] /\ \A p \in Cells : p \notin Open(m) => data[p] = m.data[p]
      BY <2>6, <2>10, BoardIs, ConstantChars
    <2> HIDE DEF data
    <2>12. Within(m, d) /\ d.cur = m.cur
      BY <2>6, <2>7, <2>11, WrittenWithin DEF Boards, Buffers
    <2>13. Within(screen, d) /\ d.cur \in Cells
      BY <2>3, <2>5, <2>12, WithinKeeps
    <2>14. d \in PlainBoards /\ i \in NonBypass(d)
      BY <2>3, <2>13, EditedPlain DEF Within
    <2>15. Within(screen, a) /\ a.cur \in Cells
      BY <2>3, <2>8, <2>13, <2>14, AdjustWithin, WithinKeeps
    <2>16. PICK q : q = CursorNextField(a, a.cur)
      OBVIOUS
    <2>17. q \in Cells \cup {Hung}
      <3>1. a \in Boards
        BY <2>3, <2>15, WithinKeeps, PlainBoardIs
      <3> QED
        BY <2>15, <2>16, <3>1, NextFieldMoves DEF Landing
    <2>18. \/ screen' = m \/ screen' = [d EXCEPT !.cur = EndPos(f)]
           \/ screen' = a \/ screen' = [a EXCEPT !.cur = q]
      BY <2>9, <2>16 DEF ErrorOn, Done, Send, SendFor
    <2> QED
      BY <2>3, <2>5, <2>13, <2>15, <2>17, <2>18, WithinKeeps
  <1> QED
    BY <1>1, <1>2

LEMMA DeleteWithin ==
    ASSUME Plainly, NEW p \in Cells, DeleteKey(At(p))
    PROVE  Within(screen, screen')
  <1>1. PICK d : d = At(p)
    OBVIOUS
  <1>2. /\ screen \in PlainBoards /\ Within(screen, d) /\ d \in PlainBoards /\ d \in Boards
        /\ d.cur = p
    BY <1>1, HereWithin, WithinKeeps, PlainBoardIs DEF Plainly, At, Boards, Buffers
  <1>3. PICK i : i = FieldYX(d, d.cur)
    OBVIOUS
  <1>4. PICK f : f = d.fields[i]
    OBVIOUS
  <1>5. CASE i = 0 \/ (i # 0 /\ f.bypass)
    <2>1. screen' = d
      BY <1>1, <1>3, <1>4, <1>5 DEF DeleteKey, ErrorOn
    <2> QED
      BY <1>2, <2>1
  <1>6. CASE ~(i = 0 \/ (i # 0 /\ f.bypass))
    <2>1. PICK m : m = SetMdt(d, i)
      OBVIOUS
    <2>2. i \in 1 .. Len(d.fields) /\ d.cur \in FieldCells(f) /\ i \in NonBypass(d) /\ ~f.wordwrap
      <3>1. i \in 1 .. Len(d.fields) /\ HitTest(f, d.cur)
        BY <1>2, <1>3, <1>4, <1>6, FieldFound
      <3> QED
        BY <1>2, <1>4, <1>6, <3>1, FieldsAre, PlainBoardIs
    <2>3. Within(screen, m) /\ m.cur = d.cur /\ m \in PlainBoards /\ m \in Edited(d)
      BY <1>2, <2>1, WithinKeeps, MarkKeeps
    <2>4. i \in NonBypass(m)
      BY <1>2, <2>2, <2>3, EditedPlain
    <2>5. FieldCells(m.fields[i]) = FieldCells(f) /\ EndPos(m.fields[i]) = EndPos(f)
      BY <1>2, <1>4, <2>2, <2>3, EditedFields
    <2>6. PICK count : count = CountRight(f, d.cur)
      OBVIOUS
    <2>7. count = CountRight(m.fields[i], m.cur)
      BY <2>3, <2>5, <2>6 DEF CountRight
    <2>8. Within(m, Del(m, i, count))
      BY <2>2, <2>3, <2>4, <2>5, <2>7, DelWithin
    <2>9. screen' = Del(m, i, count)
      BY <1>1, <1>3, <1>4, <1>6, <2>1, <2>2, <2>6 DEF DeleteKey, Done
    <2> QED
      BY <1>2, <2>3, <2>8, <2>9, WithinKeeps
  <1> QED
    BY <1>5, <1>6

LEMMA BackspaceWithin ==
    ASSUME Plainly, Backspace
    PROVE  Within(screen, screen')
  <1>1. screen \in Boards /\ screen.cur \in Cells
    BY HereWithin
  <1>2. CASE Here = 0
    BY <1>2, HereWithin DEF Backspace
  <1>3. CASE Here # 0
    <2>1. PICK p : p = BackspaceTo
      OBVIOUS
    <2>2. p \in Cells
      <3>1. PICK i : i = PrevField(screen, screen.cur)
        OBVIOUS
      <3>2. i \in {0} \cup (1 .. Len(screen.fields))
        BY <1>1, <3>1, FieldBehind DEF Found
      <3>3. i # 0 => EndPos(screen.fields[i]) \in Cells
        BY <1>1, <3>2, FieldsAre
      <3>4. LeftOf(screen.cur) \in Cells
        BY <1>1, CellMoves
      <3> QED
        BY <1>1, <2>1, <3>1, <3>3, <3>4 DEF BackspaceTo
    <2>3. IF DestructiveBackspace THEN DeleteKey(At(p)) ELSE Done(At(p))
      BY <1>3, <2>1 DEF Backspace
    <2>4. Done(At(p)) => screen' = At(p)
      BY DEF Done
    <2> QED
      BY <2>2, <2>3, <2>4, DeleteWithin, HereWithin
  <1> QED
    BY <1>2, <1>3

(* A key that moves, is refused, or sends leaves every cell. *)
LEMMA OthersWriteNothing ==
    ASSUME Plainly, Key,
           ~(\E c \in Typed : Type(c)), ~FieldExit, ~FieldPlus, ~FieldMinus, ~Duplicate,
           ~Delete, ~Backspace
    PROVE  screen'.data = screen.data
  <1>1. screen \in Boards
    BY DEF Plainly, Settled
  <1>2. \A p : Done(At(p)) => screen'.data = screen.data
    BY <1>1 DEF Done, At, Boards, Buffers
  <1>3. \A code : Error(code) => screen'.data = screen.data
    BY DEF Error, ErrorOn
  <1>4. \A k : SendFor(screen, k) => screen'.data = screen.data
    BY DEF SendFor
  <1>5. \/ Insert \/ Left \/ Right \/ Up \/ Down \/ Tab \/ Backtab
        \/ End \/ Home \/ FieldHome \/ NewLine \/ WordKeys
        \/ FieldExitRequiredError \/ FieldExitRequiredUndone
        \/ Reset \/ Enter
        \/ \E k \in FunctionKeys : Function(k)
    BY DEF Key
  <1>6. CASE Insert \/ FieldExitRequiredUndone \/ Reset
    BY <1>6 DEF Insert, FieldExitRequiredUndone, Reset
  <1>7. CASE Left \/ Right \/ Up \/ Down \/ Tab \/ Backtab \/ Home
    BY <1>2, <1>7 DEF Left, Right, Up, Down, Tab, Backtab, Home
  <1>8. CASE End \/ FieldHome \/ NewLine \/ WordKeys \/ FieldExitRequiredError
    BY <1>2, <1>3, <1>8 DEF End, FieldHome, NewLine, WordKeys, FieldExitRequiredError
  <1>9. CASE Enter \/ \E k \in FunctionKeys : Function(k)
    BY <1>4, <1>9 DEF Enter, Send, Function
  <1> QED
    BY <1>5, <1>6, <1>7, <1>8, <1>9

LEMMA KeyWritesOpen ==
    ASSUME Plainly, Key
    PROVE  SameBut(screen, screen')
  <1>1. CASE \E c \in Typed : Type(c)
    BY <1>1, TypeWithin DEF Within
  <1>2. CASE FieldExit \/ FieldPlus \/ FieldMinus
    BY <1>2, FieldExitWithin, FieldPlusWithin, FieldMinusWithin
       DEF FieldExit, FieldPlus, FieldMinus, Within
  <1>3. CASE Duplicate
    BY <1>3, DuplicateWithin DEF Within
  <1>4. CASE Delete
    <2>1. screen \in Boards /\ screen.cur \in Cells
      BY HereWithin
    <2>2. PICK p : p = screen.cur
      OBVIOUS
    <2>3. At(p) = screen
      BY <2>1, <2>2 DEF At, Boards, Buffers
    <2>4. DeleteKey(At(p)) /\ p \in Cells
      BY <1>4, <2>1, <2>2, <2>3 DEF Delete
    <2> QED
      BY <2>4, DeleteWithin DEF Within
  <1>5. CASE Backspace
    BY <1>5, BackspaceWithin DEF Within
  <1>6. CASE ~(\E c \in Typed : Type(c)) /\ ~FieldExit /\ ~FieldPlus /\ ~FieldMinus
             /\ ~Duplicate /\ ~Delete /\ ~Backspace
    BY <1>6, OthersWriteNothing DEF SameBut
  <1> QED
    BY <1>1, <1>2, <1>3, <1>4, <1>5, <1>6

(* The formats of a session stay plain. *)
PlainInv == Settled /\ FerAtFieldEnd /\ IsPlain(screen.fields)

LEMMA PlainAtStart ==
    ASSUME \A f \in Formats : IsPlain(f), Init
    PROVE  IsPlain(screen.fields)
  <1>1. PICK format \in Formats, text \in Contents :
            screen = [Screen(format, text) EXCEPT !.header = HeaderOf[format]]
    BY DEF Init
  <1>2. IsFormat(format) /\ text \in [Cells -> Chars] /\ IsPlain(format)
    BY FieldEditingAssumption
  <1>3. PICK d : d = Screen(format, text)
    OBVIOUS
  <1>4. d \in Ready /\ Built(d, format, Len(format))
    BY <1>2, <1>3, ScreenBuilt
  <1>5. screen.fields = d.fields
    BY <1>1, <1>3, <1>4 DEF Built, Buffers
  <1>6. PICK n : n = Len(format)
    OBVIOUS
  <1>7. /\ n \in Nat /\ DOMAIN format = 1 .. n /\ DOMAIN d.fields = 1 .. n
        /\ \A i \in 1 .. n : /\ d.fields[i].part = format[i].part
                             /\ d.fields[i].wordwrap = format[i].wordwrap
                             /\ d.fields[i].bypass = format[i].bypass
                             /\ d.fields[i].type = format[i].type
    BY <1>2, <1>4, <1>6 DEF IsFormat, Built, Buffers
  <1>8. ASSUME NEW i \in 1 .. n
        PROVE  /\ ~d.fields[i].wordwrap
               /\ d.fields[i].bypass => d.fields[i].type \notin {"signed_num", "num_only"}
               /\ Continues(d.fields[i]) => d.fields[i + 1].bypass = d.fields[i].bypass
    <2>1. Continues(d.fields[i]) <=> Continues(format[i])
      BY <1>7 DEF Continues
    <2>2. Continues(format[i]) => i + 1 \in 1 .. n
      <3>1. Continues(format[i]) => i < n
        BY <1>2, <1>6, <1>7 DEF IsFormat
      <3> QED
        BY <1>7, <3>1
    <2> QED
      BY <1>2, <1>7, <2>1, <2>2 DEF IsPlain
  <1> QED
    BY <1>5, <1>7, <1>8 DEF IsPlain

LEMMA PlainStays ==
    ASSUME PlainInv, Ended
    PROVE  IsPlain(screen.fields)'
  <1>1. screen \in PlainBoards
    BY DEF PlainInv, Settled, PlainBoards
  <1>2. PICK e : e = screen'
    OBVIOUS
  <1>3. e \in Edited(screen)
    BY <1>2 DEF Ended
  <1>4. e \in PlainBoards
    BY <1>1, <1>3, EditedPlain
  <1> QED
    BY <1>2, <1>4 DEF PlainBoards

LEMMA PlainKept ==
    ASSUME IInv, IsPlain(screen.fields), [Next]_vars
    PROVE  IsPlain(screen.fields)'
  <1>1. Settled /\ FerAtFieldEnd /\ PlainInv
    BY DEF IInv, PlainInv
  <1>2. CASE Key /\ Observed
    BY <1>1, <1>2, KeyEnds, PlainStays
  <1>3. CASE \E cc1 \in Cc1s : HostAnswers(cc1)
    BY <1>1, <1>3, AnswerKeeps, PlainStays
  <1>4. CASE UNCHANGED vars
    BY <1>4 DEF vars
  <1> QED
    BY <1>2, <1>3, <1>4 DEF Next

LEMMA StepWritesOpen ==
    ASSUME IInv, IsPlain(screen.fields), [Next]_vars, phase = "input",
           NEW p \in Cells, screen'.data[p] # screen.data[p]
    PROVE  \E i \in NonBypass(screen) : HitTest(screen.fields[i], p)
  <1>1. Plainly
    BY DEF IInv, Plainly, Settled, PlainBoards
  <1>2. Key
    BY DEF Next, HostAnswers, vars
  <1>3. p \in Open(screen)
    BY <1>1, <1>2, KeyWritesOpen DEF SameBut
  <1> QED
    BY <1>3 DEF Open, FieldCells, HitTest

(* No key, whichever keys, errors and answers of the host came before, changes *)
(* a cell outside the fields the user may enter: text, attributes and protected *)
(* fields stay as the host wrote them (dbuffer.c:680-840, display.c:1600-1830). *)
(* The formats have no word wrap (it may overflow: RoomToWrap), no protected    *)
(* number (Field- signs it, display.c:1714) and protect a continued field as a  *)
(* whole.                                                                       *)
THEOREM ProtectedStays ==
    ASSUME \A f \in Formats : IsPlain(f)
    PROVE  Spec => ProtectedTextStays
  <1> DEFINE J == IInv /\ IsPlain(screen.fields)
  <1>1. Init => J
    BY InitInvariant, PlainAtStart
  <1>2. J /\ [Next]_vars => J'
    <2> SUFFICES ASSUME J, [Next]_vars PROVE J'
      OBVIOUS
    <2>1. IInv'
      BY KeyKeeps, AnswerSettles, StutterKeeps DEF Next
    <2>2. IsPlain(screen.fields)'
      BY PlainKept
    <2> QED
      BY <2>1, <2>2
  <1>3. J /\ [Next]_vars =>
            [(phase = "input" /\ RoomToWrap) =>
                \A p \in Cells : screen'.data[p] # screen.data[p] =>
                    \E i \in NonBypass(screen) : HitTest(screen.fields[i], p)]_vars
    BY StepWritesOpen
  <1> HIDE DEF J
  <1> QED
    BY <1>1, <1>2, <1>3, PTL DEF Spec, ProtectedTextStays
==============================================================================
