------------------------- MODULE WriteToDisplay_proofs -------------------------
(***************************************************************************)
(* Proofs about the screens a host writes, saves and restores, for every     *)
(* size of the screen and everything the orders may name: all that is on a   *)
(* screen stays on it, and the format under the user's cursor stays.          *)
(*                                                                         *)
(* The argument: each order keeps a unit a unit (Units), in which the fields  *)
(* end on the screen; saving turns a unit into orders of the kinds the host   *)
(* may send (Orders), whatever runs of bytes and fields it meets; and          *)
(* restoring carries such orders out one after the other.                    *)
(***************************************************************************)
EXTENDS WriteToDisplay, Screen_proofs, SequenceTheorems

OnScreen == {f \in Field : EndPos(f) < Size}
HeadersKept == {<<>>} \cup Headers
Screens == [data : [Cells -> Chars], cur : Cells, ic : Cells, pending : BOOLEAN,
            fields : Seq(OnScreen), entries : Nat, mdt : BOOLEAN,
            header : HeadersKept]
Units == [screen : Screens, locked : BOOLEAN, read : ReadOps \cup {"none"},
          wrapping : BOOLEAN, refused : {"none", "address", "attribute", "length"}]

Words == Seq(Parts \cup {"wrap"})
OrdersKept ==
    [o : {"clear"}] \cup [o : {"soh"}, data : Headers]
    \cup [o : {"ic", "sba"}, at : Cells] \cup [o : {"ra"}, at : Cells, c : Chars]
    \cup [o : {"char"}, c : Chars] \cup [o : {"sf"}, field : Field, words : Words]
    \cup [o : {"read"}, op : ReadOps]

Controls == [unlock : BOOLEAN, keep : BOOLEAN, from : Cells]

IInv == /\ unit \in Units
        /\ writing \in BOOLEAN
        /\ control \in Controls
        /\ saved.orders \in Seq(OrdersKept)
------------------------------------------------------------------------------
(* Changes of a screen that keep it one. *)
LEMMA Updates ==
    ASSUME NEW d \in Screens
    PROVE  /\ \A p \in Cells : [d EXCEPT !.cur = p] \in Screens
           /\ \A p, q \in Cells, c \in Chars : [d EXCEPT !.data[p] = c, !.cur = q] \in Screens
           /\ \A p \in Cells, c \in Chars : [d EXCEPT !.data[p] = c] \in Screens
           /\ \A data \in [Cells -> Chars] : [d EXCEPT !.data = data] \in Screens
           /\ \A fields \in Seq(OnScreen) : [d EXCEPT !.fields = fields] \in Screens
  BY DEF Screens

LEMMA UnitUpdates ==
    ASSUME NEW u \in Units, NEW d \in Screens
    PROVE  /\ [u EXCEPT !.screen = d] \in Units
           /\ \A b \in BOOLEAN : [u EXCEPT !.screen = d, !.locked = b] \in Units
           /\ u.screen \in Screens
           /\ \A code \in {"none", "address", "attribute", "length"} :
                 [u EXCEPT !.refused = code] \in Units
  BY DEF Units

LEMMA ConstantTypes ==
    /\ Nul \in Chars /\ Blank \in Chars /\ Attr \in Chars
    /\ Cleared \in Screens
    /\ Unit \in Units
  <1>1. Nul \in Chars /\ Blank \in Chars /\ Attr \in Chars
    BY DEF Chars
  <1>2. Cleared \in Screens
    BY <1>1, ScreenSize DEF Cleared, Screens, HeadersKept
  <1> QED
    BY <1>1, <1>2 DEF Unit, Units

LEMMA AddChType ==
    ASSUME NEW d \in Screens, NEW c \in Chars
    PROVE  AddCh(d, c) \in Screens
  <1>1. d.cur \in Cells /\ RightOf(d.cur, 1) \in Cells
    BY CellsRight DEF Screens
  <1> QED
    BY <1>1, Updates DEF AddCh

LEMMA CharacterType ==
    ASSUME NEW u \in Units, NEW c \in Chars
    PROVE  Character(u, c) \in Units
  <1>1. u.screen \in Screens
    BY DEF Units
  <1>2. AddCh(u.screen, c) \in Screens
    BY <1>1, AddChType
  <1> QED
    BY <1>2, UnitUpdates DEF Character

(* The places the host names. *)
LEMMA AddrIsCell ==
    ASSUME NEW y \in Rows, NEW x \in Columns
    PROVE  Addr(y, x) \in Cells
  <1> w \in Nat \ {0} /\ h \in Nat \ {0}
    BY DisplayBufferAssumption
  <1>1. y - 1 \in 0 .. h - 1 /\ x - 1 \in 0 .. w - 1
    BY DEF Rows, Columns
  <1>2. (y - 1) * w + (x - 1) = (y - 1) * w + x - 1
    BY <1>1
  <1> QED
    BY <1>1, <1>2, CellOf DEF Addr

LEMMA AddressType ==
    ASSUME NEW u \in Units, NEW y \in Nat, NEW x \in Nat
    PROVE  /\ SetBufferAddress(u, y, x) \in Units
           /\ InsertCursor(u, y, x) \in Units
           /\ MoveCursor(u, y, x) \in Units
  <1>1. \A p \in Cells : /\ [u EXCEPT !.screen.cur = p] \in Units
                         /\ [u EXCEPT !.screen.ic = p, !.screen.pending = TRUE] \in Units
    BY DEF Units, Screens
  <1>2. Refuse(u, "address") \in Units
    BY DEF Refuse, Units
  <1> QED
    BY <1>1, <1>2, AddrIsCell DEF SetBufferAddress, InsertCursor, MoveCursor

LEMMA RepeatType ==
    ASSUME NEW u \in Units, NEW y \in Nat, NEW x \in Nat, NEW c \in Chars
    PROVE  RepeatToAddress(u, y, x, c) \in Units
  <1>1. Refuse(u, "address") \in Units
    BY DEF Refuse, Units
  <1>2. CASE y \in Rows /\ x \in Columns
    <2>1. Addr(y, x) \in Int /\ RightOf(Addr(y, x), 1) \in Cells
      <3>1. Addr(y, x) \in Cells
        BY <1>2, AddrIsCell
      <3>2. Addr(y, x) \in Int
        BY <3>1, CellsRight
      <3> QED
        BY <3>2, CellsRight
    <2>2. u.screen \in Screens /\ u.screen.data \in [Cells -> Chars]
      BY DEF Units, Screens
    <2> DEFINE data == [p \in Cells |-> IF p \in u.screen.cur .. Addr(y, x) THEN c
                                        ELSE u.screen.data[p]]
    <2>3. data \in [Cells -> Chars]
      BY <2>2
    <2>4. \A q \in Cells, s \in [Cells -> Chars] :
             [u EXCEPT !.screen.data = s, !.screen.cur = q] \in Units
      BY DEF Units, Screens
    <2> HIDE DEF data
    <2>5. [u EXCEPT !.screen.data = data, !.screen.cur = RightOf(Addr(y, x), 1)] \in Units
      BY <2>1, <2>3, <2>4
    <2>6. RepeatToAddress(u, y, x, c) \in
            {Refuse(u, "address"),
             [u EXCEPT !.screen.data = data, !.screen.cur = RightOf(Addr(y, x), 1)]}
      BY DEF RepeatToAddress, data
    <2> QED
      BY <1>1, <2>5, <2>6
  <1> QED
    BY <1>1, <1>2 DEF RepeatToAddress

(* Erasing puts the cursor behind the address. *)
LEMMA BehindAddressIsCell ==
    ASSUME NEW y \in Nat, NEW x \in Nat
    PROVE  BehindAddress(y, x) \in Cells
  <1> w \in Nat \ {0} /\ h \in Nat \ {0}
    BY DisplayBufferAssumption
  <1> DEFINE r == IF y >= h THEN 0 ELSE y
             c == IF x >= w THEN 0 ELSE x
  <1>1. r \in 0 .. h - 1 /\ c \in 0 .. w - 1
    OBVIOUS
  <1> HIDE DEF r, c
  <1>2. r * w + c \in Cells
    BY <1>1, CellOf
  <1> QED
    BY <1>2 DEF BehindAddress, r, c

LEMMA EraseType ==
    ASSUME NEW u \in Units, NEW y \in Nat, NEW x \in Nat, NEW attributes
    PROVE  EraseToAddress(u, y, x, attributes) \in Units
  <1>1. Refuse(u, "address") \in Units
    BY DEF Refuse, Units
  <1>2. u.screen \in Screens /\ u.screen.data \in [Cells -> Chars]
    BY DEF Units, Screens
  <1>3. Erased(u.screen, y, x) \in Screens
    <2> DEFINE top == Row(u.screen.cur)
               bottom == y - 1
               left(r) == IF r = top THEN Col(u.screen.cur) ELSE 0
               right(r) == IF r = bottom THEN x - 1 ELSE w - 1
               data == [p \in Cells |->
                   IF Row(p) \in top .. bottom /\ Col(p) \in left(Row(p)) .. right(Row(p))
                   THEN Blank ELSE u.screen.data[p]]
    <2>1. data \in [Cells -> Chars]
      BY <1>2, ConstantTypes
    <2> HIDE DEF data
    <2>2. [u.screen EXCEPT !.data = data] \in Screens
      BY <1>2, <2>1, Updates
    <2> QED
      BY <2>2 DEF Erased, data
  <1>4. \A d \in Screens : [u EXCEPT !.screen = [d EXCEPT !.cur = BehindAddress(y, x)]] \in Units
    BY BehindAddressIsCell, Updates, UnitUpdates
  <1> DEFINE last == attributes[Len(attributes)]
             d == IF last = "all" THEN Erased(u.screen, y, x) ELSE u.screen
  <1>5. d \in Screens
    BY <1>2, <1>3
  <1> HIDE DEF d
  <1>6. EraseToAddress(u, y, x, attributes) \in
          {Refuse(u, "address"), [u EXCEPT !.screen = [d EXCEPT !.cur = BehindAddress(y, x)]]}
    BY DEF EraseToAddress, d
  <1> QED
    BY <1>1, <1>4, <1>5, <1>6

LEMMA TransparentType ==
    ASSUME NEW u \in Units, NEW text \in Seq(Chars)
    PROVE  TransparentData(u, text) \in Units
  <1>1. Refuse(u, "address") \in Units
    BY DEF Refuse, Units
  <1>2. u.screen \in Screens /\ u.screen.data \in [Cells -> Chars] /\ u.screen.cur \in Cells
    BY DEF Units, Screens
  <1> DEFINE p == u.screen.cur
             data == [q \in Cells |-> LET k == 1 + ((q + Size - p) % Size)
                                      IN IF k <= Len(text) THEN text[k] ELSE u.screen.data[q]]
  <1>3. data \in [Cells -> Chars]
    <2>1. \A q \in Cells : 1 + ((q + Size - p) % Size) \in Nat \ {0}
      BY <1>2, Distance
    <2>2. \A k \in Nat \ {0} : k <= Len(text) => text[k] \in Chars
      OBVIOUS
    <2> QED
      BY <1>2, <2>1, <2>2
  <1>4. RightOf(p, Len(text)) \in Cells
    <2>1. \A q \in Cells, n \in Nat : RightOf(q, n) \in Cells
      BY CellsRight
    <2> QED
      BY <1>2, <2>1
  <1>5. \A q \in Cells, s \in [Cells -> Chars] :
           [u EXCEPT !.screen.data = s, !.screen.cur = q] \in Units
    BY DEF Units, Screens
  <1> HIDE DEF data
  <1>6. [u EXCEPT !.screen.data = data, !.screen.cur = RightOf(p, Len(text))] \in Units
    BY <1>3, <1>4, <1>5
  <1>7. TransparentData(u, text) \in
          {Refuse(u, "address"),
           [u EXCEPT !.screen.data = data, !.screen.cur = RightOf(p, Len(text))]}
    BY DEF TransparentData, data
  <1> QED
    BY <1>1, <1>6, <1>7

(* Orders that say nothing about cells. *)
LEMMA HeaderType ==
    ASSUME NEW u \in Units, NEW data \in Headers
    PROVE  StartOfHeader(u, data) \in Units
  <1> DEFINE d == [ClearTable(u.screen) EXCEPT !.pending = FALSE]
  <1>1. d \in Screens /\ [d EXCEPT !.header = data] \in Screens
    <2>1. u.screen \in Screens
      BY DEF Units
    <2>2. <<>> \in HeadersKept /\ data \in HeadersKept /\ <<>> \in Seq(OnScreen)
      BY DEF HeadersKept
    <2>3. ClearTable(u.screen) \in Screens
      BY <2>1, <2>2 DEF ClearTable, Screens
    <2>4. d \in Screens
      BY <2>3 DEF Screens
    <2> HIDE DEF d
    <2> QED
      BY <2>2, <2>4 DEF Screens
  <1> HIDE DEF d
  <1>2. /\ [u EXCEPT !.screen = [d EXCEPT !.header = data], !.locked = TRUE] \in Units
        /\ Refuse([u EXCEPT !.screen = d, !.locked = TRUE], "length") \in Units
    BY <1>1, UnitUpdates DEF Refuse
  <1> QED
    BY <1>2 DEF StartOfHeader, d

LEMMA OtherOrders ==
    ASSUME NEW u \in Units
    PROVE  /\ \A type : WriteExtendedAttribute(u, type) \in Units
           /\ \A len : OutputField(u, len) \in Units
           /\ ClearUnit(u) \in Units
           /\ ClearFormatTable(u) \in Units
  <1>1. \A type : WriteExtendedAttribute(u, type) \in Units
    BY DEF WriteExtendedAttribute, Refuse, Units
  <1>2. \A len : OutputField(u, len) \in Units
    <2>1. Character(u, Attr) \in Units
      BY CharacterType, ConstantTypes
    <2>2. Refuse(Character(u, Attr), "address") \in Units
      BY <2>1 DEF Refuse, Units
    <2> QED
      BY <2>1, <2>2 DEF OutputField
  <1>3. ClearUnit(u) \in Units
    BY ConstantTypes DEF ClearUnit, Units
  <1>4. ClearFormatTable(u) \in Units
    <2>1. [ClearTable(u.screen) EXCEPT !.cur = 0] \in Screens
      <3>1. <<>> \in HeadersKept /\ <<>> \in Seq(OnScreen)
        BY DEF HeadersKept
      <3> QED
        BY <3>1, ScreenSize DEF ClearTable, Units, Screens
    <2> QED
      BY <2>1 DEF ClearFormatTable, Units
  <1> QED
    BY <1>1, <1>2, <1>3, <1>4

(* Fields are found in the table. *)
LEMMA FieldFound ==
    ASSUME NEW d \in Screens, NEW p \in Cells
    PROVE  FieldYX(d, p) \in {0} \cup (1 .. Len(d.fields))
  <1> DEFINE hit == {i \in DOMAIN d.fields : HitTest(d.fields[i], p)}
  <1>1. d.fields \in Seq(OnScreen) /\ Len(d.fields) \in Nat
    BY DEF Screens
  <1>2. hit \subseteq 1 .. Len(d.fields) /\ hit \in SUBSET Nat
    BY <1>1
  <1> HIDE DEF hit
  <1>3. hit # {} => Smallest(hit) \in hit
    BY <1>2, SmallestExists
  <1>4. FieldYX(d, p) = IF hit = {} THEN 0 ELSE Smallest(hit)
    BY DEF FieldYX, hit
  <1> QED
    BY <1>2, <1>3, <1>4

LEMMA HomeIsCell ==
    ASSUME NEW d \in Screens
    PROVE  CursorHome(d) \in Cells
  <1>1. d.fields \in Seq(OnScreen) /\ Len(d.fields) \in Nat /\ d.ic \in Cells
    BY DEF Screens
  <1>2. \A i \in 1 .. Len(d.fields) : d.fields[i].start \in Cells
    BY <1>1 DEF OnScreen, Field
  <1> DEFINE open == NonBypass(d)
  <1>3. open \subseteq 1 .. Len(d.fields) /\ open \in SUBSET Nat
    BY <1>1 DEF NonBypass
  <1> HIDE DEF open
  <1>4. open # {} => Smallest(open) \in open
    BY <1>3, SmallestExists
  <1>5. FirstNonBypass(d) = IF open = {} THEN 0 ELSE Smallest(open)
    BY DEF FirstNonBypass, open
  <1>6. FirstNonBypass(d) = 0 \/ FirstNonBypass(d) \in 1 .. Len(d.fields)
    BY <1>3, <1>4, <1>5
  <1> QED
    BY <1>1, <1>2, <1>6, ScreenSize DEF CursorHome

(* The MDT of a field, and of all. *)
LEMMA MarkType ==
    ASSUME NEW d \in Screens, NEW i
    PROVE  SetMdt(d, i) \in Screens /\ Format(SetMdt(d, i)) = Format(d)
  <1> DEFINE j == FirstPart(d, i)
  <1>1. SetMdt(d, i) = [d EXCEPT !.fields[j].mdt = TRUE, !.mdt = TRUE]
    BY DEF SetMdt
  <1> HIDE DEF j
  <1>2. d.fields \in Seq(OnScreen) /\ d.fields \in [1 .. Len(d.fields) -> OnScreen]
    BY DEF Screens
  <1> DEFINE fields == [d.fields EXCEPT ![j].mdt = TRUE]
  <1>3. \A f \in OnScreen : [f EXCEPT !.mdt = TRUE] \in OnScreen
    BY DEF OnScreen, Field, EndPos
  <1>4. fields \in [1 .. Len(d.fields) -> OnScreen]
    BY <1>2, <1>3
  <1>5. fields \in Seq(OnScreen)
    BY <1>2, <1>4
  <1>6. \A k \in 1 .. Len(d.fields) :
           [fields[k] EXCEPT !.mdt = FALSE] = [d.fields[k] EXCEPT !.mdt = FALSE]
    BY <1>2 DEF OnScreen, Field
  <1>7. [d EXCEPT !.fields[j].mdt = TRUE, !.mdt = TRUE]
          = [d EXCEPT !.fields = fields, !.mdt = TRUE]
    BY DEF Screens
  <1>8. DOMAIN fields = 1 .. Len(d.fields) /\ DOMAIN d.fields = 1 .. Len(d.fields)
    BY <1>2, <1>4
  <1> HIDE DEF fields
  <1>9. SetMdt(d, i) \in Screens /\ SetMdt(d, i).fields = fields
    BY <1>1, <1>5, <1>7 DEF Screens
  <1> QED
    BY <1>6, <1>8, <1>9 DEF Format

(* The first control character changes the text and the MDTs. *)
LEMMA Cc1Type ==
    ASSUME NEW d \in Screens, NEW cc1
    PROVE  HandleCc1(d, cc1) \in Screens /\ Format(HandleCc1(d, cc1)) = Format(d)
  <1> DEFINE e == Nulled(d, cc1)
  <1>1. e \in Screens /\ e.fields = d.fields
    <2>1. PICK cells : e = [d EXCEPT !.data = [p \in Cells |-> IF p \in cells THEN Nul ELSE @[p]]]
      BY DEF Nulled
    <2>2. [p \in Cells |-> IF p \in cells THEN Nul ELSE d.data[p]] \in [Cells -> Chars]
      BY ConstantTypes DEF Screens
    <2> HIDE DEF e
    <2> QED
      BY <2>1, <2>2 DEF Screens
  <1> HIDE DEF e
  <1> DEFINE all == cc1 \in {"reset_all", "reset_all_null"}
             some == cc1 \in {"reset", "reset_null", "reset_null_modified"}
             fields == [i \in DOMAIN e.fields |->
                           IF all \/ (some /\ ~e.fields[i].bypass)
                           THEN [e.fields[i] EXCEPT !.mdt = FALSE] ELSE e.fields[i]]
  <1>2. HandleCc1(d, cc1) = [e EXCEPT !.fields = fields]
    BY DEF HandleCc1, MdtReset, e
  <1>3. e.fields \in Seq(OnScreen)
    BY <1>1 DEF Screens
  <1>4. \A f \in OnScreen : [f EXCEPT !.mdt = FALSE] \in OnScreen
    BY DEF OnScreen, Field, EndPos
  <1>5. fields \in Seq(OnScreen) /\ DOMAIN fields = DOMAIN e.fields
    BY <1>3, <1>4
  <1>6. \A i \in DOMAIN e.fields :
           [fields[i] EXCEPT !.mdt = FALSE] = [e.fields[i] EXCEPT !.mdt = FALSE]
    BY <1>3 DEF OnScreen, Field
  <1> HIDE DEF fields
  <1>7. [e EXCEPT !.fields = fields] \in Screens /\ [e EXCEPT !.fields = fields].fields = fields
    BY <1>1, <1>5 DEF Screens
  <1> QED
    BY <1>1, <1>2, <1>5, <1>6, <1>7 DEF Format

LEMMA ControlType ==
    ASSUME NEW u \in Units, NEW cc1
    PROVE  /\ ControlFields(u, cc1) \in Units
           /\ \A op \in ReadOps : ReadCommand(u, op, cc1) \in Units
           /\ ControlFields(u, cc1).screen = HandleCc1(u.screen, cc1)
           /\ \A op \in ReadOps : ReadCommand(u, op, cc1).screen = HandleCc1(u.screen, cc1)
  <1>1. u.screen \in Screens /\ u.locked \in BOOLEAN
    BY DEF Units
  <1>2. HandleCc1(u.screen, cc1) \in Screens
    BY <1>1, Cc1Type
  <1>3. (u.locked \/ cc1 # "nothing") \in BOOLEAN
    OBVIOUS
  <1>4. /\ ControlFields(u, cc1) \in Units
        /\ ControlFields(u, cc1).screen = HandleCc1(u.screen, cc1)
    BY <1>2, <1>3 DEF ControlFields, Units
  <1>5. \A v \in Units, op \in ReadOps :
           /\ [v EXCEPT !.locked = FALSE, !.read = op] \in Units
           /\ [v EXCEPT !.locked = FALSE, !.read = op].screen = v.screen
    BY DEF Units
  <1> QED
    BY <1>4, <1>5 DEF ReadCommand

LEMMA RollType ==
    ASSUME NEW u \in Units, NEW r \in Rolls
    PROVE  /\ Roll(u, r.top, r.bottom, r.lines) \in Units
           /\ Roll(u, r.top, r.bottom, r.lines).screen.fields = u.screen.fields
  <1>1. u.screen \in Screens /\ u.screen.data \in [Cells -> Chars]
    BY DEF Units, Screens
  <1>2. r.top \in 0 .. h - 1 /\ r.bottom \in 0 .. h - 1 /\ r.lines \in Int
    BY WriteToDisplayAssumption
  <1> DEFINE data == [p \in Cells |->
                         LET from == Row(p) - r.lines
                         IN IF Row(p) \in r.top .. r.bottom /\ from \in r.top .. r.bottom
                            THEN u.screen.data[from * w + Col(p)] ELSE u.screen.data[p]]
  <1>3. ASSUME NEW p \in Cells, Row(p) - r.lines \in r.top .. r.bottom
        PROVE  u.screen.data[(Row(p) - r.lines) * w + Col(p)] \in Chars
    <2>1. Row(p) - r.lines \in 0 .. h - 1
      BY <1>2, <1>3, DisplayBufferAssumption
    <2>2. (Row(p) - r.lines) * w + Col(p) \in Cells
      BY <2>1, RowCol, CellOf
    <2> QED
      BY <1>1, <2>2
  <1>4. data \in [Cells -> Chars]
    BY <1>1, <1>3
  <1> HIDE DEF data
  <1>5. RollRows(u.screen, r.top, r.bottom, r.lines) = [u.screen EXCEPT !.data = data]
    BY DEF RollRows, data
  <1>6. /\ [u.screen EXCEPT !.data = data] \in Screens
        /\ [u.screen EXCEPT !.data = data].fields = u.screen.fields
    BY <1>1, <1>4 DEF Screens
  <1>7. /\ [u EXCEPT !.screen = u.screen] \in Units
        /\ [u EXCEPT !.screen = [u.screen EXCEPT !.data = data]] \in Units
        /\ [u EXCEPT !.screen = u.screen].screen = u.screen
        /\ [u EXCEPT !.screen = [u.screen EXCEPT !.data = data]].screen
             = [u.screen EXCEPT !.data = data]
    BY <1>1, <1>6 DEF Units
  <1> QED
    BY <1>5, <1>6, <1>7 DEF Roll

(* A field that fits is on the screen, whether it is new or replaces another *)
(* one's format.                                                            *)
LEMMA PartIsKnown ==
    ASSUME NEW words \in Words
    PROVE  PartOf(words) \in Parts
  <1> DEFINE marks == {n \in DOMAIN words : words[n] \in Parts}
  <1>1. Len(words) \in Nat /\ marks \in SUBSET (0 .. Len(words))
    BY DEF Words
  <1>2. \A n \in marks : words[n] \in Parts
    OBVIOUS
  <1> HIDE DEF marks
  <1>3. marks # {} => Largest(marks) \in marks
    BY <1>1, LargestExists
  <1>4. PartOf(words) = IF marks = {} THEN "none" ELSE words[Largest(marks)]
    BY DEF PartOf, marks
  <1> QED
    BY <1>2, <1>3, <1>4 DEF Parts

LEMMA NewField ==
    ASSUME NEW p \in Cells, NEW f \in Field, p + f.len <= Size,
           NEW part \in Parts, NEW wordwrap \in BOOLEAN, NEW n \in Nat
    PROVE  [[f EXCEPT !.start = p, !.part = part, !.wordwrap = wordwrap] EXCEPT !.entry = n]
             \in OnScreen
  <1> DEFINE new == [[f EXCEPT !.start = p, !.part = part, !.wordwrap = wordwrap]
                        EXCEPT !.entry = n]
  <1>1. new \in Field
    BY DEF Field
  <1>2. new.start = p /\ new.len = f.len
    BY DEF Field
  <1> HIDE DEF new
  <1>3. p \in Nat /\ f.len \in Nat /\ Size \in Nat
    BY CellsRight, ScreenSize DEF Field
  <1>4. EndPos(new) < Size
    BY <1>2, <1>3 DEF EndPos
  <1> QED
    BY <1>1, <1>4 DEF OnScreen, new

LEMMA ReformattedField ==
    ASSUME NEW old \in OnScreen, NEW f \in Field
    PROVE  Reformatted(old, f) \in OnScreen
  <1>1. /\ Reformatted(old, f) \in Field
        /\ Reformatted(old, f).start = old.start
        /\ Reformatted(old, f).len = old.len
    BY DEF Reformatted, OnScreen, Field
  <1> QED
    BY <1>1 DEF OnScreen, EndPos

LEMMA TableAfterField ==
    ASSUME NEW d \in Screens, NEW f \in Field, d.cur + f.len <= Size,
           NEW part \in Parts, NEW wordwrap \in BOOLEAN
    PROVE  LET new == [f EXCEPT !.start = d.cur, !.part = part, !.wordwrap = wordwrap]
               here == FieldYX(d, d.cur)
               t == IF here = 0 THEN AddField(d, new)
                    ELSE IF d.fields[here].start = d.cur
                         THEN [d EXCEPT !.fields[here] = Reformatted(@, f)] ELSE d
           IN /\ t \in Screens
              /\ t.fields[IF here = 0 THEN Len(t.fields) ELSE here] \in OnScreen
  <1> DEFINE new == [f EXCEPT !.start = d.cur, !.part = part, !.wordwrap = wordwrap]
             here == FieldYX(d, d.cur)
  <1>1. /\ d.fields \in Seq(OnScreen) /\ Len(d.fields) \in Nat
        /\ d.cur \in Cells /\ d.entries \in Nat
    BY DEF Screens
  <1>2. here \in {0} \cup (1 .. Len(d.fields))
    BY <1>1, FieldFound
  <1>3. CASE here = 0
    <2> DEFINE n == d.entries + (IF new.part \in {"middle", "last"} THEN 0 ELSE 1)
               added == Append(d.fields, [new EXCEPT !.entry = n])
    <2>1. n \in Nat
      BY <1>1
    <2> HIDE DEF n
    <2>2. [new EXCEPT !.entry = n] \in OnScreen
      BY <1>1, <2>1, NewField
    <2> HIDE DEF new
    <2>3. added \in Seq(OnScreen) /\ added[Len(added)] \in OnScreen
      BY <1>1, <2>2
    <2> HIDE DEF added
    <2>4. AddField(d, new) = [d EXCEPT !.fields = added, !.entries = n]
      BY DEF AddField, added, n
    <2>5. AddField(d, new) \in Screens /\ AddField(d, new).fields = added
      BY <2>1, <2>3, <2>4 DEF Screens
    <2> QED
      BY <1>3, <2>3, <2>5 DEF new
  <1>4. CASE here # 0
    <2> DEFINE fields == [d.fields EXCEPT ![here] = Reformatted(d.fields[here], f)]
    <2>1. here \in 1 .. Len(d.fields)
      BY <1>2, <1>4
    <2> HIDE DEF here
    <2>2. d.fields[here] \in OnScreen
      BY <1>1, <2>1
    <2>3. Reformatted(d.fields[here], f) \in OnScreen
      BY <2>2, ReformattedField
    <2>4. fields \in Seq(OnScreen) /\ fields[here] \in OnScreen
      BY <1>1, <2>1, <2>3, ExceptSeq
    <2>5. [d EXCEPT !.fields[here] = Reformatted(@, f)] = [d EXCEPT !.fields = fields]
      BY DEF Screens
    <2> HIDE DEF fields
    <2>6. [d EXCEPT !.fields = fields] \in Screens /\ [d EXCEPT !.fields = fields].fields = fields
      BY <2>4 DEF Screens
    <2> HIDE DEF new
    <2> QED
      BY <1>4, <2>2, <2>4, <2>5, <2>6 DEF here
  <1> QED
    BY <1>3, <1>4

LEMMA InputFieldType ==
    ASSUME NEW u \in Units, NEW f \in Field, NEW words \in Words
    PROVE  InputField(u, f, words) \in Units /\ InputField(u, f, words).locked
  <1> DEFINE wrapping == WrappingAfter(u.wrapping, words)
             v == [Character(u, Attr) EXCEPT !.locked = TRUE, !.wrapping = wrapping]
             d == v.screen
             here == FieldYX(d, d.cur)
             new == [f EXCEPT !.start = d.cur, !.part = PartOf(words), !.wordwrap = wrapping]
             t == IF here = 0 THEN AddField(d, new)
                  ELSE IF d.fields[here].start = d.cur
                       THEN [d EXCEPT !.fields[here] = Reformatted(@, f)] ELSE d
             field == t.fields[IF here = 0 THEN Len(t.fields) ELSE here]
             behind == RightOf(EndPos(field), 1)
  <1>1. wrapping \in BOOLEAN
    BY DEF WrappingAfter, Units
  <1> HIDE DEF wrapping
  <1>2. v \in Units /\ d \in Screens /\ v.locked
    <2>1. Character(u, Attr) \in Units
      BY ConstantTypes, CharacterType
    <2> QED
      BY <1>1, <2>1 DEF Units
  <1> HIDE DEF v
  <1>3. Refuse(v, "address") \in Units /\ Refuse(v, "address").locked
    BY <1>2 DEF Refuse, Units
  <1>4. CASE Fits(v, f)
    <2>1. d.cur + f.len <= Size
      BY <1>4 DEF Fits
    <2>2. t \in Screens /\ field \in OnScreen
      BY <1>1, <1>2, <2>1, PartIsKnown, TableAfterField
    <2> HIDE DEF t
    <2> HIDE DEF field
    <2>3. EndPos(field) \in Int
      <3>1. field.start \in Nat /\ field.len \in Nat
        BY <2>2, CellsRight DEF OnScreen, Field
      <3> QED
        BY <3>1 DEF EndPos
    <2>4. behind \in Cells
      BY <2>3, CellsRight
    <2> HIDE DEF behind
    <2>5. [t EXCEPT !.data[behind] = Attr] \in Screens
      BY <2>2, <2>4, ConstantTypes, Updates
    <2>6. InputField(u, f, words) = [v EXCEPT !.screen = [t EXCEPT !.data[behind] = Attr]]
      BY <1>4 DEF InputField, v, t, field, behind, wrapping
    <2> QED
      BY <1>2, <2>5, <2>6 DEF Units
  <1>5. CASE ~Fits(v, f)
    <2>1. InputField(u, f, words) = Refuse(v, "address")
      BY <1>5 DEF InputField, v, wrapping
    <2> QED
      BY <1>3, <2>1
  <1> QED
    BY <1>4, <1>5

------------------------------------------------------------------------------
(* Restoring: what the host keeps are orders, and each of them is carried out. *)
LEMMA KindsOfOrders ==
    ASSUME NEW order \in OrdersKept
    PROVE  /\ order.o \in {"clear", "soh", "ic", "sba", "ra", "char", "sf", "read"}
           /\ order.o = "soh" => order.data \in Headers
           /\ order.o \in {"ic", "sba", "ra"} => order.at \in Cells
           /\ order.o \in {"ra", "char"} => order.c \in Chars
           /\ order.o = "sf" => order.field \in Field /\ order.words \in Words
           /\ order.o = "read" => order.op \in ReadOps
  BY DEF OrdersKept

LEMMA PerformType ==
    ASSUME NEW u \in Units, NEW order \in OrdersKept
    PROVE  Perform(u, order) \in Units
  <1>1. \A p \in Cells : Row(p) + 1 \in Nat /\ Col(p) + 1 \in Nat
    <2> TAKE p \in Cells
    <2>1. Row(p) \in Nat /\ Col(p) \in Nat
      BY RowCol, DisplayBufferAssumption
    <2> QED
      BY <2>1
  <1>2. CASE order.o = "clear"
    BY <1>2, OtherOrders DEF Perform
  <1>3. CASE order.o = "soh"
    BY <1>3, KindsOfOrders, HeaderType DEF Perform
  <1>4. CASE order.o \in {"ic", "sba"}
    <2>1. Row(order.at) + 1 \in Nat /\ Col(order.at) + 1 \in Nat
      BY <1>1, <1>4, KindsOfOrders
    <2> QED
      BY <1>4, <2>1, AddressType DEF Perform
  <1>5. CASE order.o = "ra"
    <2>1. Row(order.at) + 1 \in Nat /\ Col(order.at) + 1 \in Nat /\ order.c \in Chars
      BY <1>1, <1>5, KindsOfOrders
    <2> QED
      BY <1>5, <2>1, RepeatType DEF Perform
  <1>6. CASE order.o = "char"
    BY <1>6, KindsOfOrders, CharacterType DEF Perform
  <1>7. CASE order.o = "sf"
    BY <1>7, KindsOfOrders, InputFieldType DEF Perform
  <1>8. CASE order.o = "read"
    BY <1>8 DEF Perform
  <1> QED
    BY <1>2, <1>3, <1>4, <1>5, <1>6, <1>7, <1>8, KindsOfOrders

LEMMA RestoreType ==
    ASSUME NEW u \in Units, NEW orders \in Seq(OrdersKept)
    PROVE  RestoreScreen(u, orders) \in Units
  <1> DEFINE N == Len(orders)
             start == [u EXCEPT !.refused = "none"]
             after[n \in 0 .. N] == IF n = 0 THEN start ELSE Perform(after[n - 1], orders[n])
             v == after[N]
             reads == {n \in DOMAIN orders : orders[n].o = "read"}
             home == [v EXCEPT !.screen.cur = CursorHome(v.screen)]
  <1>1. N \in Nat /\ start \in Units /\ \A n \in 1 .. N : orders[n] \in OrdersKept
    BY DEF Units
  <1>2. after = [n \in 0 .. N |-> IF n = 0 THEN start ELSE Perform(after[n - 1], orders[n])]
    <2> DEFINE g == [x \in Units \X Nat |-> IF x[2] \in 1 .. N
                                            THEN Perform(x[1], orders[x[2]]) ELSE x[1]]
    <2>1. g \in [Units \X Nat -> Units]
      BY <1>1, PerformType
    <2>2. \A s \in Units, n \in 1 .. N : g[<<s, n>>] = Perform(s, orders[n])
      BY <1>1
    <2> HIDE DEF g, start, N
    <2>3. PICK f : Iterated(f, Units, start, g, N)
      BY <1>1, <2>1, Recursion DEF StepsIn
    <2>4. \A n \in 1 .. N : f[n - 1] \in Units
      BY <1>1, <2>3 DEF Iterated
    <2>5. f = [n \in 0 .. N |-> IF n = 0 THEN start ELSE Perform(f[n - 1], orders[n])]
      <3>1. \A n \in 1 .. N : f[n] = Perform(f[n - 1], orders[n])
        BY <2>2, <2>3, <2>4 DEF Iterated
      <3>2. f \in [0 .. N -> Units] /\ f[0] = start
        BY <2>3 DEF Iterated
      <3> QED
        BY <1>1, <3>1, <3>2
    <2> QED
      BY <2>5
  <1> HIDE DEF after, start, N
  <1>3. v \in Units
    <2> DEFINE T == {n \in Nat : n <= N => after[n] \in Units}
    <2>1. 0 \in T
      BY <1>1, <1>2
    <2>2. ASSUME NEW n \in Nat, n \in T PROVE n + 1 \in T
      <3> SUFFICES ASSUME n + 1 <= N PROVE after[n + 1] \in Units
        OBVIOUS
      <3>1. after[n] \in Units /\ orders[n + 1] \in OrdersKept
        BY <1>1, <2>2
      <3>2. after[n + 1] = Perform(after[n], orders[n + 1])
        BY <1>1, <1>2
      <3> QED
        BY <3>1, <3>2, PerformType
    <2> HIDE DEF T
    <2>3. Nat \subseteq T
      BY <2>1, <2>2, Induction
    <2> QED
      BY <1>1, <2>3 DEF T
  <1> HIDE DEF v
  <1>4. home \in Units
    <2>1. CursorHome(v.screen) \in Cells
      BY <1>3, HomeIsCell DEF Units
    <2> QED
      BY <1>3, <2>1 DEF Units, Screens
  <1>5. reads # {} => orders[Smallest(reads)].op \in ReadOps
    <2> SUFFICES ASSUME reads # {} PROVE orders[Smallest(reads)].op \in ReadOps
      OBVIOUS
    <2>1. reads \in SUBSET Nat /\ \A n \in reads : orders[n] \in OrdersKept /\ orders[n].o = "read"
      BY <1>1 DEF N
    <2> HIDE DEF reads
    <2>2. Smallest(reads) \in reads
      BY <2>1, SmallestExists
    <2> QED
      BY <2>1, <2>2, KindsOfOrders
  <1>6. RestoreScreen(u, orders)
          = IF reads = {} THEN home
            ELSE ReadCommand(home, orders[Smallest(reads)].op, "nothing")
    BY DEF RestoreScreen, v, after, start, N
  <1> QED
    BY <1>4, <1>5, <1>6, ControlType

------------------------------------------------------------------------------
(* Saving: the writer goes over the cells and puts orders the host may send.  *)
Writers == [orders : Seq(OrdersKept), char : Chars, count : Nat, at : Nat]

LEMMA SavedOrders ==
    /\ [o |-> "clear"] \in OrdersKept
    /\ \A data \in Headers : [o |-> "soh", data |-> data] \in OrdersKept
    /\ \A p \in Cells : [o |-> "ic", at |-> p] \in OrdersKept
    /\ \A p \in Cells : [o |-> "sba", at |-> p] \in OrdersKept
    /\ \A p \in Cells, c \in Chars : [o |-> "ra", at |-> p, c |-> c] \in OrdersKept
    /\ \A c \in Chars : [o |-> "char", c |-> c] \in OrdersKept
    /\ \A f \in Field, words \in Words :
          [o |-> "sf", field |-> f, words |-> words] \in OrdersKept
    /\ \A op \in ReadOps : [o |-> "read", op |-> op] \in OrdersKept
  BY DEF OrdersKept

LEMMA FlushType ==
    ASSUME NEW s \in Writers, NEW p \in Cells
    PROVE  Flush(s, p) \in Writers /\ Flush(s, p).at = s.at
  <1> DEFINE literal == [k \in 1 .. s.count |-> [o |-> "char", c |-> s.char]]
             run == IF s.count <= 4 /\ ~(s.count = 3 /\ s.char = Nul) THEN literal
                    ELSE IF s.char = Nul THEN <<[o |-> "sba", at |-> p]>>
                    ELSE <<[o |-> "ra", at |-> LeftOf(p), c |-> s.char]>>
  <1>1. s.orders \in Seq(OrdersKept) /\ s.char \in Chars /\ s.count \in Nat
    BY DEF Writers
  <1>2. literal \in Seq(OrdersKept)
    <2>1. [o |-> "char", c |-> s.char] \in OrdersKept
      BY <1>1, SavedOrders
    <2> QED
      BY <1>1, <2>1
  <1>3. LeftOf(p) \in Cells
    <2>1. p \in Int /\ Size \in Int
      BY CellsRight, ScreenSize
    <2>2. p + Size - 1 \in Int
      BY <2>1
    <2> QED
      BY <2>2, ScreenSize DEF LeftOf
  <1>4. /\ <<[o |-> "sba", at |-> p]>> \in Seq(OrdersKept)
        /\ <<[o |-> "ra", at |-> LeftOf(p), c |-> s.char]>> \in Seq(OrdersKept)
    <2>1. \A order \in OrdersKept : <<order>> \in Seq(OrdersKept)
      OBVIOUS
    <2> QED
      BY <1>1, <1>3, <2>1, SavedOrders
  <1> HIDE DEF literal
  <1>5. run \in Seq(OrdersKept)
    BY <1>2, <1>4
  <1> HIDE DEF run
  <1>6. s.orders \o run \in Seq(OrdersKept)
    BY <1>1, <1>5
  <1>7. Flush(s, p) = [s EXCEPT !.orders = s.orders \o run, !.count = 0]
    BY DEF Flush, run, literal
  <1> DEFINE orders == s.orders \o run
  <1> HIDE DEF orders
  <1>8. /\ [s EXCEPT !.orders = orders, !.count = 0] \in Writers
        /\ [s EXCEPT !.orders = orders, !.count = 0].at = s.at
    <2>1. orders \in Seq(OrdersKept)
      BY <1>6 DEF orders
    <2> QED
      BY <2>1 DEF Writers
  <1> QED
    BY <1>7, <1>8 DEF orders

LEMMA PutRunType ==
    ASSUME NEW s \in Writers, NEW p \in Cells, NEW c \in Chars
    PROVE  PutRun(s, p, c) \in Writers /\ PutRun(s, p, c).at = s.at
  <1> DEFINE t == IF s.char # c THEN Flush(s, p) ELSE s
  <1>1. t \in Writers /\ t.at = s.at
    BY FlushType
  <1> HIDE DEF t
  <1>2. PutRun(s, p, c) = [t EXCEPT !.char = c, !.count = t.count + 1]
    BY DEF PutRun, t
  <1>3. t.count + 1 \in Nat
    BY <1>1 DEF Writers
  <1>4. \A n \in Nat : /\ [t EXCEPT !.char = c, !.count = n] \in Writers
                       /\ [t EXCEPT !.char = c, !.count = n].at = t.at
    BY <1>1 DEF Writers
  <1> QED
    BY <1>1, <1>2, <1>3, <1>4

LEMMA PutFieldType ==
    ASSUME NEW s \in Writers, NEW p \in Cells, NEW f \in Field
    PROVE  PutField(s, p, f) \in Writers /\ PutField(s, p, f).at = s.at
  <1>1. WordsOf(f) \in Words
    <2>1. f.part \in Parts \cup {"wrap"}
      BY DEF Field
    <2>2. <<f.part>> \in Seq(Parts \cup {"wrap"}) /\ <<"wrap">> \in Seq(Parts \cup {"wrap"})
      BY <2>1
    <2>3. <<>> \in Seq(Parts \cup {"wrap"})
      OBVIOUS
    <2>4. \A a, b \in Seq(Parts \cup {"wrap"}) : a \o b \in Seq(Parts \cup {"wrap"})
      OBVIOUS
    <2>5. /\ (IF f.part = "none" THEN <<>> ELSE <<f.part>>) \in Seq(Parts \cup {"wrap"})
          /\ (IF f.wordwrap THEN <<"wrap">> ELSE <<>>) \in Seq(Parts \cup {"wrap"})
      BY <2>2, <2>3
    <2> QED
      BY <2>4, <2>5 DEF WordsOf, Words
  <1> DEFINE order == [o |-> "sf", field |-> f, words |-> WordsOf(f)]
             t == Flush(s, p)
  <1>2. order \in OrdersKept
    BY <1>1, SavedOrders
  <1>3. t \in Writers /\ t.at = s.at
    BY FlushType
  <1> HIDE DEF order, t
  <1>4. Append(t.orders, order) \in Seq(OrdersKept)
    BY <1>2, <1>3 DEF Writers
  <1>5. PutField(s, p, f) = [t EXCEPT !.orders = Append(t.orders, order)]
    BY DEF PutField, Put, t, order
  <1> QED
    BY <1>3, <1>4, <1>5 DEF Writers

LEMMA PutCellType ==
    ASSUME NEW d \in Screens, NEW s \in Writers, NEW p \in Cells
    PROVE  PutCell(d, s, p) \in Writers /\ PutCell(d, s, p).at = s.at
  <1>1. d.data[p] \in Chars /\ d.fields \in Seq(OnScreen)
    BY DEF Screens
  <1>2. CASE PeekField(d, p) = 0
    BY <1>1, <1>2, PutRunType DEF PutCell
  <1>3. CASE PeekField(d, p) # 0
    <2>1. p # Size - 1 /\ PeekField(d, p) = FieldYX(d, p + 1)
      BY <1>3 DEF PeekField
    <2>2. p + 1 \in Cells
      <3>1. p \in Nat /\ p < Size /\ Size \in Nat
        BY CellsRight, ScreenSize
      <3> QED
        BY <2>1, <3>1 DEF Cells
    <2>3. PeekField(d, p) \in 1 .. Len(d.fields)
      BY <1>3, <2>1, <2>2, FieldFound
    <2>4. d.fields[PeekField(d, p)] \in Field
      BY <1>1, <2>3 DEF OnScreen
    <2> QED
      BY <1>3, <2>4, PutFieldType DEF PutCell
  <1> QED
    BY <1>2, <1>3

LEMMA PrologueType ==
    ASSUME NEW d \in Screens
    PROVE  Writer(d) \in Writers /\ Writer(d).at = 0
  <1>1. \A order \in OrdersKept : <<order>> \in Seq(OrdersKept)
    OBVIOUS
  <1>2. d.cur \in Cells /\ (d.header = <<>> \/ d.header \in Headers)
    BY DEF Screens, HeadersKept
  <1>3. /\ <<[o |-> "clear"]>> \in Seq(OrdersKept)
        /\ <<[o |-> "ic", at |-> d.cur]>> \in Seq(OrdersKept)
        /\ d.header # <<>> => <<[o |-> "soh", data |-> d.header]>> \in Seq(OrdersKept)
    BY <1>1, <1>2, SavedOrders
  <1> DEFINE header == IF d.header = <<>> THEN <<>> ELSE <<[o |-> "soh", data |-> d.header]>>
  <1>4. header \in Seq(OrdersKept)
    <2>1. <<>> \in Seq(OrdersKept)
      OBVIOUS
    <2> QED
      BY <1>3, <2>1
  <1> HIDE DEF header
  <1>5. Prologue(d) \in Seq(OrdersKept)
    <2>1. Prologue(d) = <<[o |-> "clear"]>> \o header \o <<[o |-> "ic", at |-> d.cur]>>
      BY DEF Prologue, header
    <2>2. \A a, b, c \in Seq(OrdersKept) : a \o b \o c \in Seq(OrdersKept)
      OBVIOUS
    <2> QED
      BY <1>3, <1>4, <2>1, <2>2
  <1> QED
    BY <1>5, ConstantTypes DEF Writer, Writers

(* One cell on. *)
WriteOn(d, s) == [PutCell(d, s, s.at) EXCEPT !.at = @ + 1]

LEMMA WriteOnType ==
    ASSUME NEW d \in Screens, NEW s \in Writers, s.at \in Cells
    PROVE  WriteOn(d, s) \in Writers /\ WriteOn(d, s).at = s.at + 1
  <1> DEFINE t == PutCell(d, s, s.at)
  <1>1. t \in Writers /\ t.at = s.at
    BY PutCellType
  <1> HIDE DEF t
  <1>2. t.at + 1 \in Nat
    BY <1>1 DEF Writers
  <1>3. \A n \in Nat : [t EXCEPT !.at = n] \in Writers /\ [t EXCEPT !.at = n].at = n
    BY <1>1 DEF Writers
  <1> QED
    BY <1>1, <1>2, <1>3 DEF WriteOn, t

(* The writer has as many states behind it as cells, each at its cell. *)
LEMMA WtdDataType ==
    ASSUME NEW d \in Screens
    PROVE  WtdData(d) \in Seq(OrdersKept)
  <1> DEFINE x == Writer(d)
             first[k \in 0 .. Size] ==
                 IF k = 0 THEN <<x>>
                 ELSE LET s == first[k - 1] IN Append(s, WriteOn(d, s[k]))
             Ready(s, k) == Len(s) = k /\ s[k].at \in Cells
  <1>1. Size \in Nat /\ x \in Writers /\ x.at = 0 /\ <<x>> \in Seq(Writers)
    BY ScreenSize, PrologueType
  <1>2. first = [k \in 0 .. Size |->
                    IF k = 0 THEN <<x>> ELSE Append(first[k - 1], WriteOn(d, first[k - 1][k]))]
    <2> DEFINE g == [y \in Seq(Writers) \X Nat |->
                        IF y[2] > 0 /\ Ready(y[1], y[2])
                        THEN Append(y[1], WriteOn(d, y[1][y[2]])) ELSE y[1]]
    <2>1. g \in StepsIn(Seq(Writers))
      <3>1. ASSUME NEW s \in Seq(Writers), NEW k \in Nat, k > 0, Ready(s, k)
            PROVE  Append(s, WriteOn(d, s[k])) \in Seq(Writers)
        <4>1. s[k] \in Writers /\ s[k].at \in Cells
          BY <3>1
        <4>2. WriteOn(d, s[k]) \in Writers
          BY <4>1, WriteOnType
        <4> QED
          BY <4>2
      <3> QED
        BY <3>1 DEF StepsIn
    <2>2. \A s \in Seq(Writers), k \in Nat :
             k > 0 /\ Ready(s, k) => g[<<s, k>>] = Append(s, WriteOn(d, s[k]))
      OBVIOUS
    <2> HIDE DEF g, x
    <2>3. PICK f : Iterated(f, Seq(Writers), <<x>>, g, Size)
      BY <1>1, <2>1, Recursion
    <2>4. /\ f \in [0 .. Size -> Seq(Writers)] /\ f[0] = <<x>>
          /\ \A k \in 1 .. Size : f[k] = g[<<f[k - 1], k>>]
      BY <2>3 DEF Iterated
    <2> DEFINE T == {k \in Nat : k <= Size => Len(f[k]) = k + 1 /\ f[k][k + 1].at = k}
    <2>5. 0 \in T
      <3>1. Len(<<x>>) = 1 /\ <<x>>[1] = x
        OBVIOUS
      <3>2. Len(f[0]) = 1 /\ f[0][1].at = 0
        BY <1>1, <2>4, <3>1
      <3>3. 0 + 1 = 1
        OBVIOUS
      <3>4. Len(f[0]) = 0 + 1 /\ f[0][0 + 1].at = 0
        BY <3>2, <3>3
      <3> QED
        BY <3>4
    <2>6. ASSUME NEW k \in Nat, k \in T PROVE k + 1 \in T
      <3> SUFFICES ASSUME k + 1 <= Size
                   PROVE  Len(f[k + 1]) = k + 2 /\ f[k + 1][k + 2].at = k + 1
        OBVIOUS
      <3>1. f[k] \in Seq(Writers) /\ Len(f[k]) = k + 1 /\ f[k][k + 1].at = k /\ k \in Cells
        BY <1>1, <2>4, <2>6 DEF Cells
      <3>2. f[k + 1] = Append(f[k], WriteOn(d, f[k][k + 1]))
        <4>1. k + 1 \in 1 .. Size /\ (k + 1) - 1 = k /\ k + 1 > 0 /\ k + 1 \in Nat
          BY <1>1
        <4>2. f[k + 1] = g[<<f[k], k + 1>>]
          BY <2>4, <4>1
        <4>3. Ready(f[k], k + 1)
          BY <3>1
        <4> HIDE DEF Ready
        <4> QED
          BY <2>2, <3>1, <4>1, <4>2, <4>3
      <3>3. f[k][k + 1] \in Writers
        BY <3>1
      <3>4. WriteOn(d, f[k][k + 1]).at = k + 1
        BY <3>1, <3>3, WriteOnType
      <3> QED
        BY <3>1, <3>2, <3>4
    <2> HIDE DEF T
    <2>7. Nat \subseteq T
      BY <2>5, <2>6, Induction
    <2>8. ASSUME NEW k \in 1 .. Size
          PROVE  f[k] = Append(f[k - 1], WriteOn(d, f[k - 1][k]))
      <3>1. k - 1 \in T /\ k - 1 \in 0 .. Size
        BY <1>1, <2>7
      <3>2. Len(f[k - 1]) = k /\ f[k - 1][k].at = k - 1
        BY <1>1, <3>1 DEF T
      <3>3. k - 1 \in Cells /\ k \in Nat /\ k > 0
        BY <1>1 DEF Cells
      <3>4. f[k - 1] \in Seq(Writers) /\ Ready(f[k - 1], k)
        BY <2>4, <3>1, <3>2, <3>3
      <3>5. f[k] = g[<<f[k - 1], k>>]
        BY <2>4
      <3> HIDE DEF Ready
      <3> QED
        BY <2>2, <3>3, <3>4, <3>5
    <2>9. f = [k \in 0 .. Size |->
                  IF k = 0 THEN <<x>> ELSE Append(f[k - 1], WriteOn(d, f[k - 1][k]))]
      <3> DEFINE next(k) == Append(f[k - 1], WriteOn(d, f[k - 1][k]))
      <3>1. DOMAIN f = 0 .. Size /\ f = [k \in DOMAIN f |-> f[k]] /\ f[0] = <<x>>
        BY <2>4
      <3>2. \A k \in 1 .. Size : f[k] = next(k)
        BY <2>8
      <3> HIDE DEF next
      <3>3. \A k \in 0 .. Size : f[k] = IF k = 0 THEN <<x>> ELSE next(k)
        <4> TAKE k \in 0 .. Size
        <4>1. k = 0 \/ k \in 1 .. Size
          BY <1>1
        <4>2. k \in 1 .. Size => k # 0
          BY <1>1
        <4> QED
          BY <2>4, <3>2, <4>1, <4>2, Zenon
      <3>4. f = [k \in 0 .. Size |-> f[k]]
        BY <3>1
      <3>5. f = [k \in 0 .. Size |-> IF k = 0 THEN <<x>> ELSE next(k)]
        BY <3>3, <3>4, Zenon
      <3> QED
        BY <3>5 DEF next
    <2> QED
      BY <2>9
  <1> HIDE DEF first, x
  <1> DEFINE T == {k \in Nat : k <= Size =>
                      /\ first[k] \in Seq(Writers) /\ Len(first[k]) = k + 1
                      /\ first[k][k + 1].at = k}
  <1>3. 0 \in T
    BY <1>1, <1>2
  <1>4. ASSUME NEW k \in Nat, k \in T PROVE k + 1 \in T
    <2> SUFFICES ASSUME k + 1 <= Size
                 PROVE  /\ first[k + 1] \in Seq(Writers) /\ Len(first[k + 1]) = k + 2
                        /\ first[k + 1][k + 2].at = k + 1
      OBVIOUS
    <2>1. /\ first[k] \in Seq(Writers) /\ Len(first[k]) = k + 1
          /\ first[k][k + 1].at = k /\ k \in Cells
      BY <1>1, <1>4 DEF Cells
    <2>2. first[k + 1] = Append(first[k], WriteOn(d, first[k][k + 1]))
      <3>1. k + 1 \in 0 .. Size /\ k + 1 # 0 /\ (k + 1) - 1 = k
        BY <1>1
      <3> QED
        BY <1>2, <3>1
    <2>3. first[k][k + 1] \in Writers
      BY <2>1
    <2>4. /\ WriteOn(d, first[k][k + 1]) \in Writers
          /\ WriteOn(d, first[k][k + 1]).at = k + 1
      BY <2>1, <2>3, WriteOnType
    <2> QED
      BY <2>1, <2>2, <2>4
  <1> HIDE DEF T
  <1>5. Size \in T
    BY <1>1, <1>3, <1>4, Induction
  <1>6. first[Size] \in Seq(Writers) /\ Len(first[Size]) = Size + 1
    BY <1>1, <1>5 DEF T
  <1>7. first[Size][Size + 1] \in Writers
    BY <1>1, <1>6
  <1>8. WtdData(d) = first[Size][Size + 1].orders
    BY DEF WtdData, Iterates, WriteOn, first, x
  <1> QED
    BY <1>7, <1>8 DEF Writers

LEMMA SaveType ==
    ASSUME NEW u \in Units
    PROVE  SaveScreen(u) \in Seq(OrdersKept)
  <1>1. WtdData(u.screen) \in Seq(OrdersKept)
    BY WtdDataType DEF Units
  <1> DEFINE read == IF u.read = "none" THEN <<>> ELSE <<[o |-> "read", op |-> u.read]>>
  <1>2. read \in Seq(OrdersKept)
    <2>1. u.read = "none" \/ [o |-> "read", op |-> u.read] \in OrdersKept
      BY SavedOrders DEF Units
    <2>2. \A order \in OrdersKept : <<order>> \in Seq(OrdersKept)
      OBVIOUS
    <2>3. <<>> \in Seq(OrdersKept)
      OBVIOUS
    <2> QED
      BY <2>1, <2>2, <2>3
  <1> HIDE DEF read
  <1>3. WtdData(u.screen) \o read \in Seq(OrdersKept)
    BY <1>1, <1>2
  <1> QED
    BY <1>3 DEF SaveScreen, read

------------------------------------------------------------------------------
(* Every step keeps the unit, and the host only gets orders to keep.          *)
LEMMA FreshUnit ==
    ASSUME unit \in Units
    PROVE  Fresh \in Units /\ Fresh.screen = unit.screen /\ Fresh.locked = unit.locked
  BY DEF Fresh, Units

LEMMA Names ==
    ASSUME NEW p \in Cells
    PROVE  Y(p) \in Nat /\ X(p) \in Nat
  <1>1. Row(p) \in Nat /\ Col(p) \in Nat
    BY RowCol, DisplayBufferAssumption
  <1> QED
    BY <1>1 DEF Y, X

LEMMA OrderKeeps ==
    ASSUME unit \in Units, AnyOrder
    PROVE  unit' \in Units /\ UNCHANGED <<writing, control, saved>>
  <1> USE DEF Order
  <1> DEFINE u == Fresh
  <1>1. u \in Units
    BY FreshUnit
  <1> HIDE DEF u
  <1>2. \A p \in Addresses : p \in Cells /\ Y(p) \in Nat /\ X(p) \in Nat
    BY Names, WriteToDisplayAssumption
  <1>3. \A c \in Bytes : c \in Chars
    BY WriteToDisplayAssumption
  <1>4. CASE PutCharacter
    BY <1>1, <1>3, <1>4, CharacterType DEF PutCharacter, u
  <1>5. CASE SetAddress
    BY <1>1, <1>2, <1>5, AddressType DEF SetAddress, u
  <1>6. CASE AddressOutside
    <2>1. h + 1 \in Nat /\ 1 \in Nat /\ 0 \in Nat
      BY DisplayBufferAssumption
    <2>2. /\ SetBufferAddress(u, h + 1, 1) \in Units /\ InsertCursor(u, 1, 0) \in Units
          /\ MoveCursor(u, 1, 1) \in Units
          /\ \A type \in {2, 3} : WriteExtendedAttribute(u, type) \in Units
      BY <1>1, <2>1, AddressType, OtherOrders
    <2> QED
      BY <1>6, <2>2 DEF AddressOutside, u
  <1>7. CASE SetInsertCursor
    BY <1>1, <1>2, <1>7, AddressType DEF SetInsertCursor, u
  <1>8. CASE Repeat
    BY <1>1, <1>2, <1>3, <1>8, RepeatType DEF Repeat, u
  <1>9. CASE Erase
    BY <1>1, <1>2, <1>9, EraseType DEF Erase, u
  <1>10. CASE Transparent
    BY <1>1, <1>10, TransparentType, WriteToDisplayAssumption DEF Transparent, u
  <1>11. CASE StartField
    <2>1. \A f \in Definitions : f.field \in Field /\ f.words \in Words
      BY WriteToDisplayAssumption DEF Words
    <2> QED
      BY <1>1, <1>11, <2>1, InputFieldType, OtherOrders DEF StartField, u
  <1>12. CASE StartHeader
    BY <1>1, <1>12, HeaderType DEF StartHeader, u
  <1> QED
    BY <1>4, <1>5, <1>6, <1>7, <1>8, <1>9, <1>10, <1>11, <1>12 DEF AnyOrder

LEMMA UserKeeps ==
    ASSUME unit \in Units, User
    PROVE  /\ unit' \in Units /\ UNCHANGED <<writing, control, saved>>
           /\ Format(unit'.screen) = Format(unit.screen)
  <1> USE DEF Idle
  <1>1. Fresh \in Units /\ Fresh.screen = unit.screen /\ unit.screen \in Screens
    BY FreshUnit DEF Units
  <1>2. CASE \E p \in Addresses : MoveTo(p)
    <2>1. PICK p \in Addresses : MoveTo(p)
      BY <1>2
    <2>2. p \in Cells
      BY WriteToDisplayAssumption
    <2>3. unit' = [Fresh EXCEPT !.screen.cur = p]
      BY <2>1 DEF MoveTo
    <2>4. unit' \in Units /\ unit'.screen.fields = unit.screen.fields
      BY <1>1, <2>2, <2>3 DEF Units, Screens
    <2>5. UNCHANGED <<writing, control, saved>>
      BY <2>1 DEF MoveTo
    <2>6. Format(unit'.screen) = Format(unit.screen)
      BY <2>4 DEF Format
    <2> QED
      BY <2>4, <2>5, <2>6
  <1>3. CASE \E c \in Bytes : TypeCharacter(c)
    <2>1. PICK c \in Bytes : TypeCharacter(c)
      BY <1>3
    <2>2. c \in Chars
      BY WriteToDisplayAssumption
    <2> DEFINE d == SetMdt(unit.screen, FieldYX(unit.screen, unit.screen.cur))
    <2>3. unit' = [Fresh EXCEPT !.screen = AddCh(d, c)]
      BY <2>1 DEF TypeCharacter
    <2>4. d \in Screens /\ Format(d) = Format(unit.screen)
      BY <1>1, MarkType
    <2> HIDE DEF d
    <2>5. AddCh(d, c) \in Screens /\ AddCh(d, c).fields = d.fields
      BY <2>2, <2>4, AddChType DEF AddCh, Screens
    <2>6. unit' \in Units /\ unit'.screen = AddCh(d, c)
      BY <1>1, <2>3, <2>5 DEF Units
    <2>7. UNCHANGED <<writing, control, saved>>
      BY <2>1 DEF TypeCharacter
    <2>8. Format(unit'.screen) = Format(d)
      BY <2>5, <2>6 DEF Format
    <2>9. Format(unit'.screen) = Format(unit.screen)
      BY <2>4, <2>8
    <2> QED
      BY <2>6, <2>7, <2>9
  <1> QED
    BY <1>2, <1>3 DEF User

LEMMA EndWriteKeeps ==
    ASSUME unit \in Units, control \in Controls, EndWrite
    PROVE  /\ unit' \in Units /\ writing' \in BOOLEAN /\ control' \in Controls
           /\ saved' = saved
           /\ unit'.screen.fields = unit.screen.fields
  <1> DEFINE d == unit.screen
             cur == IF control.unlock /\ ~control.keep THEN CursorHome(d) ELSE control.from
             locked == Fresh.locked /\ ~control.unlock
  <1>1. Fresh \in Units /\ Fresh.screen = unit.screen /\ unit.screen \in Screens
    BY FreshUnit DEF Units
  <1>2. cur \in Cells /\ locked \in BOOLEAN
    BY <1>1, HomeIsCell DEF Controls
  <1>3. unit' = [Fresh EXCEPT !.screen.cur = cur, !.locked = locked]
    BY DEF EndWrite
  <1> HIDE DEF cur, locked
  <1>4. unit' \in Units /\ unit'.screen.fields = unit.screen.fields
    BY <1>1, <1>2, <1>3 DEF Units, Screens
  <1>5. NoControl \in Controls
    BY ScreenSize DEF NoControl, Controls
  <1> QED
    BY <1>4, <1>5 DEF EndWrite

LEMMA BeginWriteKeeps ==
    ASSUME unit \in Units, NEW cc1 \in Cc1s, NEW unlock \in BOOLEAN, NEW keep \in BOOLEAN,
           BeginWrite(cc1, unlock, keep)
    PROVE  /\ unit' \in Units /\ writing' \in BOOLEAN /\ control' \in Controls
           /\ saved' = saved
           /\ Format(unit'.screen) = Format(unit.screen)
  <1>1. Fresh \in Units /\ Fresh.screen = unit.screen /\ unit.screen \in Screens
    BY FreshUnit DEF Units
  <1>2. unit' \in Units /\ Format(unit'.screen) = Format(unit.screen)
    BY <1>1, ControlType, Cc1Type DEF BeginWrite
  <1>3. unit.screen.cur \in Cells
    BY <1>1 DEF Screens
  <1> QED
    BY <1>2, <1>3 DEF BeginWrite, Controls

(* Orders: a field or a header locks the keyboard, and the others leave the   *)
(* table alone.                                                             *)
LEMMA OrderKeepsFormat ==
    ASSUME unit \in Units, AnyOrder, ~unit'.locked
    PROVE  unit'.screen.fields = unit.screen.fields
  <1> USE DEF Order
  <1> DEFINE u == Fresh
  <1>1. u \in Units /\ u.screen = unit.screen /\ u.screen \in Screens
    BY FreshUnit DEF Units
  <1> HIDE DEF u
  <1>2. \A code : Refuse(u, code).screen = u.screen
    BY <1>1 DEF Refuse, Units
  <1>3. \A c : Character(u, c).screen.fields = u.screen.fields
    BY <1>1 DEF Character, AddCh, Units, Screens
  <1>4. \A y, x : /\ SetBufferAddress(u, y, x).screen.fields = u.screen.fields
                  /\ InsertCursor(u, y, x).screen.fields = u.screen.fields
                  /\ MoveCursor(u, y, x).screen.fields = u.screen.fields
    BY <1>1, <1>2 DEF SetBufferAddress, InsertCursor, MoveCursor, Units, Screens
  <1>5. \A y, x, c : RepeatToAddress(u, y, x, c).screen.fields = u.screen.fields
    BY <1>1, <1>2 DEF RepeatToAddress, Units, Screens
  <1>6. \A y, x, list : EraseToAddress(u, y, x, list).screen.fields = u.screen.fields
    <2>1. \A y, x : Erased(u.screen, y, x).fields = u.screen.fields
      BY <1>1 DEF Erased, Screens
    <2> QED
      BY <1>1, <1>2, <2>1 DEF EraseToAddress, Erased, Units, Screens
  <1>7. \A text : TransparentData(u, text).screen.fields = u.screen.fields
    BY <1>1, <1>2 DEF TransparentData, Units, Screens
  <1>8. \A type : WriteExtendedAttribute(u, type).screen.fields = u.screen.fields
    BY <1>2 DEF WriteExtendedAttribute
  <1>9. \A len : OutputField(u, len).screen.fields = u.screen.fields
    <2>1. Character(u, Attr) \in Units
      BY <1>1, ConstantTypes, CharacterType
    <2>2. Refuse(Character(u, Attr), "address").screen = Character(u, Attr).screen
      BY <2>1 DEF Refuse, Units
    <2> QED
      BY <1>3, <2>2 DEF OutputField
  <1>10. ASSUME NEW data \in Headers PROVE StartOfHeader(u, data).locked
    BY <1>1 DEF StartOfHeader, Refuse, Units
  <1>11. CASE PutCharacter
    BY <1>1, <1>3, <1>11 DEF PutCharacter, u
  <1>12. CASE SetAddress \/ AddressOutside \/ SetInsertCursor
    BY <1>1, <1>4, <1>8, <1>12 DEF SetAddress, AddressOutside, SetInsertCursor, u
  <1>13. CASE Repeat
    BY <1>1, <1>5, <1>13 DEF Repeat, u
  <1>14. CASE Erase
    BY <1>1, <1>6, <1>14 DEF Erase, u
  <1>15. CASE Transparent
    BY <1>1, <1>7, <1>15 DEF Transparent, u
  <1>16. CASE StartField
    <2>1. \A f \in Definitions : InputField(u, f.field, f.words).locked
      <3>1. \A f \in Definitions : f.field \in Field /\ f.words \in Words
        BY WriteToDisplayAssumption DEF Words
      <3> QED
        BY <1>1, <3>1, InputFieldType
    <2> QED
      BY <1>1, <1>9, <1>16, <2>1 DEF StartField, u
  <1>17. CASE StartHeader
    BY <1>10, <1>17 DEF StartHeader, u
  <1> QED
    BY <1>11, <1>12, <1>13, <1>14, <1>15, <1>16, <1>17 DEF AnyOrder

LEMMA CommandKeeps ==
    ASSUME unit \in Units, Clear \/ Read \/ RollUp
    PROVE  /\ unit' \in Units /\ UNCHANGED <<writing, control, saved>>
           /\ ~unit'.locked => Format(unit'.screen) = Format(unit.screen)
  <1> USE DEF Idle, Command
  <1> DEFINE u == Fresh
  <1>1. u \in Units /\ u.screen = unit.screen /\ u.screen \in Screens
    BY FreshUnit DEF Units
  <1> HIDE DEF u
  <1>2. CASE Clear
    <2>1. unit' = ClearUnit(u) \/ unit' = ClearFormatTable(u)
      BY <1>2 DEF Clear, u
    <2>2. ClearUnit(u).locked /\ ClearFormatTable(u).locked
      BY <1>1 DEF ClearUnit, ClearFormatTable, Units
    <2>3. UNCHANGED <<writing, control, saved>>
      BY <1>2 DEF Clear
    <2> QED
      BY <1>1, <2>1, <2>2, <2>3, OtherOrders
  <1>3. CASE Read
    <2>1. PICK op \in ReadOps, cc1 \in Cc1s : unit' = ReadCommand(u, op, cc1)
      BY <1>3 DEF Read, u
    <2>2. UNCHANGED <<writing, control, saved>>
      BY <1>3 DEF Read
    <2> QED
      BY <1>1, <2>1, <2>2, ControlType, Cc1Type
  <1>4. CASE RollUp
    <2>1. PICK r \in Rolls : unit' = Roll(u, r.top, r.bottom, r.lines)
      BY <1>4 DEF RollUp, u
    <2>2. UNCHANGED <<writing, control, saved>>
      BY <1>4 DEF RollUp
    <2>3. unit' \in Units /\ unit'.screen.fields = unit.screen.fields
      BY <1>1, <2>1, RollType
    <2>4. Format(unit'.screen) = Format(unit.screen)
      BY <2>3 DEF Format
    <2> QED
      BY <2>2, <2>3, <2>4
  <1> QED
    BY <1>2, <1>3, <1>4

(* The inductive invariant. *)
LEMMA Initially == Init => IInv
  <1> SUFFICES ASSUME Init PROVE IInv
    OBVIOUS
  <1>1. NoControl \in Controls
    BY ScreenSize DEF NoControl, Controls
  <1>2. Nothing.orders \in Seq(OrdersKept)
    BY DEF Nothing
  <1> QED
    BY <1>1, <1>2, ConstantTypes DEF Init, IInv

LEMMA Inductive == IInv /\ [Next]_vars => IInv'
  <1> SUFFICES ASSUME IInv, [Next]_vars PROVE IInv'
    OBVIOUS
  <1>1. unit \in Units /\ control \in Controls
    BY DEF IInv
  <1>2. ASSUME NEW cc1 \in Cc1s, NEW unlock \in BOOLEAN, NEW keep \in BOOLEAN,
               BeginWrite(cc1, unlock, keep)
        PROVE  IInv'
    BY <1>1, <1>2, BeginWriteKeeps DEF IInv
  <1>3. CASE AnyOrder
    BY <1>1, <1>3, OrderKeeps DEF IInv
  <1>4. CASE EndWrite
    BY <1>1, <1>4, EndWriteKeeps DEF IInv
  <1>5. CASE Clear \/ Read \/ RollUp
    BY <1>1, <1>5, CommandKeeps DEF IInv
  <1>6. CASE Save
    <2>1. saved'.orders = SaveScreen(unit)
      BY <1>6 DEF Save
    <2>2. UNCHANGED <<unit, writing, control>>
      BY <1>6 DEF Save, Idle
    <2> QED
      BY <1>1, <2>1, <2>2, SaveType DEF IInv
  <1>7. CASE Restore
    <2>1. unit' = RestoreScreen(unit, saved.orders) /\ UNCHANGED <<writing, control, saved>>
      BY <1>7 DEF Restore, Idle
    <2>2. RestoreScreen(unit, saved.orders) \in Units
      BY <1>1, RestoreType DEF IInv
    <2> QED
      BY <2>1, <2>2 DEF IInv
  <1>8. CASE User
    BY <1>1, <1>8, UserKeeps DEF IInv
  <1>9. CASE UNCHANGED vars
    BY <1>9 DEF IInv, vars
  <1> QED
    BY <1>2, <1>3, <1>4, <1>5, <1>6, <1>7, <1>8, <1>9 DEF Next

(* Whatever the host writes, saves and restores, and the user types, the unit *)
(* holds a screen of cells, fields that end on it and a read the host issued, *)
(* and the host keeps orders it may send.                                    *)
THEOREM Invariance == Spec => []IInv
  BY Initially, Inductive, PTL DEF Spec

(* The unit holds a screen, and a read is in force only as the host issued   *)
(* it.                                                                      *)
THEOREM TypeCorrect == Spec => []TypeOK
  <1>1. IInv => TypeOK
    <2> SUFFICES ASSUME IInv PROVE TypeOK
      OBVIOUS
    <2>1. unit \in Units /\ unit.screen \in Screens /\ control.from \in Cells
      BY DEF IInv, Units, Controls
    <2>2. \A i \in DOMAIN unit.screen.fields : unit.screen.fields[i] \in Field
      BY <2>1 DEF Screens, OnScreen
    <2> QED
      BY <2>1, <2>2 DEF TypeOK, IInv, Units, Screens
  <1> QED
    BY <1>1, Invariance, PTL

(* Every field ends on the screen, wherever the host puts it: what goes over  *)
(* the cells of a field does not leave the buffer (the fields are not         *)
(* checked again when they are read, cleared and shifted).                    *)
THEOREM FieldsStayOnScreen == Spec => []FieldsOnScreen
  <1>1. IInv => FieldsOnScreen
    <2> SUFFICES ASSUME IInv PROVE FieldsOnScreen
      OBVIOUS
    <2>1. unit.screen.fields \in Seq(OnScreen)
      BY DEF IInv, Units, Screens
    <2>2. \A i \in DOMAIN unit.screen.fields : unit.screen.fields[i] \in OnScreen
      BY <2>1
    <2> QED
      BY <2>2 DEF FieldsOnScreen, OnScreen
  <1> QED
    BY <1>1, Invariance, PTL

(* The format under the user's cursor does not change while the keyboard is   *)
(* unlocked before and after, but by Restore: who changes the table locks.    *)
THEOREM FormatStays == Spec => UnlockedFormatStays
  <1> DEFINE Stays == ~unit.locked /\ ~unit'.locked =>
                 Format(unit'.screen) = Format(unit.screen) \/ Restore
  <1>1. IInv /\ [Next]_vars => [Stays]_vars
    <2> SUFFICES ASSUME IInv, [Next]_vars, ~unit.locked, ~unit'.locked, ~Restore,
                        ~UNCHANGED vars
                 PROVE  Format(unit'.screen) = Format(unit.screen)
      OBVIOUS
    <2>1. unit \in Units /\ control \in Controls
      BY DEF IInv
    <2>2. ASSUME NEW cc1 \in Cc1s, NEW unlock \in BOOLEAN, NEW keep \in BOOLEAN,
                 BeginWrite(cc1, unlock, keep)
          PROVE  Format(unit'.screen) = Format(unit.screen)
      BY <2>1, <2>2, BeginWriteKeeps
    <2>3. CASE AnyOrder
      <3>1. unit'.screen.fields = unit.screen.fields
        BY <2>1, <2>3, OrderKeepsFormat
      <3> QED
        BY <3>1 DEF Format
    <2>4. CASE EndWrite
      <3>1. unit'.screen.fields = unit.screen.fields
        BY <2>1, <2>4, EndWriteKeeps
      <3> QED
        BY <3>1 DEF Format
    <2>5. CASE Clear \/ Read \/ RollUp
      BY <2>1, <2>5, CommandKeeps
    <2>6. CASE Save
      BY <2>6 DEF Save
    <2>7. CASE User
      BY <2>1, <2>7, UserKeeps
    <2> QED
      BY <2>2, <2>3, <2>4, <2>5, <2>6, <2>7 DEF Next
  <1> QED
    BY <1>1, Invariance, PTL DEF Spec, UnlockedFormatStays
==============================================================================
