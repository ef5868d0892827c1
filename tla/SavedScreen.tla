------------------------------ MODULE SavedScreen ------------------------------
(***************************************************************************)
(* Saving a screen turns it into orders (wtd.c) that the host keeps and     *)
(* sends back to restore it.  An order is a record named for the operator   *)
(* of module Orders it stands for.  Windows and menu bars, which are saved  *)
(* as structured fields, are in module Constructs.                          *)
(***************************************************************************)
EXTENDS Orders

(***************************************************************************)
(* The writer: the orders so far, and a run of equal bytes not yet written. *)
(***************************************************************************)
Put(s, order) == [s EXCEPT !.orders = Append(@, order)]

(* A mutant: a run of NULs behind Clear Unit is skipped to the cell before. *)
FlushShort(s, p) ==
    LET literal == [k \in 1 .. s.count |-> [o |-> "char", c |-> s.char]]
        run == IF s.count <= 4 /\ ~(s.count = 3 /\ s.char = Nul) THEN literal
               ELSE IF s.char = Nul THEN <<[o |-> "sba", at |-> LeftOf(p)]>>
               ELSE <<[o |-> "ra", at |-> LeftOf(p), c |-> s.char]>>
    IN [s EXCEPT !.orders = @ \o run, !.count = 0]

(* Up to four bytes are written as they are, but three NULs, and more of    *)
(* them, are skipped: the unit has been cleared.  Other runs are repeated    *)
(* up to the cell before this one.                                          *)
Flush(s, p) ==
    LET literal == [k \in 1 .. s.count |-> [o |-> "char", c |-> s.char]]
        run == IF s.count <= 4 /\ ~(s.count = 3 /\ s.char = Nul) THEN literal
               ELSE IF s.char = Nul THEN <<[o |-> "sba", at |-> p]>>
               ELSE <<[o |-> "ra", at |-> LeftOf(p), c |-> s.char]>>
    IN [s EXCEPT !.orders = @ \o run, !.count = 0]

PutRun(s, p, c) ==
    LET t == IF s.char # c THEN Flush(s, p) ELSE s
    IN [t EXCEPT !.char = c, !.count = @ + 1]

(* The field that starts behind a cell, as seen from the cell; none from    *)
(* the last cell, though the next is the first.                              *)
PeekField(d, p) ==
    IF p = Size - 1 \/ ~StartsField(d, p + 1) THEN 0 ELSE FieldYX(d, p + 1)

(* The control words of a field that are saved. *)
WordsOf(f) == (IF f.part = "none" THEN <<>> ELSE <<f.part>>)
              \o (IF f.wordwrap THEN <<"wrap">> ELSE <<>>)

PutField(s, p, f) ==
    Put(Flush(s, p), [o |-> "sf", field |-> f, words |-> WordsOf(f)])

PutCell(d, s, p) ==
    LET i == PeekField(d, p)
    IN IF i # 0 THEN PutField(s, p, d.fields[i]) ELSE PutRun(s, p, d.data[p])

(* The orders before the first cell: the unit is cleared, the header set, and *)
(* the insert cursor put where the cursor is.                                 *)
Prologue(d) == <<[o |-> "clear"]>>
           \o (IF d.header = <<>> THEN <<>> ELSE <<[o |-> "soh", data |-> d.header]>>)
           \o <<[o |-> "ic", at |-> d.cur]>>
Writer(d) == [orders |-> Prologue(d), char |-> Nul, count |-> 0, at |-> 0]

(* The whole screen.  A run that reaches the end is never flushed. *)
WtdData(d) ==
    LET cells == Iterates(LAMBDA s : [PutCell(d, s, s.at) EXCEPT !.at = @ + 1],
                          Writer(d), Size)
    IN cells[Size + 1].orders

(* Behind it, the read that was in force. *)
SaveScreen(u) ==
    WtdData(u.screen)
    \o (IF u.read = "none" THEN <<>> ELSE <<[o |-> "read", op |-> u.read]>>)

(***************************************************************************)
(* Restoring: the orders are carried out in turn; then the cursor goes home, *)
(* as it does for every record with the operation code Restore Screen.       *)
(***************************************************************************)
Perform(u, order) ==
    CASE order.o = "clear" -> ClearUnit(u)
      [] order.o = "soh" -> StartOfHeader(u, order.data)
      [] order.o = "ic" -> InsertCursor(u, Row(order.at) + 1, Col(order.at) + 1)
      [] order.o = "sba" -> SetBufferAddress(u, Row(order.at) + 1, Col(order.at) + 1)
      [] order.o = "ra" -> RepeatToAddress(u, Row(order.at) + 1, Col(order.at) + 1, order.c)
      [] order.o = "char" -> Character(u, order.c)
      [] order.o = "sf" -> InputField(u, order.field, order.words)
      [] OTHER -> u

RestoreScreen(u, orders) ==
    LET start == [u EXCEPT !.refused = "none"]
        after[n \in 0 .. Len(orders)] ==
            IF n = 0 THEN start ELSE Perform(after[n - 1], orders[n])
        v == after[Len(orders)]
        reads == {n \in DOMAIN orders : orders[n].o = "read"}
        home == [v EXCEPT !.screen.cur = CursorHome(v.screen)]
    IN IF reads = {} THEN home
       ELSE ReadCommand(home, orders[Smallest(reads)].op, "nothing")
================================================================================
