----------------------------- MODULE WriteToDisplay -----------------------------
(***************************************************************************)
(* The host writes, saves and restores screens.  Records are handled one    *)
(* after the other, and between them the user moves the cursor and types    *)
(* while the keyboard is unlocked.  What the orders do is in module Orders, *)
(* what a saved screen is in module SavedScreen.                            *)
(***************************************************************************)
EXTENDS SavedScreen

CONSTANTS Addresses,     (* cells the orders name *)
          Bytes,         (* characters the host writes *)
          Texts,         (* texts of Transparent Data *)
          Definitions,   (* input fields: [field, words] *)
          OutputLengths, (* lengths of fields for output only *)
          Headers,       (* data of Start of Header *)
          AttributeLists,(* what Erase to Address erases *)
          Cc1s,          (* first control characters *)
          ReadOps,       (* reads the host may issue *)
          Rolls          (* [top, bottom, lines] *)

(* The host names rows of the screen in Roll: the code does not check them. *)
ASSUME WriteToDisplayAssumption ==
    /\ Addresses \subseteq Cells /\ Bytes \subseteq Chars /\ Texts \subseteq Seq(Chars)
    /\ Definitions \subseteq [field : Field, words : Seq(Parts \cup {"wrap"})]
    /\ OutputLengths \subseteq Nat
    /\ Rolls \subseteq [top : 0 .. h - 1, bottom : 0 .. h - 1, lines : Int]

VARIABLES unit,       (* the display, see module Orders *)
          writing,    (* a Write to Display is being carried out *)
          control,    (* its second control character and the cursor before it *)
          saved       (* the data of the last Save Screen, and of what *)

vars == <<unit, writing, control, saved>>

Idle == ~writing /\ UNCHANGED <<writing, control>>
Nothing == [is |-> FALSE, orders |-> <<>>, of |-> Unit]
NoControl == [unlock |-> FALSE, keep |-> FALSE, from |-> 0]
Fresh == [unit EXCEPT !.refused = "none"]

(***************************************************************************)
(* Write to Display                                                        *)
(***************************************************************************)
BeginWrite(cc1, unlock, keep) ==
    /\ keep => unlock
    /\ ~writing /\ writing' = TRUE
    /\ unit' = ControlFields(Fresh, cc1)
    /\ control' = [unlock |-> unlock, keep |-> keep, from |-> unit.screen.cur]
    /\ UNCHANGED saved

Order(u) == writing /\ unit' = u /\ UNCHANGED <<writing, control, saved>>

Y(p) == Row(p) + 1
X(p) == Col(p) + 1

PutCharacter == \E c \in Bytes : Order(Character(Fresh, c))
SetAddress == \E p \in Addresses : Order(SetBufferAddress(Fresh, Y(p), X(p)))
AddressOutside ==
    \/ Order(SetBufferAddress(Fresh, h + 1, 1))
    \/ Order(InsertCursor(Fresh, 1, 0))
    \/ Order(MoveCursor(Fresh, 1, 1))
    \/ \E type \in {2, 3} : Order(WriteExtendedAttribute(Fresh, type))
SetInsertCursor == \E p \in Addresses : Order(InsertCursor(Fresh, Y(p), X(p)))
Repeat == \E p \in Addresses, c \in Bytes : Order(RepeatToAddress(Fresh, Y(p), X(p), c))
Erase ==
    \E p \in Addresses, list \in AttributeLists : Order(EraseToAddress(Fresh, Y(p), X(p), list))
Transparent == \E text \in Texts : Order(TransparentData(Fresh, text))
StartField ==
    \/ \E f \in Definitions : Order(InputField(Fresh, f.field, f.words))
    \/ \E n \in OutputLengths : Order(OutputField(Fresh, n))
StartHeader == \E data \in Headers : Order(StartOfHeader(Fresh, data))

(* The cursor: home, if the keyboard is to be unlocked, and back otherwise. *)
EndWrite ==
    /\ writing /\ writing' = FALSE /\ control' = NoControl
    /\ LET d == unit.screen
           cur == IF control.unlock /\ ~control.keep THEN CursorHome(d) ELSE control.from
       IN unit' = [Fresh EXCEPT !.screen.cur = cur, !.locked = @ /\ ~control.unlock]
    /\ UNCHANGED saved

(***************************************************************************)
(* Other commands                                                          *)
(***************************************************************************)
Command(u) == Idle /\ unit' = u /\ UNCHANGED saved

Clear == Command(ClearUnit(Fresh)) \/ Command(ClearFormatTable(Fresh))
Read == \E op \in ReadOps, cc1 \in Cc1s : Command(ReadCommand(Fresh, op, cc1))
RollUp == \E r \in Rolls : Command(Roll(Fresh, r.top, r.bottom, r.lines))

Save ==
    /\ Idle
    /\ saved' = [is |-> TRUE, orders |-> SaveScreen(unit), of |-> unit]
    /\ UNCHANGED unit

Restore ==
    /\ Idle /\ saved.is
    /\ unit' = RestoreScreen(unit, saved.orders)
    /\ UNCHANGED saved

(***************************************************************************)
(* The user                                                                *)
(***************************************************************************)
MoveTo(p) == Idle /\ ~unit.locked /\ unit' = [Fresh EXCEPT !.screen.cur = p] /\ UNCHANGED saved

TypeCharacter(c) ==
    /\ Idle /\ ~unit.locked
    /\ LET d == unit.screen
           i == FieldYX(d, d.cur)
       IN /\ i # 0 /\ ~d.fields[i].bypass
          /\ unit' = [Fresh EXCEPT !.screen = AddCh(SetMdt(d, i), c)]
    /\ UNCHANGED saved

User == (\E p \in Addresses : MoveTo(p)) \/ (\E c \in Bytes : TypeCharacter(c))

Init == unit = Unit /\ writing = FALSE /\ control = NoControl /\ saved = Nothing

AnyOrder == \/ PutCharacter \/ SetAddress \/ AddressOutside \/ SetInsertCursor \/ Repeat
          \/ Erase \/ Transparent \/ StartField \/ StartHeader

Next ==
    \/ \E cc1 \in Cc1s, unlock, keep \in BOOLEAN : BeginWrite(cc1, unlock, keep)
    \/ AnyOrder \/ EndWrite
    \/ Clear \/ Read \/ RollUp \/ Save \/ Restore
    \/ User

Spec == Init /\ [][Next]_vars

(***************************************************************************)
(* Properties                                                              *)
(***************************************************************************)
(* The unit holds a screen, and a read is in force only as the host issued  *)
(* it.                                                                      *)
TypeOK ==
    /\ unit.screen.data \in [Cells -> Chars]
    /\ unit.screen.cur \in Cells /\ unit.screen.ic \in Cells
    /\ \A i \in DOMAIN unit.screen.fields : unit.screen.fields[i] \in Field
    /\ unit.locked \in BOOLEAN /\ unit.wrapping \in BOOLEAN /\ writing \in BOOLEAN
    /\ unit.read \in ReadOps \cup {"none"}
    /\ unit.refused \in {"none", "address", "attribute", "length"}
    /\ control.from \in Cells

(* Every field lies on the screen, however the host placed it: nothing the   *)
(* fields are read, cleared and shifted with leaves the buffer.              *)
FieldsOnScreen ==
    \A i \in DOMAIN unit.screen.fields : EndPos(unit.screen.fields[i]) < Size

(* The format under the user's cursor does not change: whoever adds,         *)
(* replaces or removes a field locks the keyboard first.                     *)
Format(d) == [i \in DOMAIN d.fields |-> [d.fields[i] EXCEPT !.mdt = FALSE]]
UnlockedFormatStays ==
    [][~unit.locked /\ ~unit'.locked =>
        Format(unit'.screen) = Format(unit.screen) \/ Restore]_vars

(* A restored screen is the saved one.  Fields that overlap another or start *)
(* in the first cell are not saved; the cells of a run that reaches the end  *)
(* are not; and the blank attribute behind a field shows where a NUL, a cell *)
(* of that run or the first cell had been written over it, and the one       *)
(* before a field wherever it had been overwritten.  The table comes in the  *)
(* order of the screen.  The word-wrap marks, which one field passes on to   *)
(* the next, come back when they had been passed on in that order.           *)
Plain(d) ==
    \A i \in DOMAIN d.fields :
        /\ d.fields[i].start # 0 /\ d.fields[i].len > 0
        /\ \A j \in DOMAIN d.fields : i # j =>
              FieldCells(d.fields[i]) \cap FieldCells(d.fields[j]) = {}
InScreenOrder(d) ==
    \A i, j \in DOMAIN d.fields : i < j => d.fields[i].start < d.fields[j].start
LastRun(d) ==
    {p \in Cells : \A q \in p .. Size - 1 :
        d.data[q] = d.data[Size - 1] /\ ~(q < Size - 1 /\ StartsField(d, q + 1))}
BehindFields(d) == {RightOf(EndPos(d.fields[i]), 1) : i \in DOMAIN d.fields}
Unnumbered(d) == {[d.fields[i] EXCEPT !.entry = 0, !.wordwrap = FALSE] : i \in DOMAIN d.fields}
Carried(d) ==
    \A i \in DOMAIN d.fields : i # 1 /\ d.fields[i - 1].wordwrap =>
        d.fields[i].wordwrap \/ d.fields[i].part = "last"

GivesBack(old, new) ==
    /\ \A p \in Cells :
         \/ new.data[p] = old.data[p]
         \/ /\ p \in BehindFields(old) /\ new.data[p] = Attr
            /\ p = 0 \/ p \in LastRun(old) \/ old.data[p] = Nul
         \/ p \in LastRun(old) /\ new.data[p] = Nul
         \/ p < Size - 1 /\ StartsField(old, p + 1) /\ new.data[p] = Attr
    /\ Unnumbered(new) = Unnumbered(old)
    /\ InScreenOrder(old) /\ Carried(old) => new.fields = old.fields
    /\ new.cur = old.cur /\ new.header = old.header

RestoreGivesBack ==
    [][(Restore /\ Plain(saved.of.screen) /\ ~unit.wrapping) =>
        /\ GivesBack(saved.of.screen, unit'.screen)
        /\ unit'.read = saved.of.read
        /\ unit'.locked = (saved.of.read = "none")
        /\ unit'.refused = "none"]_vars
================================================================================
