------------------------------- MODULE Constructs -------------------------------
(***************************************************************************)
(* The graphical constructs of a 5250 screen: windows, menu bars with their *)
(* choices, and scroll bars.  The host defines and removes them at the      *)
(* cursor with structured fields, the arrow keys walk through the choices,  *)
(* and saving a screen turns windows and menu bars back into structured     *)
(* fields.  Each kind is a list and a count beside it.  A window lies at    *)
(* row and column from 1, a menu bar and its choices from 0.                *)
(***************************************************************************)
EXTENDS SavedScreen

CONSTANTS Windows,      (* [height, width] of the windows the host creates *)
          Menus,        (* [type, height, sizes] of its selection fields *)
          Corners,      (* cells the host puts the cursor on *)
          FirstText     (* what the screen shows first *)

ASSUME ConstructsAssumption ==
    /\ Windows \subseteq [height : Nat \ {0}, width : Nat \ {0}]
    /\ Menus \subseteq [type : {"bar", "list"}, height : Nat \ {0}, sizes : Seq(Nat)]
    /\ Corners \subseteq Cells /\ FirstText \in [Cells -> Chars]

VARIABLES unit,         (* the display, see module Orders *)
          gui,          (* the constructs *)
          saved         (* the orders of the last Save Screen *)

vars == <<unit, gui, saved>>

NoConstructs == [windows |-> <<>>, windowCount |-> 0, menus |-> <<>>, menuCount |-> 0,
                 bars |-> <<>>, barCount |-> 0]

FirstThat(seq, Test(_)) ==
    LET found == {i \in DOMAIN seq : Test(seq[i])} IN IF found = {} THEN 0 ELSE Smallest(found)

(***************************************************************************)
(* Windows                                                                 *)
(***************************************************************************)
(* A mutant: the count stays. *)
AddWindowUncounted(g, window) ==
    [g EXCEPT !.windows = Append(@, [window EXCEPT !.id = g.windowCount])]

AddWindow(g, window) ==
    [g EXCEPT !.windows = Append(@, [window EXCEPT !.id = g.windowCount]), !.windowCount = @ + 1]

(* A new window clears what is under it: its rows from the first one within  *)
(* the border on, each from the second column behind the border on, and the  *)
(* last up to a column counted from the window's own column twice.           *)
UnderWindow(win) ==
    LET top == win.row
        bottom == win.row + win.height
        left == win.column + 1
        right(r) == IF r = bottom THEN win.column + win.column + 1
                    ELSE win.column + win.width + 1
    IN UNION {{r * w + c : c \in left .. right(r)} : r \in top .. bottom}

WindowAt(d, size) ==
    [row |-> Row(d.cur) + 1, column |-> Col(d.cur) + 1, height |-> size.height,
     width |-> size.width, id |-> 0]

EraseUnder(d, win) ==
    [d EXCEPT !.data = [p \in Cells |-> IF p \in UnderWindow(win) THEN Blank ELSE @[p]]]

(* Removing one window takes it off the count; the list is emptied with the  *)
(* last.  Scroll bars go with it.                                            *)
WithoutBars(g) == IF g.barCount > 0 THEN [g EXCEPT !.bars = <<>>, !.barCount = 0] ELSE g
WithoutWindows(g) ==
    IF g.windowCount > 0 THEN [g EXCEPT !.windows = <<>>, !.windowCount = 0] ELSE g
WithoutMenus(g) == IF g.menuCount > 0 THEN [g EXCEPT !.menus = <<>>, !.menuCount = 0] ELSE g
WithoutOneWindow(g) ==
    WithoutBars(IF g.windowCount = 0 THEN g
                ELSE [g EXCEPT !.windowCount = @ - 1,
                               !.windows = IF g.windowCount = 1 THEN <<>> ELSE @])

(***************************************************************************)
(* Menu bars and their choices                                             *)
(***************************************************************************)
(* A menu bar takes whole rows. *)
MenuHit(g, p) == FirstThat(g.menus, LAMBDA m : Row(p) \in m.row .. m.row + m.height - 1)

ItemHit(m, p) ==
    FirstThat(m.items, LAMBDA i : i.row = Row(p) /\ Col(p) \in i.column .. i.column + i.size)

(* A mutant: the next choice begins where the one before it ends. *)
ItemPlaceTight(m, items) ==
    IF items = <<>> THEN [row |-> m.row, column |-> m.column + 1]
    ELSE LET prev == items[Len(items)]
         IN IF m.type = "bar" THEN [row |-> prev.row, column |-> prev.column + prev.size]
            ELSE [row |-> prev.row + 1, column |-> m.column + 1]

(* Choices lie side by side in a menu bar and below each other in the other  *)
(* types.                                                                    *)
ItemPlace(m, items) ==
    IF items = <<>> THEN [row |-> m.row, column |-> m.column + 1]
    ELSE LET prev == items[Len(items)]
         IN IF m.type = "bar" THEN [row |-> prev.row, column |-> prev.column + prev.size + 1]
            ELSE [row |-> prev.row + 1, column |-> m.column + 1]

(* The size of a choice is that of its text and two attributes. *)
AddItem(m, text) ==
    LET place == ItemPlace(m, m.items)
    IN [m EXCEPT !.items = Append(@, [id |-> Len(m.items), row |-> place.row,
                                      column |-> place.column, size |-> text + 2,
                                      selected |-> FALSE])]

WithItems(m, sizes) ==
    LET add[n \in 0 .. Len(sizes)] == IF n = 0 THEN m ELSE AddItem(add[n - 1], sizes[n])
    IN add[Len(sizes)]

(* A selection field on a row of a menu bar redefines that one: the texts    *)
(* change, the places of the choices do not.  (The host gives as many        *)
(* choices as before: for one more the code has no choice to change.)        *)
Redefined(m, menu) ==
    LET item(i) == FirstThat(m.items, LAMBDA old : old.id = i - 1)
        text(i) == menu.sizes[m.items[i].id + 1] + 2
    IN [m EXCEPT !.type = menu.type, !.height = menu.height,
                 !.resized = @ \/ \E i \in DOMAIN m.items : text(i) # m.items[i].size,
                 !.items = [i \in DOMAIN @ |-> [@[i] EXCEPT !.size = text(i)]]]

DefineSelection(g, p, menu) ==
    LET hit == MenuHit(g, p)
        new == [row |-> Row(p), column |-> Col(p), type |-> menu.type, height |-> menu.height,
                items |-> <<>>, id |-> g.menuCount, resized |-> FALSE]
    IN IF hit # 0 THEN [g EXCEPT !.menus[hit] = Redefined(@, menu)]
       ELSE [g EXCEPT !.menus = Append(@, WithItems(new, menu.sizes)), !.menuCount = @ + 1]
SameChoices(g, p, menu) ==
    LET hit == MenuHit(g, p) IN hit # 0 => Len(g.menus[hit].items) = Len(menu.sizes)

(* The next choice, or the one before; between the choices, the first or the *)
(* last.                                                                     *)
SelectNext(m, p) ==
    LET at == IF ItemHit(m, p) = 0 THEN Len(m.items) ELSE ItemHit(m, p)
    IN [from |-> at, to |-> IF at = Len(m.items) THEN 1 ELSE at + 1]
SelectPrev(m, p) ==
    LET at == IF ItemHit(m, p) = 0 THEN 1 ELSE ItemHit(m, p)
    IN [from |-> at, to |-> IF at = 1 THEN Len(m.items) ELSE at - 1]

Selected(m, move) ==
    [m EXCEPT !.items = [[@ EXCEPT ![move.from].selected = FALSE] EXCEPT ![move.to].selected = TRUE]]
Place(item) == item.row * w + item.column

(***************************************************************************)
(* Scroll bars                                                             *)
(***************************************************************************)
BarHit(g, p) == FirstThat(g.bars, LAMBDA b : b.at = p)
DefineBar(g, p, down) ==
    IF BarHit(g, p) # 0 THEN [g EXCEPT !.bars[BarHit(g, p)].down = down]
    ELSE [g EXCEPT !.bars = Append(@, [at |-> p, down |-> down, id |-> g.barCount]),
                   !.barCount = @ + 1]

(***************************************************************************)
(* Saving and restoring                                                    *)
(***************************************************************************)
WindowHit(g, p) ==
    FirstThat(g.windows, LAMBDA win : win.row = Row(p) + 1 /\ win.column = Col(p) + 1)

(* The cell of a window's corner is written as the window alone; a row of a  *)
(* menu bar as the menu bar, from its first cell on, and the rest is skipped. *)
PutConstruct(d, g, s) ==
    LET win == WindowHit(g, s.at)
        menu == MenuHit(g, s.at)
        flushed == Flush(s, s.at)
    IN IF s.at = Size THEN s
       ELSE IF win # 0
       THEN [Put(flushed, [o |-> "window", height |-> g.windows[win].height,
                           width |-> g.windows[win].width]) EXCEPT !.at = @ + 1]
       ELSE IF menu # 0
       THEN [Put(flushed, [o |-> "menu", height |-> g.menus[menu].height,
                           sizes |-> [i \in DOMAIN g.menus[menu].items |->
                                          g.menus[menu].items[i].size - 2]])
             EXCEPT !.at = (Row(@) + 1) * w]
       ELSE [PutCell(d, s, s.at) EXCEPT !.at = @ + 1]

SavedWith(d, g) ==
    Iterates(LAMBDA s : PutConstruct(d, g, s), Writer(d), Size)[Size + 1].orders

(* A mutant: a window is restored without being put into the list. *)
PerformWithoutWindow(s, order) ==
    CASE order.o = "window" -> s
      [] order.o = "menu" ->
           [s EXCEPT !.g = DefineSelection(@, s.u.screen.cur,
                [type |-> "bar", height |-> order.height, sizes |-> order.sizes])]
      [] order.o = "clear" ->
           [u |-> ClearUnit(s.u), g |-> WithoutBars(WithoutMenus(WithoutWindows(s.g)))]
      [] OTHER -> [s EXCEPT !.u = Perform(@, order)]

(* A menu bar is restored as type "bar", whatever it was. *)
PerformWith(s, order) ==
    CASE order.o = "window" ->
           LET win == WindowAt(s.u.screen, order)
           IN [u |-> [s.u EXCEPT !.screen = EraseUnder(@, win)], g |-> AddWindow(s.g, win)]
      [] order.o = "menu" ->
           [s EXCEPT !.g = DefineSelection(@, s.u.screen.cur,
                [type |-> "bar", height |-> order.height, sizes |-> order.sizes])]
      [] order.o = "clear" ->
           [u |-> ClearUnit(s.u), g |-> WithoutBars(WithoutMenus(WithoutWindows(s.g)))]
      [] OTHER -> [s EXCEPT !.u = Perform(@, order)]

RestoredWith(u, g, orders) ==
    LET after[n \in 0 .. Len(orders)] ==
            IF n = 0 THEN [u |-> u, g |-> g] ELSE PerformWith(after[n - 1], orders[n])
        s == after[Len(orders)]
    IN [s EXCEPT !.u.screen.cur = CursorHome(s.u.screen)]

(***************************************************************************)
(* The host's orders and the user's keys                                   *)
(***************************************************************************)
Here == unit.screen.cur
Changes(g) == gui' = g /\ UNCHANGED <<unit, saved>>
SetAddress(p) == unit' = [unit EXCEPT !.screen.cur = p] /\ UNCHANGED <<gui, saved>>

(* The host addresses a cell and defines the construct there; it places its  *)
(* windows and choices so that they are on the screen.                       *)
At(p) == [unit.screen EXCEPT !.cur = p]
CreateWindow(p, size) ==
    LET win == WindowAt(At(p), size)
    IN /\ win.row + win.height < h /\ UnderWindow(win) \subseteq Cells
       /\ unit' = [unit EXCEPT !.screen = EraseUnder(At(p), win)]
       /\ gui' = AddWindow(gui, win) /\ UNCHANGED saved

ItemsFit(g) ==
    \A k \in DOMAIN g.menus : \A i \in DOMAIN g.menus[k].items :
        g.menus[k].items[i].row < h /\ g.menus[k].items[i].column < w
DefineSelectionField(p, menu) ==
    LET g == DefineSelection(gui, p, menu)
    IN /\ SameChoices(gui, p, menu) /\ ItemsFit(g)
       /\ gui' = g /\ unit' = [unit EXCEPT !.screen = At(p)] /\ UNCHANGED saved

DefineScrollbar(p, down) ==
    /\ gui' = DefineBar(gui, p, down) /\ unit' = [unit EXCEPT !.screen = At(p)]
    /\ UNCHANGED saved

RemoveWindow == Changes(WithoutOneWindow(gui))
(* The menu bars stay. *)
RemoveAllConstructs == Changes(WithoutBars(WithoutWindows(gui)))
RemoveSelectionField == Changes(WithoutMenus(gui))

ClearTheUnit ==
    /\ unit' = ClearUnit(unit) /\ UNCHANGED saved
    /\ gui' = WithoutBars(WithoutMenus(WithoutWindows(gui)))
(* Clear Unit Alternate leaves the menu bars. *)
ClearAlternate ==
    /\ unit' = ClearUnit(unit) /\ UNCHANGED saved
    /\ gui' = WithoutBars(WithoutWindows(gui))

(* In a row of a menu bar the arrows go through its choices. *)
InMenu == gui.menuCount > 0 /\ MenuHit(gui, Here) # 0
Arrow(Select(_, _)) ==
    /\ InMenu /\ UNCHANGED saved
    /\ LET k == MenuHit(gui, Here)
           move == Select(gui.menus[k], Here)
       IN /\ gui' = [gui EXCEPT !.menus[k] = Selected(@, move)]
          /\ unit' = [unit EXCEPT !.screen.cur = Place(gui.menus[k].items[move.to])]
Elsewhere(p) == ~InMenu /\ SetAddress(p)

RightOrDown == \/ Arrow(SelectNext) \/ Elsewhere(RightOf(Here, 1)) \/ Elsewhere(DownFrom(Here))
LeftOrUp == \/ Arrow(SelectPrev) \/ Elsewhere(LeftOf(Here)) \/ Elsewhere(UpFrom(Here))

Save ==
    /\ saved' = [is |-> TRUE, orders |-> SavedWith(unit.screen, gui), of |-> gui]
    /\ UNCHANGED <<unit, gui>>

Restore ==
    /\ saved.is
    /\ LET s == RestoredWith(unit, gui, saved.orders)
       IN unit' = s.u /\ gui' = s.g
    /\ UNCHANGED saved

Init ==
    /\ unit = [Unit EXCEPT !.screen.data = FirstText]
    /\ gui = NoConstructs
    /\ saved = [is |-> FALSE, orders |-> <<>>, of |-> NoConstructs]

Next ==
    \/ \E p \in Corners, size \in Windows : CreateWindow(p, size)
    \/ \E p \in Corners, menu \in Menus : DefineSelectionField(p, menu)
    \/ \E p \in Corners, down \in BOOLEAN : DefineScrollbar(p, down)
    \/ RemoveWindow \/ RemoveAllConstructs \/ RemoveSelectionField
    \/ ClearTheUnit \/ ClearAlternate
    \/ RightOrDown \/ LeftOrUp
    \/ Save \/ Restore

Spec == Init /\ [][Next]_vars

(***************************************************************************)
(* Properties                                                              *)
(***************************************************************************)
(* The lists and the counts beside them, which are what the code looks at,   *)
(* agree on whether there is anything: a list that is left is counted, so    *)
(* that some command still destroys it.  Menu bars and scroll bars are        *)
(* counted exactly; removed windows stay in the list until the last.         *)
CountsKeepLists ==
    /\ gui.windowCount \in 0 .. Len(gui.windows)
    /\ (gui.windowCount = 0) = (gui.windows = <<>>)
    /\ gui.menuCount = Len(gui.menus) /\ gui.barCount = Len(gui.bars)
    /\ \A i \in DOMAIN gui.menus : gui.menus[i].id = i - 1

(* From each choice of a menu bar the arrows lead to the next one and back,  *)
(* round all of them: no choice keeps the cursor, none is passed over.  It    *)
(* holds for menu bars with rows of their own, high enough for their choices, *)
(* and whose texts have not been given another length by redefining them.     *)
MenuRows(m) == m.row .. m.row + m.height - 1
Alone(k) ==
    \A j \in DOMAIN gui.menus : j # k => MenuRows(gui.menus[j]) \cap MenuRows(gui.menus[k]) = {}
ChoicesReached ==
    \A k \in DOMAIN gui.menus :
        LET m == gui.menus[k]
            n == Len(m.items)
        IN (Alone(k) /\ ~m.resized /\ \A i \in 1 .. n : m.items[i].row \in MenuRows(m)) =>
            \A i \in 1 .. n :
                /\ MenuHit(gui, Place(m.items[i])) = k
                /\ SelectNext(m, Place(m.items[i])).to = (i % n) + 1
                /\ SelectPrev(m, Place(m.items[(i % n) + 1])).to = i

(* Restoring a screen brings back every window that was on the list, one for *)
(* each corner: those removed one by one, too.  A window on the row of a menu *)
(* bar is lost unless it is in the first column.                             *)
CornerOf(win) == (win.row - 1) * w + win.column - 1
Kept(g) ==
    {p \in {CornerOf(g.windows[i]) : i \in DOMAIN g.windows} : Col(p) = 0 \/ MenuHit(g, p) = 0}
WindowsComeBack ==
    [][Restore =>
        /\ gui'.windowCount = Cardinality(Kept(saved.of))
        /\ \A size \in Windows :
              Cardinality({i \in DOMAIN gui'.windows :
                            /\ gui'.windows[i].height = size.height
                            /\ gui'.windows[i].width = size.width})
              = Cardinality({p \in Kept(saved.of) :
                    LET win == saved.of.windows[WindowHit(saved.of, p)]
                    IN win.height = size.height /\ win.width = size.width})]_vars
================================================================================
