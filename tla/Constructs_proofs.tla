--------------------------- MODULE Constructs_proofs ---------------------------
(***************************************************************************)
(* Proofs about the graphical constructs, for every size of the screen and    *)
(* every window and menu bar: the counts beside the lists agree with them.    *)
(*                                                                         *)
(* The lists are sequences of what they may be (a choice that is changed by    *)
(* a restored menu bar with fewer of them has no size), so that their          *)
(* elements are not typed; the orders of a saved screen need only say so much  *)
(* as that the choices of a menu bar are a sequence.                          *)
(***************************************************************************)
EXTENDS Constructs, Screen_proofs, SequenceTheorems

IsSeq(s) == s \in Seq({s[i] : i \in DOMAIN s})

MenuBar(m) == {"id", "items"} \subseteq DOMAIN m /\ IsSeq(m.items)

Listed(g) ==
    /\ DOMAIN g = {"windows", "windowCount", "menus", "menuCount", "bars", "barCount"}
    /\ IsSeq(g.windows) /\ IsSeq(g.menus) /\ IsSeq(g.bars)
    /\ \A i \in DOMAIN g.menus : MenuBar(g.menus[i])

Counted(g) ==
    /\ g.windowCount \in 0 .. Len(g.windows)
    /\ (g.windowCount = 0) = (g.windows = <<>>)
    /\ g.menuCount = Len(g.menus) /\ g.barCount = Len(g.bars)
    /\ \A i \in DOMAIN g.menus : g.menus[i].id = i - 1

MenuOrder(order) == order.o = "menu" => IsSeq(order.sizes)
Sent(orders) == IsSeq(orders) /\ \A i \in DOMAIN orders : MenuOrder(orders[i])

IInv == Listed(gui) /\ Counted(gui) /\ Sent(saved.orders)
------------------------------------------------------------------------------
(* Sequences, whatever their elements are. *)
LEMMA SeqFacts ==
    ASSUME NEW s, IsSeq(s)
    PROVE  /\ Len(s) \in Nat /\ DOMAIN s = 1 .. Len(s)
           /\ s = <<>> <=> Len(s) = 0
  BY DEF IsSeq

LEMMA Appended ==
    ASSUME NEW s, IsSeq(s), NEW e
    PROVE  /\ IsSeq(Append(s, e)) /\ Len(Append(s, e)) = Len(s) + 1
           /\ \A i \in 1 .. Len(s) : Append(s, e)[i] = s[i]
           /\ Append(s, e)[Len(s) + 1] = e
  <1> DEFINE S == {s[i] : i \in DOMAIN s} \cup {e}
             t == Append(s, e)
  <1>1. s \in Seq(S) /\ e \in S
    BY DEF IsSeq
  <1> HIDE DEF S
  <1>2. /\ t \in Seq(S) /\ Len(t) = Len(s) + 1
        /\ \A i \in 1 .. Len(s) : t[i] = s[i]
        /\ t[Len(s) + 1] = e
    BY <1>1
  <1> HIDE DEF t
  <1>3. t \in Seq({t[i] : i \in DOMAIN t})
    BY <1>2
  <1> QED
    BY <1>2, <1>3 DEF IsSeq, t

LEMMA SameLength ==
    ASSUME NEW s, IsSeq(s), NEW t, t = [i \in DOMAIN t |-> t[i]], DOMAIN t = DOMAIN s
    PROVE  IsSeq(t) /\ Len(t) = Len(s)
  <1>1. DOMAIN t = 1 .. Len(s) /\ Len(s) \in Nat
    BY SeqFacts
  <1> DEFINE S == {t[i] : i \in DOMAIN t}
  <1>2. \A i \in 1 .. Len(s) : t[i] \in S
    BY <1>1
  <1> HIDE DEF S
  <1>3. t \in [1 .. Len(s) -> S]
    BY <1>1, <1>2
  <1>4. t \in Seq(S) /\ Len(t) = Len(s)
    BY <1>1, <1>3
  <1> QED
    BY <1>4 DEF IsSeq, S

LEMMA Joined ==
    ASSUME NEW s, IsSeq(s), NEW t, IsSeq(t)
    PROVE  /\ IsSeq(s \o t) /\ Len(s \o t) = Len(s) + Len(t)
           /\ \A i \in 1 .. Len(s) : (s \o t)[i] = s[i]
           /\ \A i \in Len(s) + 1 .. Len(s) + Len(t) : (s \o t)[i] = t[i - Len(s)]
  <1> DEFINE S == {s[i] : i \in DOMAIN s} \cup {t[i] : i \in DOMAIN t}
             u == s \o t
  <1>1. s \in Seq(S) /\ t \in Seq(S)
    BY DEF IsSeq
  <1> HIDE DEF S
  <1>2. Len(s) \in Nat /\ Len(t) \in Nat
    BY SeqFacts
  <1>3. /\ u \in Seq(S) /\ Len(u) = Len(s) + Len(t)
        /\ \A i \in 1 .. Len(s) + Len(t) : u[i] = IF i <= Len(s) THEN s[i] ELSE t[i - Len(s)]
    BY <1>1, ConcatProperties
  <1> HIDE DEF u
  <1>4. u \in Seq({u[i] : i \in DOMAIN u})
    BY <1>3
  <1>5. /\ \A i \in 1 .. Len(s) : u[i] = s[i]
        /\ \A i \in Len(s) + 1 .. Len(s) + Len(t) : u[i] = t[i - Len(s)]
    BY <1>2, <1>3
  <1>6. IsSeq(u)
    BY <1>4 DEF IsSeq
  <1> QED
    BY <1>3, <1>5, <1>6 DEF u

LEMMA Short ==
    /\ IsSeq(<<>>) /\ Len(<<>>) = 0
    /\ \A e : IsSeq(<<e>>) /\ Len(<<e>>) = 1 /\ <<e>>[1] = e
  <1>1. IsSeq(<<>>)
    BY DEF IsSeq
  <1>2. ASSUME NEW e PROVE IsSeq(<<e>>) /\ Len(<<e>>) = 1 /\ <<e>>[1] = e
    BY DEF IsSeq
  <1> QED
    BY <1>1, <1>2
------------------------------------------------------------------------------
(* The lists and their counts: windows and scroll bars. *)
LEMMA WindowAdded ==
    ASSUME NEW g, Listed(g), Counted(g), NEW win
    PROVE  Listed(AddWindow(g, win)) /\ Counted(AddWindow(g, win))
  <1> DEFINE windows == Append(g.windows, [win EXCEPT !.id = g.windowCount])
             new == [g EXCEPT !.windows = windows, !.windowCount = g.windowCount + 1]
  <1>1. /\ IsSeq(windows) /\ Len(windows) = Len(g.windows) + 1
        /\ Len(g.windows) \in Nat /\ g.windowCount \in 0 .. Len(g.windows)
    BY Appended, SeqFacts DEF Listed, Counted
  <1> HIDE DEF windows
  <1>2. windows # <<>>
    BY <1>1, SeqFacts
  <1>3. /\ DOMAIN new = DOMAIN g
        /\ new.windows = windows /\ new.windowCount = g.windowCount + 1
        /\ new.menus = g.menus /\ new.menuCount = g.menuCount
        /\ new.bars = g.bars /\ new.barCount = g.barCount
    BY DEF Listed
  <1>4. AddWindow(g, win) = new
    BY DEF AddWindow, windows
  <1> HIDE DEF new
  <1>5. g.windowCount + 1 \in 0 .. Len(windows) /\ g.windowCount + 1 # 0
    BY <1>1
  <1>6. Listed(new)
    BY <1>1, <1>3 DEF Listed
  <1>7. Counted(new)
    BY <1>2, <1>3, <1>5 DEF Counted
  <1> QED
    BY <1>4, <1>6, <1>7

LEMMA Removed ==
    ASSUME NEW g, Listed(g), Counted(g)
    PROVE  /\ Listed(WithoutBars(g)) /\ Counted(WithoutBars(g))
           /\ Listed(WithoutWindows(g)) /\ Counted(WithoutWindows(g))
           /\ Listed(WithoutMenus(g)) /\ Counted(WithoutMenus(g))
  <1> USE DEF Listed, Counted
  <1>1. Listed(WithoutBars(g)) /\ Counted(WithoutBars(g))
    BY Short DEF WithoutBars
  <1>2. Listed(WithoutWindows(g)) /\ Counted(WithoutWindows(g))
    BY Short DEF WithoutWindows
  <1>3. Listed(WithoutMenus(g)) /\ Counted(WithoutMenus(g))
    BY Short DEF WithoutMenus
  <1> QED
    BY <1>1, <1>2, <1>3

LEMMA OneRemoved ==
    ASSUME NEW g, Listed(g), Counted(g)
    PROVE  Listed(WithoutOneWindow(g)) /\ Counted(WithoutOneWindow(g))
  <1> DEFINE new == IF g.windowCount = 0 THEN g
                    ELSE [g EXCEPT !.windowCount = @ - 1,
                                   !.windows = IF g.windowCount = 1 THEN <<>> ELSE @]
  <1>1. Len(g.windows) \in Nat
    BY SeqFacts DEF Listed
  <1>2. CASE g.windowCount \in {0, 1}
    <2>1. Listed(new) /\ Counted(new)
      BY <1>2, Short DEF Listed, Counted
    <2> QED
      BY <2>1, Removed DEF WithoutOneWindow
  <1>3. CASE g.windowCount \notin {0, 1}
    <2>1. /\ new.windows = g.windows /\ new.windowCount = g.windowCount - 1
          /\ DOMAIN new = DOMAIN g
          /\ new.menus = g.menus /\ new.menuCount = g.menuCount
          /\ new.bars = g.bars /\ new.barCount = g.barCount
      BY <1>3 DEF Listed
    <2> HIDE DEF new
    <2>2. g.windowCount - 1 \in 0 .. Len(g.windows) /\ g.windowCount - 1 # 0 /\ g.windows # <<>>
      BY <1>1, <1>3 DEF Counted
    <2>3. Listed(new) /\ Counted(new)
      BY <2>1, <2>2 DEF Listed, Counted
    <2> QED
      BY <2>3, Removed DEF WithoutOneWindow, new
  <1> QED
    BY <1>2, <1>3

LEMMA BarDefined ==
    ASSUME NEW g, Listed(g), Counted(g), NEW p, NEW down
    PROVE  Listed(DefineBar(g, p, down)) /\ Counted(DefineBar(g, p, down))
  <1> DEFINE hit == BarHit(g, p)
             changed == [g.bars EXCEPT ![hit].down = down]
             added == Append(g.bars, [at |-> p, down |-> down, id |-> g.barCount])
  <1>1. CASE hit # 0
    <2>1. IsSeq(changed) /\ Len(changed) = Len(g.bars)
      <3>1. DOMAIN changed = DOMAIN g.bars /\ changed = [i \in DOMAIN changed |-> changed[i]]
        OBVIOUS
      <3> HIDE DEF changed
      <3>2. IsSeq(g.bars)
        BY DEF Listed
      <3> QED
        BY <3>1, <3>2, SameLength
    <2>2. DefineBar(g, p, down) = [g EXCEPT !.bars = changed]
      BY <1>1 DEF DefineBar, Listed
    <2> HIDE DEF changed
    <2> QED
      BY <2>1, <2>2 DEF Listed, Counted
  <1>2. CASE hit = 0
    <2>1. IsSeq(added) /\ Len(added) = Len(g.bars) + 1
      BY Appended DEF Listed
    <2>2. DefineBar(g, p, down) = [g EXCEPT !.bars = added, !.barCount = g.barCount + 1]
      BY <1>2 DEF DefineBar
    <2> HIDE DEF added
    <2> QED
      BY <2>1, <2>2 DEF Listed, Counted
  <1> QED
    BY <1>1, <1>2

------------------------------------------------------------------------------
(* The lists and their counts: menu bars.  A menu bar keeps its number when   *)
(* choices are added, redefined or selected.                                 *)
LEMMA ItemAdded ==
    ASSUME NEW m, MenuBar(m), NEW text
    PROVE  /\ MenuBar(AddItem(m, text)) /\ AddItem(m, text).id = m.id
  <1> DEFINE place == ItemPlace(m, m.items)
             items == Append(m.items, [id |-> Len(m.items), row |-> place.row,
                                       column |-> place.column, size |-> text + 2,
                                       selected |-> FALSE])
  <1>1. IsSeq(items)
    BY Appended DEF MenuBar
  <1>2. AddItem(m, text) = [m EXCEPT !.items = items]
    BY DEF AddItem
  <1> HIDE DEF items
  <1> QED
    BY <1>1, <1>2 DEF MenuBar

LEMMA ItemsAdded ==
    ASSUME NEW m, MenuBar(m), NEW sizes, IsSeq(sizes)
    PROVE  MenuBar(WithItems(m, sizes)) /\ WithItems(m, sizes).id = m.id
  <1> DEFINE N == Len(sizes)
             add[n \in 0 .. N] == IF n = 0 THEN m ELSE AddItem(add[n - 1], sizes[n])
  <1>1. N \in Nat
    BY SeqFacts
  <1>2. add = [n \in 0 .. N |-> IF n = 0 THEN m ELSE AddItem(add[n - 1], sizes[n])]
    <2> DEFINE Good(n, f) == /\ f = [k \in 0 .. n |-> f[k]] /\ f[0] = m
                             /\ \A k \in 1 .. n : f[k] = AddItem(f[k - 1], sizes[k])
               T == {n \in Nat : \E f : Good(n, f)}
    <2>1. 0 \in T
      <3>1. Good(0, [k \in 0 .. 0 |-> m])
        OBVIOUS
      <3> QED
        BY <3>1
    <2>2. ASSUME NEW n \in Nat, n \in T PROVE n + 1 \in T
      <3>1. PICK f : Good(n, f)
        BY <2>2
      <3> DEFINE new == [k \in 0 .. n + 1 |-> IF k = n + 1 THEN AddItem(f[n], sizes[n + 1])
                                              ELSE f[k]]
      <3>2. /\ new = [k \in 0 .. n + 1 |-> new[k]]
            /\ new[n + 1] = AddItem(f[n], sizes[n + 1])
            /\ \A k \in 0 .. n : new[k] = f[k]
        OBVIOUS
      <3> HIDE DEF new
      <3>3. ASSUME NEW k \in 1 .. n + 1 PROVE new[k] = AddItem(new[k - 1], sizes[k])
        <4>1. CASE k = n + 1
          <5>1. k - 1 = n /\ n \in 0 .. n
            BY <4>1
          <5> QED
            BY <3>2, <4>1, <5>1
        <4>2. CASE k # n + 1
          <5>1. k \in 1 .. n /\ k - 1 \in 0 .. n /\ k \in 0 .. n
            BY <4>2
          <5> QED
            BY <3>1, <3>2, <5>1
        <4> QED
          BY <4>1, <4>2
      <3>4. new[0] = m
        BY <3>1, <3>2
      <3>5. Good(n + 1, new) /\ n + 1 \in Nat
        BY <3>2, <3>3, <3>4
      <3> HIDE DEF Good
      <3> QED
        BY <3>5
    <2> HIDE DEF T
    <2>3. N \in T
      BY <1>1, <2>1, <2>2, Induction
    <2>4. PICK f : Good(N, f)
      BY <2>3 DEF T
    <2>5. ASSUME NEW n \in 0 .. N
          PROVE  f[n] = IF n = 0 THEN m ELSE AddItem(f[n - 1], sizes[n])
      <3>1. n = 0 \/ (n # 0 /\ n \in 1 .. N)
        BY <1>1
      <3> QED
        BY <2>4, <3>1
    <2>6. f = [n \in 0 .. N |-> IF n = 0 THEN m ELSE AddItem(f[n - 1], sizes[n])]
      <3>1. f = [n \in 0 .. N |-> f[n]]
        BY <2>4
      <3> QED
        BY <2>5, <3>1, Zenon
    <2> QED
      BY <2>6
  <1> HIDE DEF add, N
  <1> DEFINE T == {n \in Nat : n <= N => MenuBar(add[n]) /\ add[n].id = m.id}
  <1>3. 0 \in T
    BY <1>1, <1>2
  <1>4. ASSUME NEW n \in Nat, n \in T PROVE n + 1 \in T
    <2> SUFFICES ASSUME n + 1 <= N PROVE MenuBar(add[n + 1]) /\ add[n + 1].id = m.id
      OBVIOUS
    <2>1. MenuBar(add[n]) /\ add[n].id = m.id
      BY <1>1, <1>4
    <2>2. n + 1 \in 0 .. N /\ n + 1 # 0 /\ (n + 1) - 1 = n
      BY <1>1
    <2>3. add[n + 1] = AddItem(add[n], sizes[n + 1])
      BY <1>2, <2>2
    <2> QED
      BY <2>1, <2>3, ItemAdded
  <1> HIDE DEF T
  <1>5. N \in T
    BY <1>1, <1>3, <1>4, Induction
  <1>6. WithItems(m, sizes) = add[N]
    BY DEF WithItems, add, N
  <1> QED
    BY <1>1, <1>5, <1>6 DEF T

LEMMA MenuRedefined ==
    ASSUME NEW m, MenuBar(m), NEW menu
    PROVE  MenuBar(Redefined(m, menu)) /\ Redefined(m, menu).id = m.id
  <1> DEFINE text(i) == menu.sizes[m.items[i].id + 1] + 2
             items == [i \in DOMAIN m.items |-> [m.items[i] EXCEPT !.size = text(i)]]
  <1>1. IsSeq(items)
    <2>1. DOMAIN items = DOMAIN m.items /\ items = [i \in DOMAIN items |-> items[i]]
      OBVIOUS
    <2> HIDE DEF items
    <2> QED
      BY <2>1, SameLength DEF MenuBar
  <1> HIDE DEF items
  <1>2. PICK resized : Redefined(m, menu)
            = [m EXCEPT !.type = menu.type, !.height = menu.height,
                        !.resized = resized, !.items = items]
    BY DEF Redefined, items
  <1> QED
    BY <1>1, <1>2 DEF MenuBar

LEMMA ItemSelected ==
    ASSUME NEW m, MenuBar(m), NEW move
    PROVE  MenuBar(Selected(m, move)) /\ Selected(m, move).id = m.id
  <1> DEFINE items == [[m.items EXCEPT ![move.from].selected = FALSE]
                          EXCEPT ![move.to].selected = TRUE]
  <1>1. IsSeq(items)
    <2>1. DOMAIN items = DOMAIN m.items /\ items = [i \in DOMAIN items |-> items[i]]
      OBVIOUS
    <2> HIDE DEF items
    <2> QED
      BY <2>1, SameLength DEF MenuBar
  <1>2. Selected(m, move) = [m EXCEPT !.items = items]
    BY DEF Selected
  <1> HIDE DEF items
  <1> QED
    BY <1>1, <1>2 DEF MenuBar

(* Changing one menu bar. *)
LEMMA MenuReplaced ==
    ASSUME NEW g, Listed(g), Counted(g), NEW k,
           NEW m, k \in DOMAIN g.menus => MenuBar(m) /\ m.id = g.menus[k].id
    PROVE  LET new == [g EXCEPT !.menus = [g.menus EXCEPT ![k] = m]]
           IN Listed(new) /\ Counted(new)
  <1> DEFINE menus == [g.menus EXCEPT ![k] = m]
  <1>1. /\ DOMAIN menus = DOMAIN g.menus /\ menus = [i \in DOMAIN menus |-> menus[i]]
        /\ \A i \in DOMAIN g.menus : menus[i] = IF i = k THEN m ELSE g.menus[i]
    OBVIOUS
  <1> HIDE DEF menus
  <1>2. IsSeq(menus) /\ Len(menus) = Len(g.menus)
    BY <1>1, SameLength DEF Listed
  <1>3. /\ \A i \in DOMAIN menus : MenuBar(menus[i])
        /\ \A i \in DOMAIN menus : menus[i].id = i - 1
    BY <1>1 DEF Listed, Counted
  <1>4. Listed([g EXCEPT !.menus = menus]) /\ Counted([g EXCEPT !.menus = menus])
    BY <1>2, <1>3 DEF Listed, Counted
  <1> QED
    BY <1>4 DEF menus

LEMMA SelectionDefined ==
    ASSUME NEW g, Listed(g), Counted(g), NEW p, NEW menu, IsSeq(menu.sizes)
    PROVE  Listed(DefineSelection(g, p, menu)) /\ Counted(DefineSelection(g, p, menu))
  <1> DEFINE hit == MenuHit(g, p)
             new == [row |-> Row(p), column |-> Col(p), type |-> menu.type,
                     height |-> menu.height, items |-> <<>>, id |-> g.menuCount,
                     resized |-> FALSE]
             full == WithItems(new, menu.sizes)
             menus == Append(g.menus, full)
  <1>1. CASE hit # 0
    <2>1. DefineSelection(g, p, menu)
            = [g EXCEPT !.menus = [g.menus EXCEPT ![hit] = Redefined(g.menus[hit], menu)]]
      BY <1>1 DEF DefineSelection, Listed
    <2>2. hit \in DOMAIN g.menus => MenuBar(g.menus[hit])
      BY DEF Listed
    <2> HIDE DEF hit
    <2> DEFINE m == Redefined(g.menus[hit], menu)
    <2>3. hit \in DOMAIN g.menus => MenuBar(m) /\ m.id = g.menus[hit].id
      BY <2>2, MenuRedefined
    <2> HIDE DEF m
    <2>4. LET changed == [g EXCEPT !.menus = [g.menus EXCEPT ![hit] = m]]
          IN Listed(changed) /\ Counted(changed)
      BY <2>3, MenuReplaced
    <2> QED
      BY <2>1, <2>4 DEF m
  <1>2. CASE hit = 0
    <2>1. MenuBar(full) /\ full.id = g.menuCount
      <3>1. MenuBar(new) /\ new.id = g.menuCount
        BY Short DEF MenuBar
      <3> HIDE DEF new
      <3> QED
        BY <3>1, ItemsAdded
    <2>2. DefineSelection(g, p, menu)
            = [g EXCEPT !.menus = menus, !.menuCount = g.menuCount + 1]
      BY <1>2 DEF DefineSelection
    <2> HIDE DEF full
    <2>3. /\ IsSeq(menus) /\ Len(menus) = Len(g.menus) + 1
          /\ \A i \in 1 .. Len(g.menus) : menus[i] = g.menus[i]
          /\ menus[Len(g.menus) + 1] = full
          /\ Len(g.menus) \in Nat /\ DOMAIN g.menus = 1 .. Len(g.menus)
      BY Appended, SeqFacts DEF Listed
    <2> HIDE DEF menus
    <2>4. DOMAIN menus = 1 .. Len(g.menus) + 1
      BY <2>3, SeqFacts
    <2>5. ASSUME NEW i \in DOMAIN menus PROVE MenuBar(menus[i]) /\ menus[i].id = i - 1
      <3>1. CASE i = Len(g.menus) + 1
        BY <2>1, <2>3, <3>1 DEF Counted
      <3>2. CASE i # Len(g.menus) + 1
        <4>1. i \in 1 .. Len(g.menus)
          BY <2>3, <2>4, <3>2
        <4> QED
          BY <2>3, <4>1 DEF Listed, Counted
      <3> QED
        BY <3>1, <3>2
    <2> QED
      BY <2>2, <2>3, <2>5 DEF Listed, Counted
  <1> QED
    BY <1>1, <1>2

------------------------------------------------------------------------------
(* Restoring carries the orders out one after the other. *)
Sound(s) == s = [u |-> s.u, g |-> s.g] /\ Listed(s.g) /\ Counted(s.g)

LEMMA PerformKeeps ==
    ASSUME NEW s, Sound(s), NEW order, MenuOrder(order)
    PROVE  Sound(PerformWith(s, order))
  <1>1. CASE order.o = "window"
    <2> DEFINE win == WindowAt(s.u.screen, order)
               u == [s.u EXCEPT !.screen = EraseUnder(@, win)]
               g == AddWindow(s.g, win)
    <2>1. PerformWith(s, order) = [u |-> u, g |-> g]
      BY <1>1 DEF PerformWith
    <2> HIDE DEF win, u
    <2>2. Listed(g) /\ Counted(g)
      BY WindowAdded DEF Sound
    <2> HIDE DEF g
    <2> QED
      BY <2>1, <2>2 DEF Sound
  <1>2. CASE order.o = "menu"
    <2> DEFINE menu == [type |-> "bar", height |-> order.height, sizes |-> order.sizes]
               g == DefineSelection(s.g, s.u.screen.cur, menu)
    <2>1. PerformWith(s, order) = [s EXCEPT !.g = g]
      BY <1>2 DEF PerformWith, Sound
    <2>2. IsSeq(menu.sizes)
      BY <1>2 DEF MenuOrder
    <2> HIDE DEF menu
    <2>3. Listed(g) /\ Counted(g)
      BY <2>2, SelectionDefined DEF Sound
    <2> HIDE DEF g
    <2>4. [s EXCEPT !.g = g] = [u |-> s.u, g |-> g]
      BY DEF Sound
    <2> QED
      BY <2>1, <2>3, <2>4 DEF Sound
  <1>3. CASE order.o = "clear"
    <2> DEFINE g == WithoutBars(WithoutMenus(WithoutWindows(s.g)))
               u == ClearUnit(s.u)
    <2>1. PerformWith(s, order) = [u |-> u, g |-> g]
      BY <1>3 DEF PerformWith
    <2>2. Listed(WithoutWindows(s.g)) /\ Counted(WithoutWindows(s.g))
      BY Removed DEF Sound
    <2>3. /\ Listed(WithoutMenus(WithoutWindows(s.g)))
          /\ Counted(WithoutMenus(WithoutWindows(s.g)))
      BY <2>2, Removed
    <2>4. Listed(g) /\ Counted(g)
      BY <2>3, Removed
    <2> HIDE DEF g, u
    <2> QED
      BY <2>1, <2>4 DEF Sound
  <1>4. CASE order.o \notin {"window", "menu", "clear"}
    <2> DEFINE u == Perform(s.u, order)
    <2>1. PerformWith(s, order) = [s EXCEPT !.u = u]
      BY <1>4 DEF PerformWith, Sound
    <2> HIDE DEF u
    <2>2. [s EXCEPT !.u = u] = [u |-> u, g |-> s.g]
      BY DEF Sound
    <2> QED
      BY <2>1, <2>2 DEF Sound
  <1> QED
    BY <1>1, <1>2, <1>3, <1>4

LEMMA RestoredKeeps ==
    ASSUME NEW u, NEW g, Listed(g), Counted(g), NEW orders, Sent(orders)
    PROVE  LET s == RestoredWith(u, g, orders) IN Listed(s.g) /\ Counted(s.g)
  <1> DEFINE N == Len(orders)
             start == [u |-> u, g |-> g]
             after[n \in 0 .. N] ==
                 IF n = 0 THEN start ELSE PerformWith(after[n - 1], orders[n])
             s == after[N]
  <1>1. N \in Nat /\ \A n \in 1 .. N : MenuOrder(orders[n])
    BY SeqFacts DEF Sent
  <1>2. Sound(start)
    BY DEF Sound
  <1> HIDE DEF start
  <1>3. after = [n \in 0 .. N |-> IF n = 0 THEN start ELSE PerformWith(after[n - 1], orders[n])]
    <2> DEFINE Good(n, f) == /\ f = [k \in 0 .. n |-> f[k]] /\ f[0] = start
                             /\ \A k \in 1 .. n : f[k] = PerformWith(f[k - 1], orders[k])
               T == {n \in Nat : \E f : Good(n, f)}
    <2>1. 0 \in T
      <3>1. Good(0, [k \in 0 .. 0 |-> start])
        OBVIOUS
      <3> QED
        BY <3>1
    <2>2. ASSUME NEW n \in Nat, n \in T PROVE n + 1 \in T
      <3>1. PICK f : Good(n, f)
        BY <2>2
      <3> DEFINE new == [k \in 0 .. n + 1 |->
                            IF k = n + 1 THEN PerformWith(f[n], orders[n + 1]) ELSE f[k]]
      <3>2. /\ new = [k \in 0 .. n + 1 |-> new[k]]
            /\ new[n + 1] = PerformWith(f[n], orders[n + 1])
            /\ \A k \in 0 .. n : new[k] = f[k]
        OBVIOUS
      <3> HIDE DEF new
      <3>3. ASSUME NEW k \in 1 .. n + 1 PROVE new[k] = PerformWith(new[k - 1], orders[k])
        <4>1. CASE k = n + 1
          <5>1. k - 1 = n /\ n \in 0 .. n
            BY <4>1
          <5> QED
            BY <3>2, <4>1, <5>1
        <4>2. CASE k # n + 1
          <5>1. k \in 1 .. n /\ k - 1 \in 0 .. n /\ k \in 0 .. n
            BY <4>2
          <5> QED
            BY <3>1, <3>2, <5>1
        <4> QED
          BY <4>1, <4>2
      <3>4. new[0] = start
        BY <3>1, <3>2
      <3>5. Good(n + 1, new) /\ n + 1 \in Nat
        BY <3>2, <3>3, <3>4
      <3> HIDE DEF Good
      <3> QED
        BY <3>5
    <2> HIDE DEF T
    <2>3. N \in T
      BY <1>1, <2>1, <2>2, Induction
    <2>4. PICK f : Good(N, f)
      BY <2>3 DEF T
    <2>5. ASSUME NEW n \in 0 .. N
          PROVE  f[n] = IF n = 0 THEN start ELSE PerformWith(f[n - 1], orders[n])
      <3>1. n = 0 \/ (n # 0 /\ n \in 1 .. N)
        BY <1>1
      <3> QED
        BY <2>4, <3>1
    <2>6. f = [n \in 0 .. N |-> IF n = 0 THEN start ELSE PerformWith(f[n - 1], orders[n])]
      <3>1. f = [n \in 0 .. N |-> f[n]]
        BY <2>4
      <3> QED
        BY <2>5, <3>1, Zenon
    <2> QED
      BY <2>6
  <1> HIDE DEF after, N
  <1> DEFINE T == {n \in Nat : n <= N => Sound(after[n])}
  <1>4. 0 \in T
    BY <1>1, <1>2, <1>3
  <1>5. ASSUME NEW n \in Nat, n \in T PROVE n + 1 \in T
    <2> SUFFICES ASSUME n + 1 <= N PROVE Sound(after[n + 1])
      OBVIOUS
    <2>1. Sound(after[n]) /\ MenuOrder(orders[n + 1])
      BY <1>1, <1>5
    <2>2. n + 1 \in 0 .. N /\ n + 1 # 0 /\ (n + 1) - 1 = n
      BY <1>1
    <2>3. after[n + 1] = PerformWith(after[n], orders[n + 1])
      BY <1>3, <2>2
    <2> QED
      BY <2>1, <2>3, PerformKeeps
  <1> HIDE DEF T
  <1>6. N \in T
    BY <1>1, <1>4, <1>5, Induction
  <1>7. Sound(s)
    BY <1>1, <1>6 DEF T
  <1>8. RestoredWith(u, g, orders) = [s EXCEPT !.u.screen.cur = CursorHome(s.u.screen)]
    BY DEF RestoredWith, start, after, N
  <1> HIDE DEF s
  <1>9. RestoredWith(u, g, orders).g = s.g
    BY <1>7, <1>8 DEF Sound
  <1> QED
    BY <1>7, <1>9 DEF Sound
------------------------------------------------------------------------------
(* Saving puts orders that can be carried out. *)
Writing(s) ==
    /\ DOMAIN s = {"orders", "char", "count", "at"}
    /\ s = [x \in DOMAIN s |-> s[x]]
    /\ Sent(s.orders) /\ s.count \in Nat

LEMMA SentOn ==
    ASSUME NEW orders, Sent(orders)
    PROVE  /\ \A more : Sent(more) => Sent(orders \o more)
           /\ \A order : MenuOrder(order) => Sent(Append(orders, order))
  <1>1. ASSUME NEW more, Sent(more) PROVE Sent(orders \o more)
    <2> DEFINE all == orders \o more
    <2>1. /\ IsSeq(orders) /\ IsSeq(more) /\ Len(orders) \in Nat /\ Len(more) \in Nat
          /\ DOMAIN orders = 1 .. Len(orders) /\ DOMAIN more = 1 .. Len(more)
      BY <1>1, SeqFacts DEF Sent
    <2>2. /\ IsSeq(all) /\ Len(all) = Len(orders) + Len(more)
          /\ \A i \in 1 .. Len(orders) : all[i] = orders[i]
          /\ \A i \in Len(orders) + 1 .. Len(orders) + Len(more) : all[i] = more[i - Len(orders)]
      BY <2>1, Joined
    <2> HIDE DEF all
    <2>3. DOMAIN all = 1 .. Len(orders) + Len(more)
      BY <2>2, SeqFacts
    <2>4. ASSUME NEW i \in DOMAIN all PROVE MenuOrder(all[i])
      <3>1. CASE i \in 1 .. Len(orders)
        BY <2>1, <2>2, <3>1 DEF Sent
      <3>2. CASE i \in Len(orders) + 1 .. Len(orders) + Len(more)
        <4>1. i - Len(orders) \in 1 .. Len(more)
          BY <2>1, <3>2
        <4> QED
          BY <1>1, <2>1, <2>2, <3>2, <4>1 DEF Sent
      <3> QED
        BY <2>1, <2>3, <3>1, <3>2
    <2> QED
      BY <2>2, <2>4 DEF Sent, all
  <1>2. ASSUME NEW order, MenuOrder(order) PROVE Sent(Append(orders, order))
    <2> DEFINE all == Append(orders, order)
    <2>1. /\ IsSeq(orders) /\ Len(orders) \in Nat /\ DOMAIN orders = 1 .. Len(orders)
      BY SeqFacts DEF Sent
    <2>2. /\ IsSeq(all) /\ Len(all) = Len(orders) + 1
          /\ \A i \in 1 .. Len(orders) : all[i] = orders[i]
          /\ all[Len(orders) + 1] = order
      BY <2>1, Appended
    <2> HIDE DEF all
    <2>3. DOMAIN all = 1 .. Len(orders) + 1
      BY <2>2, SeqFacts
    <2>4. \A i \in DOMAIN all : i \in DOMAIN orders \/ i = Len(orders) + 1
      BY <2>1, <2>3
    <2>5. ASSUME NEW i \in DOMAIN all PROVE MenuOrder(all[i])
      BY <1>2, <2>1, <2>2, <2>4 DEF Sent
    <2> QED
      BY <2>2, <2>5 DEF Sent, all
  <1> QED
    BY <1>1, <1>2

LEMMA SentOne ==
    /\ Sent(<<>>)
    /\ \A order : MenuOrder(order) => Sent(<<order>>)
  <1>1. Sent(<<>>)
    BY Short DEF Sent
  <1>2. ASSUME NEW order, MenuOrder(order) PROVE Sent(<<order>>)
    <2>1. IsSeq(<<order>>) /\ DOMAIN <<order>> = 1 .. 1 /\ <<order>>[1] = order
      BY Short
    <2> QED
      BY <1>2, <2>1 DEF Sent
  <1> QED
    BY <1>1, <1>2

LEMMA WriterChanged ==
    ASSUME NEW s, Writing(s)
    PROVE  /\ \A at : Writing([s EXCEPT !.at = at])
           /\ \A orders : Sent(orders) => Writing([s EXCEPT !.orders = orders])
           /\ \A orders : Sent(orders) =>
                 \A n \in Nat : Writing([s EXCEPT !.orders = orders, !.count = n])
           /\ \A char : \A n \in Nat : Writing([s EXCEPT !.char = char, !.count = n])
  BY DEF Writing

LEMMA FlushWrites ==
    ASSUME NEW s, Writing(s), NEW p
    PROVE  Writing(Flush(s, p))
  <1> DEFINE literal == [k \in 1 .. s.count |-> [o |-> "char", c |-> s.char]]
             run == IF s.count <= 4 /\ ~(s.count = 3 /\ s.char = Nul) THEN literal
                    ELSE IF s.char = Nul THEN <<[o |-> "sba", at |-> p]>>
                    ELSE <<[o |-> "ra", at |-> LeftOf(p), c |-> s.char]>>
  <1>1. s.count \in Nat /\ Sent(s.orders)
    BY DEF Writing
  <1>2. Sent(literal)
    <2> DEFINE order == [o |-> "char", c |-> s.char]
    <2>1. order.o # "menu"
      OBVIOUS
    <2>2. order \in {order}
      OBVIOUS
    <2> HIDE DEF order
    <2> DEFINE many == [k \in 1 .. s.count |-> order]
    <2>3. /\ many \in Seq({order}) /\ DOMAIN many = 1 .. s.count
          /\ \A k \in 1 .. s.count : many[k] = order
      BY <1>1
    <2> HIDE DEF many
    <2>4. many \in Seq({many[i] : i \in DOMAIN many})
      BY <1>1, <2>3
    <2>5. Sent(many)
      BY <2>1, <2>3, <2>4 DEF Sent, IsSeq, MenuOrder
    <2> QED
      BY <2>5 DEF many, order
  <1>3. /\ Sent(<<[o |-> "sba", at |-> p]>>)
        /\ Sent(<<[o |-> "ra", at |-> LeftOf(p), c |-> s.char]>>)
    BY SentOne DEF MenuOrder
  <1> HIDE DEF literal
  <1>4. Sent(run)
    BY <1>2, <1>3
  <1> HIDE DEF run
  <1> DEFINE orders == s.orders \o run
  <1>5. Sent(orders)
    BY <1>1, <1>4, SentOn
  <1>6. Flush(s, p) = [s EXCEPT !.orders = orders, !.count = 0]
    BY DEF Flush, run, literal, Writing
  <1> HIDE DEF orders
  <1>7. Writing([s EXCEPT !.orders = orders, !.count = 0])
    BY <1>5, WriterChanged, Zenon
  <1> QED
    BY <1>6, <1>7, Zenon

LEMMA PutWrites ==
    ASSUME NEW s, Writing(s), NEW order, MenuOrder(order)
    PROVE  Writing(Put(s, order))
  <1> DEFINE orders == Append(s.orders, order)
  <1>1. Sent(orders)
    BY SentOn DEF Writing
  <1>2. Put(s, order) = [s EXCEPT !.orders = orders]
    BY DEF Put, Writing
  <1> HIDE DEF orders
  <1>3. Writing([s EXCEPT !.orders = orders])
    BY <1>1, WriterChanged, Zenon
  <1> QED
    BY <1>2, <1>3, Zenon

LEMMA PutCellWrites ==
    ASSUME NEW s, Writing(s), NEW d, NEW p
    PROVE  Writing(PutCell(d, s, p))
  <1>1. ASSUME NEW f PROVE Writing(PutField(s, p, f))
    <2> DEFINE order == [o |-> "sf", field |-> f, words |-> WordsOf(f)]
    <2>1. MenuOrder(order)
      BY DEF MenuOrder
    <2> HIDE DEF order
    <2>2. Writing(Put(Flush(s, p), order))
      BY <2>1, FlushWrites, PutWrites
    <2> QED
      BY <2>2 DEF PutField, order
  <1>2. ASSUME NEW c PROVE Writing(PutRun(s, p, c))
    <2> DEFINE t == IF s.char # c THEN Flush(s, p) ELSE s
    <2>1. Writing(t)
      BY FlushWrites
    <2> HIDE DEF t
    <2>2. t.count + 1 \in Nat
      BY <2>1 DEF Writing
    <2>3. PutRun(s, p, c) = [t EXCEPT !.char = c, !.count = t.count + 1]
      BY <2>1 DEF PutRun, t, Writing
    <2>4. Writing([t EXCEPT !.char = c, !.count = t.count + 1])
      BY <2>1, <2>2, WriterChanged, Zenon
    <2> QED
      BY <2>3, <2>4, Zenon
  <1> QED
    BY <1>1, <1>2 DEF PutCell

LEMMA PutConstructWrites ==
    ASSUME NEW s, Writing(s), NEW d, NEW g, Listed(g)
    PROVE  Writing(PutConstruct(d, g, s))
  <1> DEFINE win == WindowHit(g, s.at)
             menu == MenuHit(g, s.at)
             flushed == Flush(s, s.at)
  <1>1. Writing(flushed)
    BY FlushWrites
  <1> HIDE DEF flushed
  <1>2. \A t : Writing(t) => /\ Writing([t EXCEPT !.at = @ + 1])
                             /\ Writing([t EXCEPT !.at = (Row(@) + 1) * w])
    BY WriterChanged
  <1>3. CASE s.at = Size
    BY <1>3 DEF PutConstruct
  <1>4. CASE s.at # Size /\ win # 0
    <2> DEFINE order == [o |-> "window", height |-> g.windows[win].height,
                         width |-> g.windows[win].width]
    <2>1. MenuOrder(order)
      BY DEF MenuOrder
    <2>2. PutConstruct(d, g, s) = [Put(flushed, order) EXCEPT !.at = @ + 1]
      BY <1>4 DEF PutConstruct, flushed
    <2> HIDE DEF order
    <2> QED
      BY <1>1, <1>2, <2>1, <2>2, PutWrites
  <1>5. CASE s.at # Size /\ win = 0 /\ menu # 0
    <2> DEFINE items == g.menus[menu].items
               sizes == [i \in DOMAIN items |-> items[i].size - 2]
               order == [o |-> "menu", height |-> g.menus[menu].height, sizes |-> sizes]
    <2>1. menu \in DOMAIN g.menus
      <3> DEFINE found == {i \in DOMAIN g.menus :
                   Row(s.at) \in g.menus[i].row .. g.menus[i].row + g.menus[i].height - 1}
      <3>1. DOMAIN g.menus \subseteq Nat
        BY SeqFacts DEF Listed
      <3>2. found \in SUBSET Nat /\ found \subseteq DOMAIN g.menus
        BY <3>1
      <3>3. menu = IF found = {} THEN 0 ELSE Smallest(found)
        BY DEF MenuHit, FirstThat
      <3> HIDE DEF found
      <3> HIDE DEF menu
      <3> QED
        BY <1>5, <3>2, <3>3, SmallestExists
    <2> HIDE DEF menu
    <2>2. IsSeq(items)
      BY <2>1 DEF Listed, MenuBar
    <2> HIDE DEF items
    <2>3. IsSeq(sizes)
      <3>1. DOMAIN sizes = DOMAIN items /\ sizes = [i \in DOMAIN sizes |-> sizes[i]]
        OBVIOUS
      <3> HIDE DEF sizes
      <3> QED
        BY <2>2, <3>1, SameLength
    <2> HIDE DEF sizes
    <2>4. MenuOrder(order)
      BY <2>3 DEF MenuOrder
    <2>5. PutConstruct(d, g, s) = [Put(flushed, order) EXCEPT !.at = (Row(@) + 1) * w]
      BY <1>5 DEF PutConstruct, flushed, menu, sizes, items
    <2> HIDE DEF order
    <2> QED
      BY <1>1, <1>2, <2>4, <2>5, PutWrites
  <1>6. CASE s.at # Size /\ win = 0 /\ menu = 0
    <2>1. PutConstruct(d, g, s) = [PutCell(d, s, s.at) EXCEPT !.at = @ + 1]
      BY <1>6 DEF PutConstruct
    <2> QED
      BY <1>2, <2>1, PutCellWrites
  <1> QED
    BY <1>3, <1>4, <1>5, <1>6

LEMMA WriterWrites ==
    ASSUME NEW d
    PROVE  Writing(Writer(d))
  <1> DEFINE header == IF d.header = <<>> THEN <<>> ELSE <<[o |-> "soh", data |-> d.header]>>
  <1>1. /\ Sent(<<[o |-> "clear"]>>) /\ Sent(<<[o |-> "ic", at |-> d.cur]>>)
        /\ Sent(<<[o |-> "soh", data |-> d.header]>>)
    BY SentOne DEF MenuOrder
  <1>2. Sent(header)
    BY <1>1, SentOne
  <1> HIDE DEF header
  <1>3. Sent(<<[o |-> "clear"]>> \o header)
    BY <1>1, <1>2, SentOn
  <1>4. Sent((<<[o |-> "clear"]>> \o header) \o <<[o |-> "ic", at |-> d.cur]>>)
    BY <1>1, <1>3, SentOn
  <1>5. Prologue(d) = (<<[o |-> "clear"]>> \o header) \o <<[o |-> "ic", at |-> d.cur]>>
    BY DEF Prologue, header
  <1>6. Sent(Prologue(d))
    BY <1>4, <1>5
  <1> HIDE DEF header
  <1> QED
    BY <1>6 DEF Writer, Writing

LEMMA SavedIsSent ==
    ASSUME NEW d, NEW g, Listed(g)
    PROVE  Sent(SavedWith(d, g))
  <1> DEFINE x == Writer(d)
             Step(s) == PutConstruct(d, g, s)
             first[k \in 0 .. Size] ==
                 IF k = 0 THEN <<x>> ELSE LET s == first[k - 1] IN Append(s, Step(s[k]))
             Longer(f, k) == Append(f[k - 1], Step(f[k - 1][k]))
  <1>1. Size \in Nat /\ Writing(x) /\ \A s : Writing(s) => Writing(Step(s))
    BY ScreenSize, WriterWrites, PutConstructWrites
  <1> HIDE DEF x, Step
  <1>2. first = [k \in 0 .. Size |-> IF k = 0 THEN <<x>> ELSE Longer(first, k)]
    <2> DEFINE Good(n, f) == /\ f = [k \in 0 .. n |-> f[k]] /\ f[0] = <<x>>
                             /\ \A k \in 1 .. n : f[k] = Longer(f, k)
               T == {n \in Nat : \E f : Good(n, f)}
    <2>1. 0 \in T
      <3>1. Good(0, [k \in 0 .. 0 |-> <<x>>])
        OBVIOUS
      <3> QED
        BY <3>1
    <2>2. ASSUME NEW n \in Nat, n \in T PROVE n + 1 \in T
      <3>1. PICK f : Good(n, f)
        BY <2>2
      <3> DEFINE last == Append(f[n], Step(f[n][n + 1]))
                 new == [k \in 0 .. n + 1 |-> IF k = n + 1 THEN last ELSE f[k]]
      <3>2. /\ new = [k \in 0 .. n + 1 |-> new[k]]
            /\ new[n + 1] = last
            /\ \A k \in 0 .. n : new[k] = f[k]
        OBVIOUS
      <3> HIDE DEF new
      <3>3. ASSUME NEW k \in 1 .. n + 1 PROVE new[k] = Longer(new, k)
        <4>1. CASE k = n + 1
          <5>1. k - 1 = n /\ n \in 0 .. n
            BY <4>1
          <5>2. new[k - 1] = f[n] /\ new[k] = last
            BY <3>2, <4>1, <5>1
          <5> QED
            BY <4>1, <5>2
        <4>2. CASE k # n + 1
          <5>1. k \in 1 .. n /\ k - 1 \in 0 .. n /\ k \in 0 .. n
            BY <4>2
          <5>2. new[k - 1] = f[k - 1] /\ new[k] = f[k] /\ f[k] = Longer(f, k)
            BY <3>1, <3>2, <5>1
          <5> QED
            BY <5>2
        <4> QED
          BY <4>1, <4>2
      <3>4. new[0] = <<x>>
        <4>1. 0 \in 0 .. n /\ f[0] = <<x>>
          BY <3>1
        <4> QED
          BY <3>2, <4>1
      <3>5. Good(n + 1, new) /\ n + 1 \in Nat
        <4> HIDE DEF Longer
        <4>1. new = [k \in 0 .. n + 1 |-> new[k]]
          BY <3>2
        <4>2. \A k \in 1 .. n + 1 : new[k] = Longer(new, k)
          BY <3>3
        <4>3. n + 1 \in Nat
          OBVIOUS
        <4> QED
          BY <3>4, <4>1, <4>2, <4>3, Zenon
      <3> HIDE DEF Good
      <3> QED
        BY <3>5
    <2> HIDE DEF T
    <2>3. Size \in T
      BY <1>1, <2>1, <2>2, Induction
    <2>4. PICK f : Good(Size, f)
      BY <2>3 DEF T
    <2>5. ASSUME NEW k \in 0 .. Size
          PROVE  f[k] = IF k = 0 THEN <<x>> ELSE Longer(f, k)
      <3>1. k = 0 \/ (k # 0 /\ k \in 1 .. Size)
        BY <1>1
      <3> HIDE DEF Longer
      <3> QED
        BY <2>4, <3>1
    <2>6. f = [k \in 0 .. Size |-> IF k = 0 THEN <<x>> ELSE Longer(f, k)]
      <3> HIDE DEF Longer
      <3>1. f = [k \in 0 .. Size |-> f[k]]
        BY <2>4
      <3> QED
        BY <2>5, <3>1, Zenon
    <2> QED
      BY <2>6
  <1> HIDE DEF first
  <1> DEFINE Written(k) == /\ IsSeq(first[k]) /\ Len(first[k]) = k + 1
                           /\ \A i \in 1 .. k + 1 : Writing(first[k][i])
             T == {k \in Nat : k <= Size => Written(k)}
  <1>3. 0 \in T
    <2>1. first[0] = <<x>>
      BY <1>1, <1>2
    <2>2. IsSeq(<<x>>) /\ Len(<<x>>) = 1 /\ <<x>>[1] = x
      BY Short
    <2>3. \A i \in 1 .. 0 + 1 : i = 1
      OBVIOUS
    <2>4. Written(0)
      BY <1>1, <2>1, <2>2, <2>3
    <2> QED
      BY <2>4
  <1>4. ASSUME NEW k \in Nat, k \in T PROVE k + 1 \in T
    <2> SUFFICES ASSUME k + 1 <= Size PROVE Written(k + 1)
      OBVIOUS
    <2>1. Written(k)
      BY <1>1, <1>4
    <2> DEFINE s == first[k]
               e == Step(s[k + 1])
               t == Append(s, e)
    <2>2. k + 1 \in 0 .. Size /\ k + 1 # 0 /\ (k + 1) - 1 = k /\ k + 1 \in 1 .. k + 1
      BY <1>1
    <2>3. first[k + 1] = t
      BY <1>2, <2>2
    <2>4. Writing(e)
      BY <1>1, <2>1, <2>2
    <2> HIDE DEF e
    <2>5. /\ IsSeq(t) /\ Len(t) = k + 2
          /\ \A i \in 1 .. k + 1 : t[i] = s[i]
          /\ t[k + 2] = e
      <3>1. IsSeq(s) /\ Len(s) = k + 1
        BY <2>1
      <3> HIDE DEF s
      <3>2. Len(s) + 1 = k + 2
        BY <3>1
      <3> QED
        BY <3>1, <3>2, Appended
    <2>6. ASSUME NEW i \in 1 .. k + 2 PROVE Writing(t[i])
      <3>1. i = k + 2 \/ i \in 1 .. k + 1
        OBVIOUS
      <3> HIDE DEF t
      <3> QED
        BY <2>1, <2>4, <2>5, <3>1
    <2> HIDE DEF t
    <2>7. (k + 1) + 1 = k + 2
      OBVIOUS
    <2> QED
      BY <2>3, <2>5, <2>6, <2>7
  <1> HIDE DEF T
  <1>5. Size \in T
    BY <1>1, <1>3, <1>4, Induction
  <1>6. Written(Size)
    BY <1>1, <1>5 DEF T
  <1>7. Writing(first[Size][Size + 1])
    BY <1>1, <1>6
  <1>8. SavedWith(d, g) = first[Size][Size + 1].orders
    BY DEF SavedWith, Iterates, first, x, Step
  <1> QED
    BY <1>7, <1>8 DEF Writing
------------------------------------------------------------------------------
(* The inductive invariant. *)
LEMMA Initially == Init => IInv
  <1> SUFFICES ASSUME Init PROVE IInv
    OBVIOUS
  <1>1. Listed(NoConstructs) /\ Counted(NoConstructs)
    BY Short DEF NoConstructs, Listed, Counted
  <1> QED
    BY <1>1, SentOne DEF Init, IInv

LEMMA ArrowKeeps ==
    ASSUME IInv, NEW k, NEW move, gui' = [gui EXCEPT !.menus[k] = Selected(@, move)]
    PROVE  Listed(gui') /\ Counted(gui')
  <1> DEFINE m == Selected(gui.menus[k], move)
  <1>1. k \in DOMAIN gui.menus => MenuBar(m) /\ m.id = gui.menus[k].id
    BY ItemSelected DEF IInv, Listed
  <1>2. gui' = [gui EXCEPT !.menus = [gui.menus EXCEPT ![k] = m]]
    BY DEF IInv, Listed
  <1> HIDE DEF m
  <1>3. LET new == [gui EXCEPT !.menus = [gui.menus EXCEPT ![k] = m]]
        IN Listed(new) /\ Counted(new)
    BY <1>1, MenuReplaced DEF IInv
  <1> QED
    BY <1>2, <1>3

LEMMA Inductive == IInv /\ [Next]_vars => IInv'
  <1> SUFFICES ASSUME IInv, [Next]_vars PROVE IInv'
    OBVIOUS
  <1>1. Listed(gui) /\ Counted(gui) /\ Sent(saved.orders)
    BY DEF IInv
  <1>2. ASSUME Listed(gui'), Counted(gui'), UNCHANGED saved PROVE IInv'
    BY <1>1, <1>2 DEF IInv
  <1>3. ASSUME NEW p \in Corners, NEW size \in Windows, CreateWindow(p, size) PROVE IInv'
    BY <1>1, <1>2, <1>3, WindowAdded DEF CreateWindow
  <1>4. ASSUME NEW p \in Corners, NEW menu \in Menus, DefineSelectionField(p, menu) PROVE IInv'
    <2>1. IsSeq(menu.sizes)
      BY ConstructsAssumption DEF IsSeq
    <2> QED
      BY <1>1, <1>2, <1>4, <2>1, SelectionDefined DEF DefineSelectionField
  <1>5. ASSUME NEW p \in Corners, NEW down \in BOOLEAN, DefineScrollbar(p, down) PROVE IInv'
    BY <1>1, <1>2, <1>5, BarDefined DEF DefineScrollbar
  <1>6. Listed(WithoutWindows(gui)) /\ Counted(WithoutWindows(gui))
    BY <1>1, Removed
  <1>7. CASE RemoveWindow
    BY <1>1, <1>2, <1>7, OneRemoved DEF RemoveWindow, Changes
  <1>8. CASE RemoveAllConstructs
    BY <1>2, <1>6, <1>8, Removed DEF RemoveAllConstructs, Changes
  <1>9. CASE RemoveSelectionField
    BY <1>1, <1>2, <1>9, Removed DEF RemoveSelectionField, Changes
  <1>10. CASE ClearTheUnit
    <2>1. Listed(WithoutMenus(WithoutWindows(gui))) /\ Counted(WithoutMenus(WithoutWindows(gui)))
      BY <1>6, Removed
    <2> QED
      BY <1>2, <1>10, <2>1, Removed DEF ClearTheUnit
  <1>11. CASE ClearAlternate
    BY <1>2, <1>6, <1>11, Removed DEF ClearAlternate
  <1>12. ASSUME NEW p, Elsewhere(p) PROVE IInv'
    BY <1>1, <1>2, <1>12 DEF Elsewhere, SetAddress
  <1>13. CASE RightOrDown
    <2>1. ASSUME Arrow(SelectNext) PROVE IInv'
      BY <1>1, <1>2, <2>1, ArrowKeeps DEF Arrow, IInv
    <2> QED
      BY <1>12, <1>13, <2>1 DEF RightOrDown
  <1>14. CASE LeftOrUp
    <2>1. ASSUME Arrow(SelectPrev) PROVE IInv'
      BY <1>1, <1>2, <2>1, ArrowKeeps DEF Arrow, IInv
    <2> QED
      BY <1>12, <1>14, <2>1 DEF LeftOrUp
  <1>15. CASE Save
    <2>1. saved'.orders = SavedWith(unit.screen, gui) /\ UNCHANGED gui
      BY <1>15 DEF Save
    <2> QED
      BY <1>1, <2>1, SavedIsSent DEF IInv
  <1>16. CASE Restore
    <2>1. gui' = RestoredWith(unit, gui, saved.orders).g /\ UNCHANGED saved
      BY <1>16 DEF Restore
    <2> QED
      BY <1>1, <1>2, <2>1, RestoredKeeps
  <1>17. CASE UNCHANGED vars
    BY <1>1, <1>2, <1>17 DEF vars
  <1> QED
    BY <1>3, <1>4, <1>5, <1>7, <1>8, <1>9, <1>10, <1>11, <1>13, <1>14, <1>15, <1>16, <1>17
    DEF Next

(* Whatever constructs are defined, removed, walked through, saved and        *)
(* restored, the lists are sequences counted beside them, and what the host   *)
(* keeps can be carried out.                                                 *)
THEOREM Invariance == Spec => []IInv
  BY Initially, Inductive, PTL DEF Spec

(* The counts, which are all that the commands that destroy the lists look    *)
(* at, are zero just when the lists are empty; menu bars and scroll bars are  *)
(* counted exactly, and a menu bar's number is its place.                     *)
THEOREM CountsAgree == Spec => []CountsKeepLists
  <1>1. IInv => CountsKeepLists
    BY DEF IInv, Counted, CountsKeepLists
  <1> QED
    BY <1>1, Invariance, PTL
==============================================================================
