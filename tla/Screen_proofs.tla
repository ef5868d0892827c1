----------------------------- MODULE Screen_proofs -----------------------------
(***************************************************************************)
(* Lemmas about the operators on screens that other proofs rest on, for      *)
(* screens of any size: induction and recursion over the numbers, written     *)
(* with sets and functions, and the addresses of cells.                       *)
(***************************************************************************)
EXTENDS Orders, WellFoundedInduction, TLAPS

(* A set with 0 and the successor of each of its numbers has all numbers. *)
LEMMA Induction ==
    ASSUME NEW T, 0 \in T, \A n \in Nat : n \in T => n + 1 \in T
    PROVE  Nat \subseteq T
  <1> DEFINE below == OpToRel(<, Nat)
             Out == Nat \ T
  <1>1. IsWellFoundedOn(below, Nat)
    BY NatLessThanWellFounded DEF OpToRel
  <1>2. \A m, n \in Nat : m < n => <<m, n>> \in below
    BY DEF OpToRel
  <1>3. SUFFICES ASSUME Out # {} PROVE FALSE
    OBVIOUS
  <1> HIDE DEF below
  <1>4. PICK n \in Out : \A m \in Out : <<m, n>> \notin below
    BY <1>1, <1>3, WFMin
  <1>5. n \in Nat /\ n # 0 /\ n \notin T
    BY <1>4
  <1>6. n - 1 \in Nat /\ (n - 1) + 1 = n /\ n - 1 < n
    BY <1>5
  <1>7. n - 1 \notin T
    BY <1>5, <1>6
  <1> QED
    BY <1>2, <1>4, <1>5, <1>6, <1>7

(* A step function that stays in a set can be iterated from any start. *)
StepsIn(S) == [S \X Nat -> S]
Iterated(f, S, x, g, N) ==
    /\ f \in [0 .. N -> S]
    /\ f[0] = x
    /\ \A k \in 1 .. N : f[k] = g[<<f[k - 1], k>>]

LEMMA Recursion ==
    ASSUME NEW S, NEW x \in S, NEW g \in StepsIn(S), NEW N \in Nat
    PROVE  \E f : Iterated(f, S, x, g, N)
  <1> USE DEF StepsIn
  <1> DEFINE Good(n, f) == /\ f \in [0 .. n -> S]
                           /\ f[0] = x
                           /\ \A k \in 1 .. n : f[k] = g[<<f[k - 1], k>>]
             T == {n \in Nat : \E f : Good(n, f)}
  <1>1. 0 \in T
    <2>1. Good(0, [k \in 0 .. 0 |-> x])
      OBVIOUS
    <2> QED
      BY <2>1
  <1>2. ASSUME NEW n \in Nat, n \in T PROVE n + 1 \in T
    <2>1. PICK f : Good(n, f)
      BY <1>2
    <2> DEFINE new == [k \in 0 .. n + 1 |-> IF k = n + 1 THEN g[<<f[n], n + 1>>] ELSE f[k]]
    <2>2. f[n] \in S /\ g[<<f[n], n + 1>>] \in S
      BY <2>1
    <2>3. new \in [0 .. n + 1 -> S]
      BY <2>1, <2>2
    <2>4. new[0] = x /\ new[n + 1] = g[<<f[n], n + 1>>]
      BY <2>1
    <2>5. \A k \in 0 .. n : new[k] = f[k]
      OBVIOUS
    <2> HIDE DEF new
    <2>6. ASSUME NEW k \in 1 .. n + 1 PROVE new[k] = g[<<new[k - 1], k>>]
      <3>1. CASE k = n + 1
        <4>1. k - 1 = n /\ n \in 0 .. n
          BY <3>1
        <4> QED
          BY <2>4, <2>5, <3>1, <4>1
      <3>2. CASE k # n + 1
        <4>1. k \in 1 .. n /\ k - 1 \in 0 .. n /\ k \in 0 .. n
          BY <3>2
        <4> QED
          BY <2>1, <2>5, <4>1
      <3> QED
        BY <3>1, <3>2
    <2> QED
      BY <2>3, <2>4, <2>6
  <1> HIDE DEF T
  <1>3. N \in T
    BY <1>1, <1>2, Induction
  <1> QED
    BY <1>3 DEF T, Iterated

(* A set of numbers that is not empty has a smallest one, and if there is a   *)
(* bound to it, a largest one.                                               *)
LEMMA SmallestExists ==
    ASSUME NEW T \in SUBSET Nat, T # {}
    PROVE  Smallest(T) \in T /\ \A n \in T : Smallest(T) <= n
  <1> DEFINE Below == {n \in Nat : \A m \in T : n <= m}
  <1>1. \E n \in T : \A m \in T : n <= m
    <2> SUFFICES ASSUME \A n \in T : \E m \in T : ~(n <= m) PROVE FALSE
      OBVIOUS
    <2>1. 0 \in Below
      OBVIOUS
    <2>2. ASSUME NEW n \in Nat, n \in Below PROVE n + 1 \in Below
      <3>1. n \notin T
        BY <2>2
      <3> QED
        BY <2>2, <3>1
    <2> HIDE DEF Below
    <2>3. Nat \subseteq Below
      BY <2>1, <2>2, Induction
    <2>4. PICK n \in T : TRUE
      OBVIOUS
    <2>5. n + 1 \in Below
      BY <2>3
    <2> QED
      BY <2>5 DEF Below
  <1> QED
    BY <1>1 DEF Smallest

LEMMA LargestExists ==
    ASSUME NEW b \in Nat, NEW T \in SUBSET (0 .. b), T # {}
    PROVE  Largest(T) \in T /\ \A n \in T : n <= Largest(T)
  <1> DEFINE U == {b - n : n \in T}
  <1>1. U \in SUBSET Nat /\ U # {}
    <2>1. \A n \in T : b - n \in Nat
      OBVIOUS
    <2> QED
      BY <2>1
  <1>2. Smallest(U) \in U /\ \A m \in U : Smallest(U) <= m
    BY <1>1, SmallestExists
  <1>3. PICK n \in T : Smallest(U) = b - n
    BY <1>2
  <1>4. \A m \in T : m <= n
    BY <1>2, <1>3
  <1> QED
    BY <1>4 DEF Largest
------------------------------------------------------------------------------
(* There is a cell, and addresses taken modulo the size are cells. *)
LEMMA ScreenSize ==
    /\ Size \in Nat \ {0}
    /\ 0 \in Cells
    /\ \A n \in Int : n % Size \in Cells
  <1>1. w * h \in Nat /\ w * h # 0
    BY DisplayBufferAssumption
  <1> QED
    BY <1>1 DEF Size, Cells

LEMMA CellsRight ==
    /\ \A p \in Cells : p \in Nat /\ p < Size
    /\ \A p, n \in Int : RightOf(p, n) \in Cells
  <1>1. \A p \in Cells : p \in Nat /\ p < Size
    BY ScreenSize DEF Cells
  <1>2. ASSUME NEW p \in Int, NEW n \in Int PROVE RightOf(p, n) \in Cells
    <2>1. p + n \in Int
      OBVIOUS
    <2> QED
      BY <2>1, ScreenSize DEF RightOf
  <1> QED
    BY <1>1, <1>2

(* The distance of two cells. *)
LEMMA Distance ==
    ASSUME NEW p \in Cells, NEW q \in Cells
    PROVE  1 + ((q + Size - p) % Size) \in Nat \ {0}
  <1>1. q \in Int /\ p \in Int /\ Size \in Int
    BY CellsRight, ScreenSize
  <1>2. q + Size - p \in Int
    BY <1>1
  <1>3. (q + Size - p) % Size \in Cells
    BY <1>2, ScreenSize
  <1>4. \A k \in Nat : 1 + k \in Nat \ {0}
    OBVIOUS
  <1> QED
    BY <1>3, <1>4, CellsRight

(* The row and the column of a cell, and the cell of a row and a column. *)
LEMMA CellOf ==
    ASSUME NEW r \in 0 .. h - 1, NEW c \in 0 .. w - 1
    PROVE  r * w + c \in Cells
  <1> w \in Nat /\ h \in Nat
    BY DisplayBufferAssumption
  <1>1. r * w \in Nat /\ h * w = w * h /\ (h - 1 - r) * w \in Nat
    OBVIOUS
  <1>2. (h - 1 - r) * w = h * w - w - r * w
    OBVIOUS
  <1> QED
    BY <1>1, <1>2 DEF Cells, Size

LEMMA RowCol ==
    ASSUME NEW p \in Cells
    PROVE  /\ Row(p) \in 0 .. h - 1
           /\ Col(p) \in 0 .. w - 1
           /\ p = Row(p) * w + Col(p)
  <1> w \in Nat \ {0} /\ h \in Nat \ {0}
    BY DisplayBufferAssumption
  <1> p \in Nat /\ p < w * h
    BY ScreenSize DEF Cells, Size
  <1>1. /\ p \div w \in Nat /\ p % w \in 0 .. w - 1
        /\ p = (p \div w) * w + (p % w)
    OBVIOUS
  <1>2. p \div w < h
    <2> DEFINE q == p \div w
    <2>1. q \in Nat /\ q * w <= p
      BY <1>1
    <2> HIDE DEF q
    <2>2. q >= h => q * w >= h * w
      BY <2>1
    <2> QED
      BY <2>1, <2>2 DEF q
  <1> QED
    BY <1>1, <1>2 DEF Row, Col
==============================================================================
