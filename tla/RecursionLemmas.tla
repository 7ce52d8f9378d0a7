-------------------------- MODULE RecursionLemmas ---------------------------
(***************************************************************************)
(* Recursive functions on an interval of the naturals, f[0], .., f[n]:     *)
(* that there is one, and that a property handed on from value to value    *)
(* holds of all of them.  Definitions like                                 *)
(*     f[k \in 0..n] == IF k = 0 THEN b ELSE g(f[k - 1], k)                *)
(* are a CHOOSE, so nothing is known of f before existence is.             *)
(*                                                                         *)
(* The induction is stated of a set and not of a formula: a set can be     *)
(* named in a proof, where the provers can use the lemma.                  *)
(***************************************************************************)
EXTENDS Integers, TLAPS, WellFoundedInduction

\* A set of numbers that has 0 and with each number the next is all of Nat.
LEMMA SetInduction ==
    ASSUME NEW S \in SUBSET Nat, 0 \in S, \A n \in Nat : n \in S => n + 1 \in S
    PROVE  S = Nat
  <1> DEFINE T == Nat \ S
             Less == {pair \in Nat \X Nat : pair[1] < pair[2]}
  <1> SUFFICES ASSUME T # {} PROVE FALSE
    OBVIOUS
  <1>1. IsWellFoundedOn(Less, Nat)
    BY NatLessThanWellFounded DEF OpToRel
  <1>2. T \subseteq Nat /\ T # {}
    OBVIOUS
  <1> HIDE DEF Less
  <1>3. \E x \in T : \A y \in T : ~(<<y, x>> \in Less)
    <2> HIDE DEF T
    <2> QED
      BY <1>1, <1>2, WFMin
  <1>4. PICK x \in T : \A y \in T : ~(<<y, x>> \in Less)
    BY <1>3
  <1>5. x \in Nat /\ x # 0 /\ x - 1 \in Nat
    OBVIOUS
  <1>6. x - 1 \in T
    BY <1>5
  <1>7. <<x - 1, x>> \in Less
    BY <1>5 DEF Less
  <1> QED
    BY <1>4, <1>6, <1>7

\* A set of numbers that is not empty has a smallest.
LEMMA SmallestExists ==
    ASSUME NEW S \in SUBSET Nat, S # {}
    PROVE  \E x \in S : \A y \in S : x <= y
  <1> DEFINE Less == {pair \in Nat \X Nat : pair[1] < pair[2]}
  <1>1. IsWellFoundedOn(Less, Nat)
    BY NatLessThanWellFounded DEF OpToRel
  <1> HIDE DEF Less
  <1>2. PICK x \in S : \A y \in S : ~(<<y, x>> \in Less)
    BY <1>1, WFMin
  <1>3. ASSUME NEW y \in S PROVE x <= y
    <2>1. x \in Nat /\ y \in Nat /\ ~(<<y, x>> \in Less)
      BY <1>2
    <2> QED
      BY <2>1 DEF Less
  <1> QED
    BY <1>3

\* If a value lies in S once all the values before it do, every value does.
LEMMA AllValues ==
    ASSUME NEW n \in Nat, NEW S, NEW f,
           \A k \in 0..n : (\A j \in 0..(k - 1) : f[j] \in S) => f[k] \in S
    PROVE  \A k \in 0..n : f[k] \in S
  <1> DEFINE T == {m \in Nat : \A j \in 0..m : j <= n => f[j] \in S}
  <1>1. 0 \in T
    OBVIOUS
  <1>2. ASSUME NEW m \in Nat, m \in T PROVE m + 1 \in T
    <2>1. m + 1 <= n => f[m + 1] \in S
      BY <1>2
    <2> QED
      BY <1>2, <2>1
  <1> HIDE DEF T
  <1>3. T = Nat
    <2>1. T \in SUBSET Nat
      BY DEF T
    <2> QED
      BY <1>1, <1>2, <2>1, SetInduction
  <1> QED
    BY <1>3 DEF T

\* The value of f at k is given at once, or made from the one at from[k].
IsRecursion(f, n, S, stop, base, from, step) ==
    /\ f \in [0..n -> S]
    /\ \A k \in 0..n : f[k] = IF k \in stop THEN base[k] ELSE step[k][f[from[k]]]

\* There is such a function if it is made from earlier values only.
LEMMA RecursionExists ==
    ASSUME NEW n \in Nat, NEW S, NEW stop, NEW base \in [0..n -> S],
           NEW from \in [0..n -> Nat], NEW step \in [0..n -> [S -> S]],
           \A k \in 0..n : k \notin stop => from[k] < k
    PROVE  \E f : IsRecursion(f, n, S, stop, base, from, step)
  <1> DEFINE Good(f, m) ==
                 /\ f \in [0..m -> S]
                 /\ \A k \in 0..m : f[k] = IF k \in stop THEN base[k] ELSE step[k][f[from[k]]]
             T == {m \in Nat : m <= n => \E f : Good(f, m)}
  <1>0. \A m \in Nat : m \in T <=> (m <= n => \E f : Good(f, m))
    <2> HIDE DEF Good
    <2> QED
      OBVIOUS
  <1>1. 0 \in T
    <2> DEFINE f == [k \in 0..0 |-> base[k]]
    <2>1. 0 \in stop /\ f \in [0..0 -> S] /\ \A k \in 0..0 : k = 0
      OBVIOUS
    <2>2. Good(f, 0)
      BY <2>1
    <2> QED
      BY <2>2
  <1>2. ASSUME NEW m \in Nat, m + 1 <= n, \E f : Good(f, m) PROVE \E f : Good(f, m + 1)
    <2>1. PICK f : Good(f, m)
      BY <1>2
    <2> DEFINE next == IF m + 1 \in stop THEN base[m + 1] ELSE step[m + 1][f[from[m + 1]]]
               g == [k \in 0..(m + 1) |-> IF k = m + 1 THEN next ELSE f[k]]
    <2>2. next \in S
      <3>1. CASE m + 1 \in stop
        BY <1>2, <3>1
      <3>2. CASE m + 1 \notin stop
        <4>1. m + 1 \in 0..n /\ from[m + 1] \in 0..m
          BY <1>2, <3>2
        <4>2. f[from[m + 1]] \in S /\ step[m + 1] \in [S -> S]
          BY <2>1, <4>1
        <4> QED
          BY <3>2, <4>2
      <3> QED
        BY <3>1, <3>2
    <2>3. g \in [0..(m + 1) -> S]
      <3> HIDE DEF next
      <3> QED
        BY <2>1, <2>2
    <2>4. ASSUME NEW k \in 0..(m + 1)
          PROVE  g[k] = IF k \in stop THEN base[k] ELSE step[k][g[from[k]]]
      <3>1. k \notin stop => from[k] \in 0..m /\ from[k] < k
        BY <1>2
      <3>2. k \notin stop => g[from[k]] = f[from[k]]
        BY <3>1
      <3>3. CASE k = m + 1
        BY <3>2, <3>3
      <3>4. CASE k # m + 1
        <4>1. k \in 0..m /\ g[k] = f[k]
          BY <3>4
        <4> QED
          BY <2>1, <3>2, <4>1
      <3> QED
        BY <3>3, <3>4
    <2>5. Good(g, m + 1)
      BY <2>3, <2>4
    <2> QED
      BY <2>5
  <1>3. ASSUME NEW m \in Nat, m \in T PROVE m + 1 \in T
    <2> HIDE DEF Good, T
    <2> QED
      BY <1>0, <1>2, <1>3
  <1>4. T = Nat
    <2> HIDE DEF Good
    <2>1. T \in SUBSET Nat
      OBVIOUS
    <2> HIDE DEF T
    <2> QED
      BY <1>1, <1>3, <2>1, SetInduction
  <1>5. \E f : Good(f, n)
    <2>1. n \in T
      BY <1>4
    <2> HIDE DEF Good
    <2> QED
      BY <2>1
  <1> QED
    BY <1>5 DEF IsRecursion

-----------------------------------------------------------------------------
(* Loops: a value for every place of an interval, each made from the last *)

\* From a on, step by step, all of a..b.
LEMMA IntervalInduction ==
    ASSUME NEW a \in Nat, NEW b \in Nat, NEW T, a \in T,
           \A n \in a..(b - 1) : n \in T => n + 1 \in T
    PROVE  \A n \in a..b : n \in T
  <1> DEFINE R == {m \in Nat : a + m <= b => a + m \in T}
  <1>1. 0 \in R
    OBVIOUS
  <1>2. ASSUME NEW m \in Nat, m \in R PROVE m + 1 \in R
    <2>1. CASE a + (m + 1) <= b
      <3>1. a + m \in a..(b - 1) /\ a + m \in T
        BY <1>2, <2>1
      <3>2. (a + m) + 1 \in T
        BY <3>1
      <3> QED
        BY <3>2
    <2>2. CASE ~(a + (m + 1) <= b)
      BY <2>2
    <2> QED
      BY <2>1, <2>2
  <1>3. R = Nat
    <2>1. R \in SUBSET Nat
      OBVIOUS
    <2> HIDE DEF R
    <2> QED
      BY <1>1, <1>2, <2>1, SetInduction
  <1>4. ASSUME NEW n \in a..b PROVE n \in T
    <2>1. n - a \in Nat /\ a + (n - a) = n
      OBVIOUS
    <2>2. n - a \in R
      BY <1>3, <2>1
    <2> QED
      BY <2>1, <2>2
  <1> QED
    BY <1>4

\* Turn n makes the value at n from the one at n - 1.
IsLoop(f, a, b, S, x, step) ==
    /\ f \in [a..b -> S]
    /\ \A n \in a..b : f[n] = IF n = a THEN x ELSE step[n][f[n - 1]]

\* There is such a loop.
LEMMA LoopExists ==
    ASSUME NEW a \in Nat, NEW b \in Nat, a <= b, NEW S, NEW x \in S,
           NEW step \in [a..b -> [S -> S]]
    PROVE  \E f : IsLoop(f, a, b, S, x, step)
  <1> DEFINE m == b - a
             stop == {0}
             base == [k \in 0..m |-> x]
             from == [k \in 0..m |-> IF k = 0 THEN 0 ELSE k - 1]
             turn == [k \in 0..m |-> step[k + a]]
  <1>1. m \in Nat
    OBVIOUS
  <1>2. /\ base \in [0..m -> S] /\ from \in [0..m -> Nat]
        /\ \A k \in 0..m : k \notin stop => from[k] < k
    BY <1>1
  <1>3. turn \in [0..m -> [S -> S]]
    <2>1. \A k \in 0..m : k + a \in a..b
      BY <1>1
    <2> QED
      BY <2>1
  <1>4. PICK g : IsRecursion(g, m, S, stop, base, from, turn)
    <2> HIDE DEF m, stop, base, from, turn
    <2> QED
      BY <1>1, <1>2, <1>3, RecursionExists
  <1>5. g \in [0..m -> S] /\ g[0] = x /\ \A k \in 1..m : g[k] = step[k + a][g[k - 1]]
    <2>1. \A k \in 0..m : g[k] = IF k \in stop THEN base[k] ELSE turn[k][g[from[k]]]
      BY <1>4 DEF IsRecursion
    <2>2. g[0] = x
      BY <1>1, <2>1
    <2>3. ASSUME NEW k \in 1..m PROVE g[k] = step[k + a][g[k - 1]]
      <3>1. k \in 0..m /\ k # 0
        BY <1>1
      <3> QED
        BY <2>1, <3>1
    <2> QED
      BY <1>4, <2>2, <2>3 DEF IsRecursion
  <1> DEFINE f == [n \in a..b |-> g[n - a]]
  <1>6. f \in [a..b -> S]
    <2>1. \A n \in a..b : n - a \in 0..m
      OBVIOUS
    <2> QED
      BY <1>5, <2>1
  <1>7. ASSUME NEW n \in a..b PROVE f[n] = IF n = a THEN x ELSE step[n][f[n - 1]]
    <2>1. CASE n = a
      BY <1>5, <2>1
    <2>2. CASE n # a
      <3>1. n - a \in 1..m /\ (n - a) + a = n /\ n - 1 \in a..b /\ (n - a) - 1 = (n - 1) - a
        BY <2>2
      <3>2. g[n - a] = step[(n - a) + a][g[(n - a) - 1]]
        BY <1>5, <3>1
      <3>3. f[n] = g[n - a] /\ f[n - 1] = g[(n - 1) - a]
        BY <3>1
      <3> HIDE DEF f
      <3> QED
        BY <2>2, <3>1, <3>2, <3>3
    <2> QED
      BY <2>1, <2>2
  <1> HIDE DEF f
  <1> QED
    BY <1>6, <1>7 DEF IsLoop
=============================================================================
