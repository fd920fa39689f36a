---------------------------- MODULE NaturalSets ------------------------------
(***************************************************************************)
(* Induction over the natural numbers and recursion along them, in terms   *)
(* of sets and functions.  The library states them for operators, which    *)
(* the provers cannot instantiate; a set of naturals is an ordinary value. *)
(***************************************************************************)
EXTENDS Integers, WellFoundedInduction, TLAPS

(***************************************************************************)
(* A set that has 0 and the successor of each of its naturals has them     *)
(* all: otherwise take the least one outside.                              *)
(***************************************************************************)
LEMMA NatSetInduction ==
  ASSUME NEW S, 0 \in S, \A n \in Nat : n \in S => n + 1 \in S
  PROVE  Nat \subseteq S
<1> SUFFICES ASSUME Nat \ S # {}
             PROVE  FALSE
  OBVIOUS
<1> DEFINE R == OpToRel(<, Nat)
           T == Nat \ S
<1>1. IsWellFoundedOn(R, Nat)
  BY NatLessThanWellFounded
<1>2. T \subseteq Nat /\ T # {}
  OBVIOUS
<1> HIDE DEF R, T
<1>3. PICK x \in T : \A y \in T : ~ (<<y, x>> \in R)
  BY <1>1, <1>2, WFMin
<1> USE DEF R, T
<1>4. \A y \in T : ~ (y < x)
  BY <1>3 DEF OpToRel
<1>5. x # 0 /\ x \in Nat /\ x \notin S
  OBVIOUS
<1>6. x - 1 \in Nat /\ x - 1 < x /\ (x - 1) + 1 = x
  BY <1>5
<1>7. x - 1 \in S
  BY <1>4, <1>6
<1> QED
  BY <1>5, <1>6, <1>7

(***************************************************************************)
(* The functions on 0..n that start at init and are given at every later k *)
(* by next, in terms of the value before.                                  *)
(***************************************************************************)
Steps(D, n) == [D \X (1..n) -> D]
Recursions(D, n, init, next) ==
  {f \in [0..n -> D] : f[0] = init /\ \A k \in 1..n : f[k] = next[<<f[k - 1], k>>]}

(***************************************************************************)
(* There is one: extend one on 0..m by one point.                          *)
(***************************************************************************)
LEMMA RecursionExists ==
  ASSUME NEW n \in Nat, NEW D, NEW init \in D, NEW next \in Steps(D, n)
  PROVE  Recursions(D, n, init, next) # {}
<1> DEFINE Recursive(f, m) == /\ f[0] = init
                              /\ \A k \in 1..m : f[k] = next[<<f[k - 1], k>>]
           S == {m \in Nat : m <= n => \E f \in [0..m -> D] : Recursive(f, m)}
<1>1. 0 \in S
  <2> DEFINE f == [k \in 0..0 |-> init]
  <2>1. f \in [0..0 -> D] /\ Recursive(f, 0)
    OBVIOUS
  <2> QED
    BY <2>1
<1>2. ASSUME NEW m \in Nat, m \in S
      PROVE  m + 1 \in S
  <2> SUFFICES ASSUME m + 1 <= n
               PROVE  \E f \in [0..(m + 1) -> D] : Recursive(f, m + 1)
    OBVIOUS
  <2>1. PICK f \in [0..m -> D] : Recursive(f, m)
    BY <1>2
  <2> DEFINE g == [k \in 0..(m + 1) |-> IF k = m + 1 THEN next[<<f[m], m + 1>>] ELSE f[k]]
  <2>2. m + 1 \in 1..n /\ f[m] \in D
    OBVIOUS
  <2>3. next[<<f[m], m + 1>>] \in D
    BY <2>2 DEF Steps
  <2>4. g \in [0..(m + 1) -> D]
    BY <2>3
  <2>5. g[m + 1] = next[<<f[m], m + 1>>] /\ \A k \in 0..m : g[k] = f[k]
    OBVIOUS
  <2>6. Recursive(g, m + 1)
    <3> HIDE DEF g
    <3>1. g[0] = init /\ (m + 1) - 1 = m /\ g[m] = f[m]
      BY <2>1, <2>5
    <3>2. ASSUME NEW k \in 1..(m + 1)
          PROVE  g[k] = next[<<g[k - 1], k>>]
      <4>1. CASE k = m + 1
        BY <2>5, <3>1, <4>1
      <4>2. CASE k # m + 1
        <5>1. k \in 1..m /\ k \in 0..m /\ k - 1 \in 0..m
          BY <4>2
        <5> QED
          BY <2>1, <2>5, <5>1
      <4> QED
        BY <4>1, <4>2
    <3> QED
      BY <3>1, <3>2
  <2> QED
    BY <2>4, <2>6
<1> HIDE DEF S
<1>3. n \in S
  BY <1>1, <1>2, NatSetInduction
<1> USE DEF S
<1> QED
  BY <1>3 DEF Recursions

(***************************************************************************)
(* A function on S is defined by recursion when its value at x depends on  *)
(* the values at points of a lower rank only, and ranks are bounded.       *)
(***************************************************************************)
Ranks(S, N) == [S -> 0..N]
Bodies(S, D) == [S \X [S -> D] -> D]
Descends(S, D, rank, next) ==
    \A x \in S : \A f, g \in [S -> D] :
        (\A y \in S : rank[y] < rank[x] => f[y] = g[y]) => next[<<x, f>>] = next[<<x, g>>]
Solutions(S, D, next) == {f \in [S -> D] : \A x \in S : f[x] = next[<<x, f>>]}

(***************************************************************************)
(* Such a function exists: take the values of one rank after another.      *)
(***************************************************************************)
LEMMA RankedRecursion ==
    ASSUME NEW S, NEW D, D # {}, NEW N \in Nat, NEW rank \in Ranks(S, N),
           NEW next \in Bodies(S, D), Descends(S, D, rank, next)
    PROVE  Solutions(S, D, next) # {}
<1> DEFINE Solves(f, n) == \A x \in S : rank[x] < n => f[x] = next[<<x, f>>]
           T == {n \in Nat : \E f \in [S -> D] : Solves(f, n)}
<1>1. \A x \in S : rank[x] \in Nat /\ rank[x] <= N
  BY DEF Ranks
<1>2. 0 \in T
  <2>1. PICK d : d \in D
    OBVIOUS
  <2>2. [x \in S |-> d] \in [S -> D]
    BY <2>1
  <2>3. \A x \in S : ~ (rank[x] < 0)
    BY <1>1
  <2> QED
    BY <2>2, <2>3
<1>3. ASSUME NEW n \in Nat, n \in T
      PROVE  n + 1 \in T
  <2>1. PICK f \in [S -> D] : Solves(f, n)
    BY <1>3
  <2> DEFINE g == [x \in S |-> IF rank[x] = n THEN next[<<x, f>>] ELSE f[x]]
  <2>2. \A x \in S : next[<<x, f>>] \in D
    BY DEF Bodies
  <2>3. g \in [S -> D]
    BY <2>2
  <2>4. \A x \in S : /\ rank[x] = n => g[x] = next[<<x, f>>]
                     /\ rank[x] # n => g[x] = f[x]
    OBVIOUS
  <2> HIDE DEF g
  <2>5. ASSUME NEW x \in S, rank[x] < n + 1
        PROVE  g[x] = next[<<x, g>>]
    <3>1. rank[x] <= n
      BY <1>1, <2>5
    <3>2. \A y \in S : rank[y] < rank[x] => rank[y] # n
      BY <1>1, <3>1
    <3>3. \A y \in S : rank[y] < rank[x] => f[y] = g[y]
      BY <3>2, <2>4
    <3>4. next[<<x, f>>] = next[<<x, g>>]
      BY <2>3, <3>3 DEF Descends
    <3>5. CASE rank[x] = n
      BY <2>4, <3>4, <3>5
    <3>6. CASE rank[x] # n
      <4>1. rank[x] < n
        BY <1>1, <3>1, <3>6
      <4> QED
        BY <2>1, <2>4, <3>4, <3>6, <4>1
    <3> QED
      BY <3>5, <3>6
  <2> QED
    BY <2>3, <2>5
<1> HIDE DEF T
<1>4. N + 1 \in T
  BY <1>2, <1>3, NatSetInduction
<1> USE DEF T
<1>5. PICK f \in [S -> D] : Solves(f, N + 1)
  BY <1>4
<1>6. \A x \in S : rank[x] < N + 1
  BY <1>1
<1> QED
  BY <1>5, <1>6 DEF Solutions

(***************************************************************************)
(* Induction along ranks: a set that has a point as soon as it has those   *)
(* of lower rank has them all.                                             *)
(***************************************************************************)
LEMMA RankedInduction ==
    ASSUME NEW S, NEW N \in Nat, NEW rank \in Ranks(S, N), NEW T,
           \A x \in S : (\A y \in S : rank[y] < rank[x] => y \in T) => x \in T
    PROVE  S \subseteq T
<1> DEFINE U == {n \in Nat : \A x \in S : rank[x] < n => x \in T}
<1>1. \A x \in S : rank[x] \in Nat /\ rank[x] <= N
  BY DEF Ranks
<1>2. 0 \in U
  <2>1. \A x \in S : ~ (rank[x] < 0)
    BY <1>1
  <2> QED
    BY <2>1
<1>3. ASSUME NEW n \in Nat, n \in U
      PROVE  n + 1 \in U
  <2>1. ASSUME NEW x \in S, rank[x] < n + 1 PROVE x \in T
    <3>1. \A y \in S : rank[y] < rank[x] => rank[y] < n
      BY <1>1, <2>1
    <3> QED
      BY <1>3, <3>1
  <2> QED
    BY <2>1
<1> HIDE DEF U
<1>4. N + 1 \in U
  BY <1>2, <1>3, NatSetInduction
<1> USE DEF U
<1>5. \A x \in S : rank[x] < N + 1
  BY <1>1
<1> QED
  BY <1>4, <1>5
==============================================================================
