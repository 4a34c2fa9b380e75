----------------------------- MODULE Recursion -----------------------------
(***************************************************************************)
(* Induction over the naturals for sets instead of predicates, so that a   *)
(* proof by first-order logic can use it, and the values of functions that *)
(* are defined by recursion.                                               *)
(***************************************************************************)
EXTENDS Integers, FiniteSetTheorems, WellFoundedInduction, TLAPS

(* Some element of a nonempty set of naturals is the smallest: the one     *)
(* with the fewest smaller ones.                                           *)
LEMMA LeastNatural ==
  ASSUME NEW S \in SUBSET Nat, S # {}
  PROVE  \E m \in S : \A n \in S : m <= n
<1> DEFINE Smaller(m) == {n \in S : n < m}
           T == {Smaller(m) : m \in S}
<1>1. ASSUME NEW m \in S PROVE Smaller(m) \in FiniteSubsetsOf(S)
  <2>1. IsFiniteSet(0..m)
    BY FS_Interval
  <2>2. ASSUME NEW n \in Smaller(m) PROVE n \in 0..m
    <3>1. n \in Nat /\ m \in Nat /\ n < m
      OBVIOUS
    <3> QED  BY <3>1
  <2>3. Smaller(m) \in SUBSET (0..m) /\ Smaller(m) \in SUBSET S
    BY <2>2
  <2> HIDE DEF Smaller
  <2> QED  BY <2>1, <2>3, FS_Subset DEF FiniteSubsetsOf
<1>2. T \subseteq FiniteSubsetsOf(S) /\ T # {}
  BY <1>1
<1>3. PICK x \in T : \A y \in T : ~ (<<y, x>> \in StrictSubsetOrdering(S))
  BY <1>2, FS_StrictSubsetOrderingWellFounded, WFMin
<1>4. PICK m \in S : x = Smaller(m)
  OBVIOUS
<1>5. ASSUME NEW n \in S, n < m PROVE FALSE
  <2>1. Smaller(n) \in T
    OBVIOUS
  <2>2. Smaller(n) \subseteq Smaller(m) /\ n \in Smaller(m) /\ n \notin Smaller(n)
    <3>1. n \in Nat /\ m \in Nat
      OBVIOUS
    <3>2. ASSUME NEW k \in Smaller(n) PROVE k \in Smaller(m)
      <4>1. k \in S /\ k \in Nat /\ k < n
        OBVIOUS
      <4> QED  BY <1>5, <3>1, <4>1
    <3>3. n \in Smaller(m)
      BY <1>5
    <3>4. n \notin Smaller(n)
      BY <3>1
    <3> HIDE DEF Smaller
    <3> QED  BY <3>2, <3>3, <3>4
  <2>3. <<Smaller(n), x>> \in StrictSubsetOrdering(S)
    <3>1. Smaller(n) \in SUBSET S /\ Smaller(m) \in SUBSET S
      OBVIOUS
    <3>2. Smaller(n) \subseteq Smaller(m) /\ Smaller(n) # Smaller(m)
      BY <2>2
    <3> HIDE DEF Smaller
    <3> QED  BY <1>4, <3>1, <3>2 DEF StrictSubsetOrdering
  <2> QED  BY <1>3, <2>1, <2>3
<1> QED  BY <1>5

(* Induction. *)
LEMMA SetInduction ==
  ASSUME NEW S \in SUBSET Nat, 0 \in S, \A n \in S : n + 1 \in S
  PROVE  S = Nat
<1> DEFINE T == Nat \ S
<1>1. SUFFICES ASSUME T # {} PROVE FALSE
  OBVIOUS
<1>2. PICK m \in T : \A n \in T : m <= n
  BY <1>1, LeastNatural
<1>3. m \in Nat /\ m # 0 /\ m - 1 \in Nat /\ ~(m <= m - 1)
  BY <1>2
<1>4. m - 1 \in S
  BY <1>2, <1>3
<1>5. (m - 1) + 1 \in S /\ (m - 1) + 1 = m
  BY <1>3, <1>4
<1> QED  BY <1>2, <1>5

(* Induction up to N. *)
LEMMA BoundedInduction ==
  ASSUME NEW N \in Nat, NEW S, 0 \in S, \A n \in S : n \in 0..(N - 1) => n + 1 \in S
  PROVE  0..N \subseteq S
<1> DEFINE T == {n \in Nat : n \in 0..N => n \in S}
<1>1. 0 \in T
  OBVIOUS
<1>2. ASSUME NEW n \in T PROVE n + 1 \in T
  <2>1. CASE n \in 0..(N - 1)
    <3>1. n \in 0..N
      BY <2>1
    <3>2. n \in S
      BY <3>1
    <3>3. n + 1 \in S
      BY <2>1, <3>2
    <3> QED  BY <3>3
  <2>2. CASE n \notin 0..(N - 1)
    <3>1. n \in Nat /\ n + 1 \notin 0..N
      BY <2>2
    <3> QED  BY <3>1
  <2> QED  BY <2>1, <2>2
<1>3. T = Nat
  <2>1. T \in SUBSET Nat
    OBVIOUS
  <2> HIDE DEF T
  <2> QED  BY <1>1, <1>2, <2>1, SetInduction
<1> QED  BY <1>3

(* A bounded nonempty set of naturals has a greatest element. *)
LEMMA GreatestUpTo ==
  ASSUME NEW N \in Nat, NEW S \in SUBSET (0..N), S # {}
  PROVE  \E m \in S : \A n \in S : n <= m
<1> DEFINE T == {N - n : n \in S}
<1>1. T \in SUBSET Nat /\ T # {}
  <2>1. ASSUME NEW n \in S PROVE N - n \in Nat
    <3>1. n \in Int /\ 0 <= n /\ n <= N
      OBVIOUS
    <3> QED  BY <3>1
  <2> QED  BY <2>1
<1>2. PICK k \in T : \A l \in T : k <= l
  <2> HIDE DEF T
  <2> QED  BY <1>1, LeastNatural
<1>3. PICK m \in S : k = N - m
  OBVIOUS
<1>4. ASSUME NEW n \in S PROVE n <= m
  <2>1. N - m <= N - n
    BY <1>2, <1>3
  <2>2. m \in Nat /\ n \in Nat
    OBVIOUS
  <2> QED  BY <2>1, <2>2
<1> QED  BY <1>4

(* Recursion: there is a function that begins with t and gets each of its  *)
(* values from the one before by step.                                     *)
LEMMA RecursiveFunction ==
  ASSUME NEW N \in Nat, NEW t \in Nat, NEW step \in [(1..N) \X Nat -> Nat]
  PROVE  \E g \in [0..N -> Nat] : g[0] = t /\ \A n \in 1..N : g[n] = step[<<n, g[n-1]>>]
<1> DEFINE Computes(g, k) == /\ g \in [0..k -> Nat]
                             /\ g[0] = t
                             /\ \A n \in 1..k : g[n] = step[<<n, g[n-1]>>]
           T == {k \in Nat : \E g : Computes(g, k)}
<1>1. 0 \in T
  <2>1. Computes([n \in 0..0 |-> t], 0)
    OBVIOUS
  <2> HIDE DEF Computes
  <2> QED  BY <2>1
<1>2. ASSUME NEW k \in T, k \in 0..(N - 1) PROVE k + 1 \in T
  <2>1. PICK g : Computes(g, k)
    OBVIOUS
  <2>2. k \in Nat /\ k + 1 \in 1..N
    BY <1>2
  <2> DEFINE h == [n \in 0..(k + 1) |-> IF n = k + 1 THEN step[<<k + 1, g[k]>>] ELSE g[n]]
  <2>3. g[k] \in Nat /\ step[<<k + 1, g[k]>>] \in Nat
    BY <2>1, <2>2
  <2>4. /\ h \in [0..(k + 1) -> Nat]
        /\ h[k + 1] = step[<<k + 1, g[k]>>]
        /\ \A n \in 0..k : h[n] = g[n]
    BY <2>1, <2>2, <2>3
  <2> HIDE DEF h
  <2>5. h[0] = t
    BY <2>1, <2>2, <2>4
  <2>6. ASSUME NEW n \in 1..(k + 1) PROVE h[n] = step[<<n, h[n-1]>>]
    <3>1. CASE n = k + 1
      <4>1. n - 1 = k /\ k \in 0..k
        BY <2>2, <3>1
      <4> QED  BY <2>4, <3>1, <4>1
    <3>2. CASE n # k + 1
      <4>1. n \in 1..k /\ n \in 0..k /\ n - 1 \in 0..k
        BY <2>2, <3>2
      <4> QED  BY <2>1, <2>4, <4>1
    <3> QED  BY <3>1, <3>2
  <2>7. Computes(h, k + 1)
    BY <2>4, <2>5, <2>6
  <2> HIDE DEF Computes
  <2> QED  BY <2>2, <2>7
<1>3. N \in T
  <2> HIDE DEF T
  <2>1. 0..N \subseteq T
    BY <1>1, <1>2, BoundedInduction
  <2> QED  BY <2>1
<1> QED  BY <1>3
=============================================================================
