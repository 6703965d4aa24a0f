----------------------------- MODULE Sums_proofs -----------------------------
(***************************************************************************)
(* Induction over the naturals in the form of a set, and what it says of   *)
(* the sums of module Sums.                                                *)
(***************************************************************************)
EXTENDS Sums, WellFoundedInduction, TLAPS

(* A set of naturals has a least member. *)
LEMMA LeastMember ==
    ASSUME NEW T \in SUBSET Nat, T # {}
    PROVE  \E n \in T : \A m \in T : n <= m
  <1> DEFINE R == {ss \in Nat \X Nat : ss[1] < ss[2]}
  <1>1. IsWellFoundedOn(R, Nat)
    BY NatLessThanWellFounded DEF OpToRel
  <1>2. PICK n \in T : \A m \in T : ~ (<<m, n>> \in R)
    <2> HIDE DEF R
    <2> QED
      BY <1>1, WFMin
  <1>3. ASSUME NEW m \in T, m < n PROVE <<m, n>> \in R
    <2> DEFINE p == <<m, n>>
    <2>1. p \in Nat \X Nat /\ p[1] = m /\ p[2] = n
      OBVIOUS
    <2> HIDE DEF p
    <2>2. p \in R
      BY <1>3, <2>1
    <2> QED
      BY <2>2 DEF p
  <1>4. \A m \in T : ~ (m < n)
    BY <1>2, <1>3
  <1> QED
    BY <1>4

(* A set that holds 0, and n + 1 with n, holds every natural. *)
LEMMA Induction ==
    ASSUME NEW S, 0 \in S, \A n \in Nat : n \in S => n + 1 \in S
    PROVE  \A n \in Nat : n \in S
  <1> SUFFICES ASSUME Nat \ S # {} PROVE FALSE
    OBVIOUS
  <1>1. PICK n \in Nat \ S : \A m \in Nat \ S : n <= m
    BY LeastMember
  <1>2. n # 0 /\ n - 1 \in Nat
    BY <1>1
  <1>3. n - 1 \in S
    BY <1>1, <1>2
  <1> QED
    BY <1>1, <1>2, <1>3

(* A set of numbers up to n has a greatest member. *)
LEMMA GreatestMember ==
    ASSUME NEW n \in Nat, NEW T \in SUBSET (0 .. n), T # {}
    PROVE  \E m \in T : \A k \in T : k <= m
  <1> DEFINE U == {n - k : k \in T}
  <1>0. \A k \in T : n - k \in Nat
    OBVIOUS
  <1>1. U \in SUBSET Nat /\ U # {}
    BY <1>0
  <1>2. PICK u \in U : \A v \in U : u <= v
    <2> HIDE DEF U
    <2> QED
      BY <1>1, LeastMember
  <1>3. PICK m \in T : u = n - m
    BY <1>2
  <1>4. ASSUME NEW k \in T PROVE k <= m
    <2>1. n - k \in U
      OBVIOUS
    <2>2. u <= n - k
      BY <1>2, <2>1
    <2> QED
      BY <1>3, <2>2
  <1> QED
    BY <1>4

-----------------------------------------------------------------------------
(* The recursive definition of Sum defines a function. *)

Adds(f, w, n) == f = [i \in 0 .. n |-> IF i = 0 THEN 0 ELSE f[i - 1] + w[i]]

LEMMA SumExists ==
    ASSUME NEW w \in Seq(Int)
    PROVE  \E f : Adds(f, w, Len(w))
  <1> DEFINE S == {n \in Nat : n <= Len(w) => \E f \in [0 .. n -> Int] : Adds(f, w, n)}
  <1>1. 0 \in S
    <2> DEFINE f == [i \in 0 .. 0 |-> 0]
    <2>1. f \in [0 .. 0 -> Int] /\ Adds(f, w, 0)
      BY DEF Adds
    <2> QED
      BY <2>1
  <1>2. ASSUME NEW n \in Nat, n \in S PROVE n + 1 \in S
    <2> SUFFICES ASSUME n + 1 <= Len(w)
                 PROVE  \E g \in [0 .. n + 1 -> Int] : Adds(g, w, n + 1)
      OBVIOUS
    <2>1. PICK f \in [0 .. n -> Int] : Adds(f, w, n)
      BY <1>2
    <2> DEFINE g == [i \in 0 .. n + 1 |-> IF i = n + 1 THEN f[n] + w[n + 1] ELSE f[i]]
    <2>2. g \in [0 .. n + 1 -> Int]
      BY <2>1
    <2>3. ASSUME NEW i \in 0 .. n + 1
          PROVE  g[i] = IF i = 0 THEN 0 ELSE g[i - 1] + w[i]
      <3>1. CASE i = n + 1
        BY <3>1
      <3>2. CASE i \in 0 .. n
        BY <2>1, <3>2 DEF Adds
      <3> QED
        BY <3>1, <3>2
    <2>4. Adds(g, w, n + 1)
      BY <2>2, <2>3 DEF Adds
    <2> QED
      BY <2>2, <2>4
  <1> HIDE DEF S
  <1>3. Len(w) \in S
    BY <1>1, <1>2, Induction
  <1> QED
    BY <1>3 DEF S

(* The first n members, and one more. *)
LEMMA SumDef ==
    ASSUME NEW w \in Seq(Int)
    PROVE  /\ Sum(w)[0] = 0
           /\ \A n \in 1 .. Len(w) : Sum(w)[n] = Sum(w)[n - 1] + w[n]
  <1>1. Adds(Sum(w), w, Len(w))
    BY SumExists DEF Sum, Adds
  <1> HIDE DEF Adds
  <1> DEFINE s == Sum(w)
  <1>2. Adds(s, w, Len(w))
    BY <1>1
  <1> HIDE DEF s
  <1>3. \A i \in 0 .. Len(w) : s[i] = IF i = 0 THEN 0 ELSE s[i - 1] + w[i]
    BY <1>2, Zenon DEF Adds
  <1> QED
    BY <1>3 DEF s

LEMMA SumType ==
    ASSUME NEW w \in Seq(Nat)
    PROVE  \A n \in 0 .. Len(w) : Sum(w)[n] \in Nat
  <1> DEFINE S == {n \in Nat : n <= Len(w) => Sum(w)[n] \in Nat}
  <1>0. w \in Seq(Int)
    OBVIOUS
  <1>1. 0 \in S
    BY <1>0, SumDef
  <1>2. ASSUME NEW n \in Nat, n \in S PROVE n + 1 \in S
    <2> SUFFICES ASSUME n + 1 <= Len(w) PROVE Sum(w)[n + 1] \in Nat
      OBVIOUS
    <2>1. Sum(w)[n + 1] = Sum(w)[n] + w[n + 1]
      BY <1>0, SumDef
    <2> QED
      BY <1>2, <2>1
  <1>3. \A n \in Nat : n \in S
    <2> HIDE DEF S
    <2> QED
      BY <1>1, <1>2, Induction
  <1> QED
    BY <1>3

(* Sums of naturals grow. *)
LEMMA SumGrows ==
    ASSUME NEW w \in Seq(Nat), NEW m \in 0 .. Len(w), NEW n \in m .. Len(w)
    PROVE  Sum(w)[m] <= Sum(w)[n]
  <1> DEFINE S == {k \in Nat : m + k <= Len(w) => Sum(w)[m] <= Sum(w)[m + k]}
  <1>0. w \in Seq(Int) /\ \A k \in 0 .. Len(w) : Sum(w)[k] \in Nat
    BY SumType
  <1>1. 0 \in S
    BY <1>0
  <1>2. ASSUME NEW k \in Nat, k \in S PROVE k + 1 \in S
    <2> SUFFICES ASSUME m + k + 1 <= Len(w) PROVE Sum(w)[m] <= Sum(w)[m + k + 1]
      OBVIOUS
    <2>1. Sum(w)[m + k + 1] = Sum(w)[m + k] + w[m + k + 1] /\ w[m + k + 1] \in Nat
      BY <1>0, SumDef
    <2> QED
      BY <1>0, <1>2, <2>1
  <1>3. \A k \in Nat : k \in S
    <2> HIDE DEF S
    <2> QED
      BY <1>1, <1>2, Induction
  <1>4. n - m \in Nat /\ m + (n - m) = n
    OBVIOUS
  <1>5. n - m \in S
    <2> HIDE DEF S
    <2> QED
      BY <1>3, <1>4
  <1> QED
    BY <1>4, <1>5

(* The sum of the first n members depends on nothing else. *)
LEMMA SumPrefix ==
    ASSUME NEW v \in Seq(Int), NEW w \in Seq(Int), NEW n \in Nat,
           n <= Len(v), n <= Len(w), \A i \in 1 .. n : v[i] = w[i]
    PROVE  Sum(v)[n] = Sum(w)[n]
  <1> DEFINE S == {k \in Nat : k <= n => Sum(v)[k] = Sum(w)[k]}
  <1>1. 0 \in S
    BY SumDef
  <1>2. ASSUME NEW k \in Nat, k \in S PROVE k + 1 \in S
    <2> SUFFICES ASSUME k + 1 <= n PROVE Sum(v)[k + 1] = Sum(w)[k + 1]
      OBVIOUS
    <2>1. Sum(v)[k + 1] = Sum(v)[k] + v[k + 1] /\ Sum(w)[k + 1] = Sum(w)[k] + w[k + 1]
      BY SumDef
    <2> QED
      BY <1>2, <2>1
  <1>3. n \in S
    <2> HIDE DEF S
    <2> QED
      BY <1>1, <1>2, Induction
  <1> QED
    BY <1>3

(* One member more. *)
LEMMA SumMore ==
    ASSUME NEW v \in Seq(Nat), NEW w \in Seq(Nat),
           Len(v) = Len(w) + 1, \A i \in 1 .. Len(w) : v[i] = w[i]
    PROVE  /\ \A n \in 0 .. Len(w) : Sum(v)[n] = Sum(w)[n]
           /\ Sum(v)[Len(v)] = Sum(w)[Len(w)] + v[Len(v)]
  <1>1. v \in Seq(Int) /\ w \in Seq(Int)
    OBVIOUS
  <1>2. ASSUME NEW n \in 0 .. Len(w) PROVE Sum(v)[n] = Sum(w)[n]
    <2>1. n \in Nat /\ n <= Len(v) /\ n <= Len(w)
      BY <1>1
    <2>2. \A i \in 1 .. n : i \in 1 .. Len(w)
      BY <2>1
    <2> QED
      BY <1>1, <2>1, <2>2, SumPrefix
  <1>3. Sum(v)[Len(v)] = Sum(v)[Len(v) - 1] + v[Len(v)]
    <2>1. Len(v) \in 1 .. Len(v)
      OBVIOUS
    <2> QED
      BY <1>1, <2>1, SumDef
  <1>4. Len(v) - 1 = Len(w) /\ Len(w) \in 0 .. Len(w)
    OBVIOUS
  <1> QED
    BY <1>2, <1>3, <1>4
=============================================================================
