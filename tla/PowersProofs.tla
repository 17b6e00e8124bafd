----------------------------- MODULE PowersProofs -----------------------------
(***************************************************************************)
(* Lemmas about Powers and natural numbers.                                *)
(***************************************************************************)
EXTENDS Powers, WellFoundedInduction, TLAPS

\* A nonempty set of numbers has a least one.
LEMMA LeastNat ==
  ASSUME NEW S \in SUBSET Nat, S # {}
  PROVE  \E m \in S : \A n \in S : m <= n
  <1> DEFINE R == OpToRel(<, Nat)
  <1>1. \A n, m \in Nat : n < m => <<n, m>> \in R
    BY DEF OpToRel
  <1>2. IsWellFoundedOn(R, Nat)
    BY NatLessThanWellFounded
  <1> HIDE DEF R
  <1>3. PICK m \in S : \A n \in S : <<n, m>> \notin R
    BY <1>2, WFMin
  <1>4. m \in Nat /\ S \subseteq Nat
    OBVIOUS
  <1>5. \A n \in S : ~(n < m)
    BY <1>1, <1>3, <1>4
  <1> QED
    BY <1>4, <1>5

\* The same as a form of induction: what holds below a number holds for it.
LEMMA EachNat ==
  ASSUME NEW T \in SUBSET Nat,
         \A n \in Nat : (\A m \in Nat : m < n => m \in T) => n \in T
  PROVE  T = Nat
  <1> SUFFICES ASSUME Nat \ T # {} PROVE FALSE
    OBVIOUS
  <1>1. PICK m \in Nat \ T : \A n \in Nat \ T : m <= n
    BY LeastNat
  <1> QED
    BY <1>1

\* The first n + 1 powers of two.
IsPowers(f, n) ==
    f \in [0..n -> Nat] /\ f[0] = 1 /\ \A k \in 1..n : f[k] = 2 * f[k - 1]

LEMMA PowersAgree ==
  ASSUME NEW m \in Nat, NEW n \in Nat, m <= n, NEW f, IsPowers(f, m), NEW g, IsPowers(g, n)
  PROVE  \A k \in 0..m : f[k] = g[k]
  <1> DEFINE T == {k \in Nat : k <= m => f[k] = g[k]}
  <1>1. ASSUME NEW k \in Nat, \A j \in Nat : j < k => j \in T PROVE k \in T
    <2>1. CASE k = 0
      BY <2>1 DEF IsPowers
    <2>2. CASE k # 0 /\ k <= m
      <3>1. k - 1 \in T /\ k - 1 \in Nat /\ k \in 1..m /\ k \in 1..n /\ k - 1 <= m
        BY <1>1, <2>2
      <3> QED
        BY <3>1 DEF IsPowers
    <2> QED
      BY <2>1, <2>2
  <1> HIDE DEF T
  <1>2. T \in SUBSET Nat
    BY DEF T
  <1>3. T = Nat
    BY <1>1, <1>2, EachNat
  <1> QED
    BY <1>3 DEF T

LEMMA PowersExist ==
  ASSUME NEW n \in Nat
  PROVE  \E f : IsPowers(f, n)
  <1> DEFINE T == {k \in Nat : \E f : IsPowers(f, k)}
  <1>1. ASSUME NEW k \in Nat, \A j \in Nat : j < k => j \in T PROVE k \in T
    <2>1. CASE k = 0
      <3>1. IsPowers([j \in 0..0 |-> 1], 0)
        BY DEF IsPowers
      <3> QED
        BY <2>1, <3>1
    <2>2. CASE k # 0
      <3>1. PICK f : IsPowers(f, k - 1)
        BY <1>1, <2>2
      <3> DEFINE g == [j \in 0..k |-> IF j = k THEN 2 * f[k - 1] ELSE f[j]]
      <3>2. IsPowers(g, k)
        BY <2>2, <3>1 DEF IsPowers
      <3> QED
        BY <3>2
    <2> QED
      BY <2>1, <2>2
  <1> HIDE DEF T
  <1>2. T \in SUBSET Nat
    BY DEF T
  <1>3. T = Nat
    BY <1>1, <1>2, EachNat
  <1> QED
    BY <1>3 DEF T

\* The recursive function has the values its definition says.
LEMMA TwoToDef ==
  /\ TwoTo \in [Nat -> Nat]
  /\ TwoTo[0] = 1
  /\ \A k \in Nat : TwoTo[k + 1] = 2 * TwoTo[k]
  <1> DEFINE Some(n) == CHOOSE f : IsPowers(f, n)
             F == [n \in Nat |-> Some(n)[n]]
  <1>1. \A n \in Nat : IsPowers(Some(n), n)
    BY PowersExist
  <1> HIDE DEF Some
  <1>2. \A n \in Nat : F[n] \in Nat
    BY <1>1 DEF IsPowers
  <1>3. F[0] = 1
    BY <1>1 DEF IsPowers
  <1>4. ASSUME NEW n \in Nat PROVE F[n + 1] = 2 * F[n]
    <2>1. IsPowers(Some(n), n) /\ IsPowers(Some(n + 1), n + 1)
      BY <1>1
    <2>2. Some(n)[n] = Some(n + 1)[n]
      BY <2>1, PowersAgree
    <2>3. Some(n + 1)[n + 1] = 2 * Some(n + 1)[n]
      BY <2>1 DEF IsPowers
    <2> QED
      BY <2>2, <2>3
  <1> HIDE DEF F
  <1>5. \A n \in Nat \ {0} : F[n] = 2 * F[n - 1]
    BY <1>4
  <1>6. F = [k \in Nat |-> IF k = 0 THEN 1 ELSE 2 * F[k - 1]]
    BY <1>3, <1>5 DEF F
  <1>7. TwoTo = [k \in Nat |-> IF k = 0 THEN 1 ELSE 2 * TwoTo[k - 1]]
    BY <1>6 DEF TwoTo
  <1>8. TwoTo[0] = 1 /\ \A k \in Nat : TwoTo[k + 1] = 2 * TwoTo[k]
    <2> DEFINE G(f) == [k \in Nat |-> IF k = 0 THEN 1 ELSE 2 * f[k - 1]]
    <2>1. \A f : G(f)[0] = 1 /\ \A k \in Nat : G(f)[k + 1] = 2 * f[k]
      OBVIOUS
    <2>2. TwoTo = G(TwoTo)
      BY <1>7
    <2> HIDE DEF G
    <2> QED
      BY <2>1, <2>2
  <1> DEFINE T == {k \in Nat : TwoTo[k] \in Nat}
  <1>9. T = Nat
    <2>1. ASSUME NEW k \in Nat, \A j \in Nat : j < k => j \in T PROVE k \in T
      <3>1. CASE k = 0
        BY <3>1, <1>8
      <3>2. CASE k # 0
        <4>1. k - 1 \in Nat /\ k - 1 \in T
          BY <2>1, <3>2
        <4> QED
          BY <4>1, <1>8
      <3> QED
        BY <3>1, <3>2
    <2> HIDE DEF T
    <2>2. T \in SUBSET Nat
      BY DEF T
    <2> QED
      BY <2>1, <2>2, EachNat
  <1>10. \A k \in Nat : TwoTo[k] \in Nat
    BY <1>9
  <1> HIDE DEF T
  <1>11. TwoTo \in [Nat -> Nat]
    BY <1>7, <1>10
  <1> QED
    BY <1>8, <1>11

LEMMA TwoToGrows == \A k \in Nat : k < TwoTo[k]
  <1> DEFINE T == {k \in Nat : k < TwoTo[k]}
  <1>1. ASSUME NEW k \in Nat, \A j \in Nat : j < k => j \in T PROVE k \in T
    <2>1. CASE k = 0
      BY <2>1, TwoToDef
    <2>2. CASE k # 0
      <3>1. k - 1 \in Nat /\ k - 1 \in T
        BY <1>1, <2>2
      <3>2. TwoTo[k] = 2 * TwoTo[k - 1] /\ TwoTo[k - 1] \in Nat /\ TwoTo[k] \in Nat
        BY <2>2, <3>1, TwoToDef
      <3> QED
        BY <3>1, <3>2
    <2> QED
      BY <2>1, <2>2
  <1> HIDE DEF T
  <1>2. T \in SUBSET Nat
    BY DEF T
  <1>3. T = Nat
    BY <1>1, <1>2, EachNat
  <1> QED
    BY <1>3 DEF T

\* Doubling reaches what is needed, and does not go on behind it.
LEMMA DoublingsReach ==
  ASSUME NEW size \in Nat \ {0}, NEW need \in Nat
  PROVE  LET k == Doublings(size, need)
         IN  /\ k \in Nat
             /\ need <= size * TwoTo[k]
             /\ \A m \in Nat : m < k => size * TwoTo[m] < need
             /\ size * TwoTo[k] \in Nat \ {0}
  <1> DEFINE S == {k \in Nat : need <= size * TwoTo[k]}
             P(k) == need <= size * TwoTo[k] /\ \A m \in 0..(k - 1) : size * TwoTo[m] < need
  <1>1. \A k \in Nat : size * TwoTo[k] \in Nat /\ k < size * TwoTo[k]
    <2> SUFFICES ASSUME NEW k \in Nat PROVE size * TwoTo[k] \in Nat /\ k < size * TwoTo[k]
      OBVIOUS
    <2>1. TwoTo[k] \in Nat /\ k < TwoTo[k]
      BY TwoToDef, TwoToGrows
    <2>2. \A t \in Nat : size * t \in Nat /\ t <= size * t
      OBVIOUS
    <2> QED
      BY <2>1, <2>2
  <1>2. need \in S
    BY <1>1
  <1>3. PICK k \in S : \A n \in S : k <= n
    BY <1>2, LeastNat
  <1>4. k \in 0..need /\ P(k)
    BY <1>1, <1>2, <1>3
  <1>5. Doublings(size, need) \in 0..need /\ P(Doublings(size, need))
    BY <1>4 DEF Doublings
  <1> QED
    BY <1>1, <1>5
==============================================================================
