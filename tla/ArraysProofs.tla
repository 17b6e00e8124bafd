----------------------------- MODULE ArraysProofs ----------------------------
(***************************************************************************)
(* Proofs about Arrays for any elements, their size, any width of a number *)
(* and any number of calls.                                                *)
(***************************************************************************)
EXTENDS Arrays, PowersProofs, SequenceTheorems, FiniteSetTheorems

-----------------------------------------------------------------------------
(* The greatest and the least of a set.                                    *)

\* The greater of two numbers.
LEMMA MaxOfTwo ==
  ASSUME NEW m \in Int, NEW n \in Int
  PROVE  Max({m, n}) = IF m < n THEN n ELSE m
  <1> DEFINE x == IF m < n THEN n ELSE m
  <1>1. x \in {m, n} /\ \A y \in {m, n} : x >= y
    OBVIOUS
  <1>2. \A z \in {m, n} : (\A y \in {m, n} : z >= y) => z = x
    OBVIOUS
  <1> HIDE DEF x
  <1>3. Max({m, n}) = x
    BY <1>1, <1>2 DEF Max
  <1> QED
    BY <1>3 DEF x

\* The smaller of two numbers.
LEMMA MinOfTwo ==
  ASSUME NEW m \in Int, NEW n \in Int
  PROVE  Min({m, n}) = IF m < n THEN m ELSE n
  <1> DEFINE x == IF m < n THEN m ELSE n
  <1>1. x \in {m, n} /\ \A y \in {m, n} : x <= y
    OBVIOUS
  <1>2. \A z \in {m, n} : (\A y \in {m, n} : z <= y) => z = x
    OBVIOUS
  <1> HIDE DEF x
  <1>3. Min({m, n}) = x
    BY <1>1, <1>2 DEF Min
  <1> QED
    BY <1>3 DEF x

\* Min is the least element of a set of numbers.
LEMMA LeastOf ==
  ASSUME NEW S \in SUBSET Nat, S # {}
  PROVE  Min(S) \in S /\ \A k \in S : Min(S) <= k
  BY LeastNat DEF Min

\* Max is the greatest element of a set of numbers below another.
LEMMA GreatestOf ==
  ASSUME NEW n \in Int, NEW S \in SUBSET (0..n), S # {}
  PROVE  Max(S) \in S /\ \A k \in S : k <= Max(S)
  <1> DEFINE T == {n - k : k \in S}
  <1>1. \A k \in S : k \in Int /\ n - k \in Nat /\ n - (n - k) = k
    OBVIOUS
  <1>5. T \in SUBSET Nat /\ T # {}
    BY <1>1
  <1>2. PICK t \in T : \A m \in T : t <= m
    BY <1>5, LeastNat
  <1>4. PICK g \in S : t = n - g
    BY <1>2
  <1>3. \A k \in S : g >= k
    <2> SUFFICES ASSUME NEW k \in S PROVE g >= k
      OBVIOUS
    <2>1. t <= n - k
      BY <1>2
    <2> QED
      BY <1>1, <1>4, <2>1
  <1> HIDE DEF T
  <1> QED
    BY <1>3 DEF Max

-----------------------------------------------------------------------------
(* Blocks.                                                                 *)

\* The least power of two that is enough.
LEMMA NextPow2Is ==
  ASSUME NEW n \in Nat, n <= MaxElems
  PROVE  NextPow2(n) \in Nat /\ n <= NextPow2(n) /\ (n > 0 => NextPow2(n) < 2 * n) /\ (n = 0 => NextPow2(n) = 0)
  <1>1. CASE n = 0
    BY <1>1 DEF NextPow2
  <1>2. CASE n # 0
    <2> DEFINE k == Doublings(1, n)
    <2>1. /\ k \in Nat /\ n <= 1 * TwoTo[k] /\ \A m \in Nat : m < k => 1 * TwoTo[m] < n
      BY DoublingsReach
    <2> HIDE DEF k
    <2>2. TwoTo[k] \in Nat /\ n <= TwoTo[k] /\ (k > 0 => TwoTo[k - 1] \in Nat /\ TwoTo[k - 1] < n)
      BY <2>1, TwoToDef
    <2>3. TwoTo[k] < 2 * n
      <3>1. CASE k = 0
        BY <1>2, <3>1, TwoToDef
      <3>2. CASE k # 0
        <4>1. k - 1 \in Nat /\ (k - 1) + 1 = k
          BY <2>1, <3>2
        <4>2. TwoTo[k] = 2 * TwoTo[k - 1]
          BY <4>1, TwoToDef
        <4> QED
          BY <2>1, <2>2, <3>2, <4>2
      <3> QED
        BY <3>1, <3>2
    <2>4. n <= TwoTo[Width - 1]
      <3>1. Width - 1 \in Nat /\ (Width - 1) + 1 = Width
        BY ArrayAssumption
      <3>2. TwoTo[Width] = 2 * TwoTo[Width - 1] /\ TwoTo[Width - 1] \in Nat
        BY <3>1, TwoToDef
      <3>3. MaxElems \in Nat /\ MaxElems <= MaxElems * ElemSize /\ 2 * MaxElems * ElemSize = 2 * (MaxElems * ElemSize)
            /\ MaxElems * ElemSize \in Nat
        BY ArrayAssumption
      <3>4. 2 * MaxElems * ElemSize <= TwoTo[Width]
        BY ArrayAssumption
      <3> QED
        BY <3>2, <3>3, <3>4
    <2>5. NextPow2(n) = TwoTo[k]
      <3>1. TwoTo[Width - 1] \in Nat
        <4>1. Width - 1 \in Nat
          BY ArrayAssumption
        <4> QED
          BY <4>1, TwoToDef
      <3>2. ~(n = 0 \/ n > TwoTo[Width - 1])
        BY <1>2, <2>4, <3>1
      <3> QED
        BY <3>2 DEF NextPow2, k
    <2> QED
      BY <1>2, <2>2, <2>3, <2>5
  <1> QED
    BY <1>1, <1>2

\* The block for n elements has room for them, is not twice too large, and has a size in bytes that does not overflow.
LEMMA NeededIs ==
  ASSUME NEW n \in Nat, n <= MaxElems
  PROVE  /\ Needed(n) \in Nat /\ n <= Needed(n) /\ MinAllocs <= Needed(n)
         /\ Needed(n) = MinAllocs \/ Needed(n) < 2 * n
         /\ Needed(n) * ElemSize \in Nat /\ Needed(n) * ElemSize < TwoTo[Width]
  <1> DEFINE p == NextPow2(n)
             a == Needed(n)
  <1>1. p \in Nat /\ n <= p /\ (n > 0 => p < 2 * n) /\ (n = 0 => p = 0)
    BY NextPow2Is
  <1>2. MinAllocs \in Nat /\ MinAllocs > 0 /\ TwoTo[Width] \in Nat
    BY ArrayAssumption, TwoToDef DEF MinAllocs
  <1> HIDE DEF p
  <1>3. a = IF p < MinAllocs THEN MinAllocs ELSE p
    BY <1>1, <1>2, MaxOfTwo DEF Needed, p
  <1> HIDE DEF a
  <1>4. a \in Nat /\ n <= a /\ MinAllocs <= a /\ (a = MinAllocs \/ a < 2 * n)
    BY <1>1, <1>2, <1>3
  <1>5. a * ElemSize \in Nat /\ a * ElemSize < TwoTo[Width]
    <2>1. CASE a = MinAllocs
      <3>1. MinAllocs * ElemSize < TwoTo[Width] /\ MinAllocs * ElemSize \in Nat
        BY <1>2, ArrayAssumption
      <3> QED
        BY <2>1, <3>1
    <2>2. CASE a < 2 * n
      <3>1. ElemSize \in Nat /\ ElemSize > 0 /\ MaxElems \in Nat /\ 2 * MaxElems * ElemSize <= TwoTo[Width]
        BY ArrayAssumption
      <3> DEFINE m == 2 * MaxElems
      <3>2. m \in Nat /\ a < m /\ m * ElemSize <= TwoTo[Width]
        BY <1>4, <2>2, <3>1
      <3> HIDE DEF m
      <3>3. a * ElemSize < m * ElemSize /\ a * ElemSize \in Nat /\ m * ElemSize \in Nat
        BY <1>4, <3>1, <3>2
      <3> QED
        BY <1>2, <3>2, <3>3
    <2> QED
      BY <1>4, <2>1, <2>2
  <1> QED
    BY <1>4, <1>5 DEF a

\* A block whose bytes do not overflow has the elements it is allocated for.
LEMMA NewBlockIs ==
  ASSUME NEW n \in Nat, n * ElemSize \in Nat, n * ElemSize < TwoTo[Width], NEW old
  PROVE  NewBlock(n, old) = [k \in 0..(n - 1) |-> IF k \in DOMAIN old THEN old[k] ELSE Junk]
  <1>1. TwoTo[Width] \in Nat /\ ElemSize \in Nat /\ ElemSize > 0
    BY ArrayAssumption, TwoToDef
  <1>2. (n * ElemSize) % TwoTo[Width] = n * ElemSize
    BY <1>1
  <1>3. (n * ElemSize) \div ElemSize = n
    BY <1>1
  <1> QED
    BY <1>2, <1>3 DEF NewBlock

Block(c, n) == c \in [0..(n - 1) -> Int]

\* It begins with the elements of the old one.
LEMMA NewBlockKeeps ==
  ASSUME NEW n \in Nat, n * ElemSize \in Nat, n * ElemSize < TwoTo[Width], NEW m \in Nat, NEW old, Block(old, m)
  PROVE  /\ Block(NewBlock(n, old), n)
         /\ \A k \in 0..(n - 1) : k < m => NewBlock(n, old)[k] = old[k]
  <1>1. NewBlock(n, old) = [k \in 0..(n - 1) |-> IF k \in DOMAIN old THEN old[k] ELSE Junk]
    BY NewBlockIs
  <1> QED
    BY <1>1 DEF Block, Junk

\* Block d is c with the elements of s from an index on, and s what c has from there on.
WithStored(d, c, n, at, s) ==
    /\ Block(d, n)
    /\ \A k \in 0..(n - 1) : d[k] = IF at <= k /\ k < at + Len(s) THEN s[k - at + 1] ELSE c[k]
IsTaken(s, c, m, at, n) ==
    /\ s \in Seq(Int) /\ Len(s) = n
    /\ \A k \in 1..n : at + k <= m => s[k] = c[at + k - 1]

\* What a block holds after elements were stored in it.
LEMMA StoredIs ==
  ASSUME NEW n \in Nat, NEW c, Block(c, n), NEW at \in Nat, NEW s \in Seq(Int)
  PROVE  WithStored(Stored(c, at, s), c, n, at, s)
  <1>1. Len(s) \in Nat
    BY LenProperties
  <1>2. \A k \in 0..(n - 1) : k \in at..(at + Len(s) - 1) <=> at <= k /\ k < at + Len(s)
    BY <1>1
  <1>3. ASSUME NEW k \in 0..(n - 1), at <= k /\ k < at + Len(s) PROVE s[k - at + 1] \in Int
    <2>1. k - at + 1 \in 1..Len(s)
      BY <1>1, <1>3
    <2> QED
      BY <2>1, ElementOfSeq
  <1> QED
    BY <1>2, <1>3 DEF Stored, Block, WithStored

\* A function on 1..n is a sequence.
LEMMA CellsSeq ==
  ASSUME NEW n \in Nat, NEW f \in [1..n -> Int]
  PROVE  f \in Seq(Int) /\ Len(f) = n
  <1>1. f \in Seq(Int)
    BY SeqDef
  <1> QED
    BY <1>1, LenProperties

\* The elements that are taken out of a block.
LEMMA TakenIs ==
  ASSUME NEW m \in Nat, NEW c, Block(c, m), NEW at \in Nat, NEW n \in Nat
  PROVE  IsTaken(Taken(c, at, n), c, m, at, n)
  <1>1. Taken(c, at, n) \in [1..n -> Int]
    BY DEF Taken, Block, Junk
  <1>2. \A k \in 1..n : at + k <= m => Taken(c, at, n)[k] = c[at + k - 1]
    BY DEF Taken, Block
  <1> QED
    BY <1>1, <1>2, CellsSeq DEF IsTaken

-----------------------------------------------------------------------------
(* Arrangements.                                                           *)

\* A permutation of the first n indices moves the elements of a to b, all between lo and hi.
Moves(q, a, b, lo, hi, n) ==
    /\ q \in [0..(n - 1) -> 0..(n - 1)]
    /\ \A j, k \in 0..(n - 1) : q[j] = q[k] => j = k
    /\ \A k \in 0..(n - 1) : \E j \in 0..(n - 1) : q[j] = k
    /\ \A k \in 0..(n - 1) : a[k] = b[q[k]]
    /\ \A k \in 0..(n - 1) : IF lo <= k /\ k <= hi THEN lo <= q[k] /\ q[k] <= hi ELSE q[k] = k
Shuffled(a, b, lo, hi, n) == \E q : Moves(q, a, b, lo, hi, n)

\* A block is a shuffle of itself.
LEMMA ShuffledSelf ==
  ASSUME NEW a, NEW lo \in Int, NEW hi \in Int, NEW n \in Nat
  PROVE  Shuffled(a, a, lo, hi, n)
  <1> DEFINE q == [k \in 0..(n - 1) |-> k]
  <1>1. Moves(q, a, a, lo, hi, n)
    BY DEF Moves
  <1> QED
    BY <1>1 DEF Shuffled

\* Two shuffles are one.
LEMMA ShuffledTwice ==
  ASSUME NEW a, NEW b, NEW c, NEW lo \in Int, NEW hi \in Int, NEW n \in Nat,
         Shuffled(a, b, lo, hi, n), Shuffled(b, c, lo, hi, n)
  PROVE  Shuffled(a, c, lo, hi, n)
  <1>1. PICK p : Moves(p, a, b, lo, hi, n)
    BY DEF Shuffled
  <1>2. PICK q : Moves(q, b, c, lo, hi, n)
    BY DEF Shuffled
  <1> DEFINE I == 0..(n - 1)
             r == [k \in I |-> q[p[k]]]
  <1>3. p \in [I -> I] /\ q \in [I -> I] /\ r \in [I -> I] /\ \A k \in I : r[k] = q[p[k]] /\ k \in Int
    <2>1. p \in [I -> I]
      BY <1>1 DEF Moves
    <2>2. q \in [I -> I]
      BY <1>2 DEF Moves
    <2>3. \A k \in I : k \in Int
      OBVIOUS
    <2> HIDE DEF I
    <2> QED
      BY <2>1, <2>2, <2>3
  <1>4. \A j, k \in I : r[j] = r[k] => j = k
    <2>1. /\ \A j, k \in I : p[j] = p[k] => j = k
          /\ \A j, k \in I : q[j] = q[k] => j = k
      BY <1>1, <1>2 DEF Moves
    <2> HIDE DEF I, r
    <2> QED
      BY <1>3, <2>1
  <1>5. \A k \in I : \E j \in I : r[j] = k
    <2>1. /\ \A k \in I : \E j \in I : p[j] = k
          /\ \A k \in I : \E j \in I : q[j] = k
      BY <1>1, <1>2 DEF Moves
    <2> HIDE DEF I, r
    <2> SUFFICES ASSUME NEW k \in I PROVE \E j \in I : r[j] = k
      OBVIOUS
    <2>2. PICK m \in I : q[m] = k
      BY <2>1
    <2>3. PICK j \in I : p[j] = m
      BY <2>1
    <2> QED
      BY <1>3, <2>2, <2>3
  <1>6. \A k \in I : a[k] = c[r[k]]
    <2>1. /\ \A k \in I : a[k] = b[p[k]]
          /\ \A k \in I : b[k] = c[q[k]]
      BY <1>1, <1>2 DEF Moves
    <2> HIDE DEF I, r
    <2> QED
      BY <1>3, <2>1
  <1>7. \A k \in I : IF lo <= k /\ k <= hi THEN lo <= r[k] /\ r[k] <= hi ELSE r[k] = k
    <2>1. /\ \A k \in I : IF lo <= k /\ k <= hi THEN lo <= p[k] /\ p[k] <= hi ELSE p[k] = k
          /\ \A k \in I : IF lo <= k /\ k <= hi THEN lo <= q[k] /\ q[k] <= hi ELSE q[k] = k
      BY <1>1, <1>2 DEF Moves
    <2> HIDE DEF I, r
    <2> QED
      BY <1>3, <2>1
  <1>8. Moves(r, a, c, lo, hi, n)
    <2> HIDE DEF r
    <2> QED
      BY <1>3, <1>4, <1>5, <1>6, <1>7 DEF Moves
  <1> QED
    BY <1>8 DEF Shuffled

\* Two elements change places.
LEMMA SwapShuffles ==
  ASSUME NEW size \in Nat, NEW a, Block(a, size), NEW n \in Nat, n <= size, NEW lo \in Nat, NEW hi \in Int, hi < n,
         NEW i \in Nat, NEW j \in Nat, lo <= i, i <= hi, lo <= j, j <= hi
  PROVE  /\ Block(Swapped(a, i, j), size) /\ Shuffled(a, Swapped(a, i, j), lo, hi, n)
         /\ Swapped(a, i, j)[i] = a[j] /\ Swapped(a, i, j)[j] = a[i]
         /\ \A k \in 0..(size - 1) : k # i /\ k # j => Swapped(a, i, j)[k] = a[k]
  <1> DEFINE b == Swapped(a, i, j)
             q == [k \in 0..(n - 1) |-> IF k = i THEN j ELSE IF k = j THEN i ELSE k]
  <1>1. i \in 0..(size - 1) /\ j \in 0..(size - 1) /\ i \in 0..(n - 1) /\ j \in 0..(n - 1)
    OBVIOUS
  <1>2. /\ Block(b, size) /\ b[i] = a[j] /\ b[j] = a[i]
        /\ \A k \in 0..(size - 1) : k # i /\ k # j => b[k] = a[k]
    BY <1>1 DEF Swapped, Block
  <1> HIDE DEF b
  <1>3. /\ q \in [0..(n - 1) -> 0..(n - 1)]
        /\ \A k \in 0..(n - 1) : q[k] = IF k = i THEN j ELSE IF k = j THEN i ELSE k
    BY <1>1
  <1> HIDE DEF q
  <1>4. \A k \in 0..(n - 1) : \E m \in 0..(n - 1) : q[m] = k
    <2> SUFFICES ASSUME NEW k \in 0..(n - 1) PROVE \E m \in 0..(n - 1) : q[m] = k
      OBVIOUS
    <2>1. q[i] = j /\ q[j] = i
      BY <1>1, <1>3
    <2>2. k # i /\ k # j => q[k] = k
      BY <1>3
    <2> QED
      BY <1>1, <2>1, <2>2
  <1>5. \A k, m \in 0..(n - 1) : q[k] = q[m] => k = m
    BY <1>1, <1>3
  <1>6. \A k \in 0..(n - 1) : a[k] = b[q[k]]
    <2> SUFFICES ASSUME NEW k \in 0..(n - 1) PROVE a[k] = b[q[k]]
      OBVIOUS
    <2>1. CASE k = i
      BY <1>1, <1>2, <1>3, <2>1
    <2>2. CASE k = j
      BY <1>1, <1>2, <1>3, <2>2
    <2>3. CASE k # i /\ k # j
      <3>1. q[k] = k /\ k \in 0..(size - 1)
        BY <1>3, <2>3
      <3> QED
        BY <1>2, <2>3, <3>1
    <2> QED
      BY <2>1, <2>2, <2>3
  <1>7. \A k \in 0..(n - 1) : IF lo <= k /\ k <= hi THEN lo <= q[k] /\ q[k] <= hi ELSE q[k] = k
    BY <1>1, <1>3
  <1>8. Moves(q, a, b, lo, hi, n)
    BY <1>3, <1>4, <1>5, <1>6, <1>7 DEF Moves
  <1> QED
    BY <1>2, <1>8 DEF Shuffled, b

\* One element goes before others.
LEMMA ShiftShuffles ==
  ASSUME NEW size \in Nat, NEW a, Block(a, size), NEW n \in Nat, n <= size,
         NEW at \in Nat, NEW run \in Nat, at <= run, run < n
  PROVE  /\ Block(Shifted(a, at, run), size) /\ Shuffled(a, Shifted(a, at, run), 0, n - 1, n)
         /\ \A k \in 0..(size - 1) :
               Shifted(a, at, run)[k] = IF k = at THEN a[run] ELSE IF at < k /\ k <= run THEN a[k - 1] ELSE a[k]
  <1> DEFINE b == Shifted(a, at, run)
             q == [k \in 0..(n - 1) |-> IF k = run THEN at ELSE IF at <= k /\ k < run THEN k + 1 ELSE k]
  <1>1. Block(b, size) /\ \A k \in 0..(size - 1) :
            b[k] = IF k = at THEN a[run] ELSE IF at < k /\ k <= run THEN a[k - 1] ELSE a[k]
    <2>1. \A k \in 0..(size - 1) : k \in (at + 1)..run <=> at < k /\ k <= run
      OBVIOUS
    <2>2. \A k \in 0..(size - 1) : at < k /\ k <= run => k - 1 \in 0..(size - 1)
      OBVIOUS
    <2>3. run \in 0..(size - 1)
      OBVIOUS
    <2> QED
      BY <2>1, <2>2, <2>3 DEF Shifted, Block
  <1> HIDE DEF b
  <1>3. /\ q \in [0..(n - 1) -> 0..(n - 1)]
        /\ \A k \in 0..(n - 1) : q[k] = IF k = run THEN at ELSE IF at <= k /\ k < run THEN k + 1 ELSE k
    OBVIOUS
  <1> HIDE DEF q
  <1>4. \A k \in 0..(n - 1) : \E m \in 0..(n - 1) : q[m] = k
    <2> SUFFICES ASSUME NEW k \in 0..(n - 1) PROVE \E m \in 0..(n - 1) : q[m] = k
      OBVIOUS
    <2>1. CASE k = at
      <3>1. run \in 0..(n - 1) /\ q[run] = at
        BY <1>3
      <3> QED
        BY <2>1, <3>1
    <2>2. CASE at < k /\ k <= run
      <3>1. k - 1 \in 0..(n - 1) /\ k - 1 # run /\ at <= k - 1 /\ k - 1 < run
        BY <2>2
      <3>2. q[k - 1] = k
        BY <1>3, <3>1
      <3> QED
        BY <3>1, <3>2
    <2>3. CASE k < at \/ k > run
      BY <1>3, <2>3
    <2> QED
      BY <2>1, <2>2, <2>3
  <1>5. \A k, m \in 0..(n - 1) : q[k] = q[m] => k = m
    <2> SUFFICES ASSUME NEW k \in 0..(n - 1), NEW m \in 0..(n - 1), q[k] = q[m] PROVE k = m
      OBVIOUS
    <2>1. /\ q[k] = IF k = run THEN at ELSE IF at <= k /\ k < run THEN k + 1 ELSE k
          /\ q[m] = IF m = run THEN at ELSE IF at <= m /\ m < run THEN m + 1 ELSE m
      BY <1>3
    <2>2. (IF k = run THEN at ELSE IF at <= k /\ k < run THEN k + 1 ELSE k)
          = (IF m = run THEN at ELSE IF at <= m /\ m < run THEN m + 1 ELSE m)
      BY <2>1
    <2>3. k \in Int /\ m \in Int
      OBVIOUS
    <2> QED
      BY <2>2, <2>3
  <1>6. \A k \in 0..(n - 1) : a[k] = b[q[k]]
    <2> SUFFICES ASSUME NEW k \in 0..(n - 1) PROVE a[k] = b[q[k]]
      OBVIOUS
    <2>1. q[k] \in 0..(size - 1) /\ at \in 0..(size - 1)
      BY <1>3
    <2>2. CASE k = run
      BY <1>1, <1>3, <2>1, <2>2
    <2>3. CASE at <= k /\ k < run
      <3>1. q[k] = k + 1 /\ k + 1 # at /\ at < k + 1 /\ k + 1 <= run /\ (k + 1) - 1 = k
        BY <1>3, <2>3
      <3>2. k + 1 \in 0..(size - 1)
        BY <2>1, <3>1
      <3>3. b[k + 1] = a[(k + 1) - 1]
        BY <1>1, <3>1, <3>2
      <3> QED
        BY <3>1, <3>3
    <2>4. CASE k < at \/ k > run
      <3>1. q[k] = k /\ k \in 0..(size - 1) /\ k # run /\ ~(at <= k /\ k < run)
        BY <1>3, <2>1, <2>4
      <3>2. b[k] = a[k]
        BY <1>1, <2>4, <3>1
      <3> QED
        BY <3>1, <3>2
    <2> QED
      BY <2>2, <2>3, <2>4
  <1>7. \A k \in 0..(n - 1) : IF 0 <= k /\ k <= n - 1 THEN 0 <= q[k] /\ q[k] <= n - 1 ELSE q[k] = k
    BY <1>3
  <1>8. Moves(q, a, b, 0, n - 1, n)
    BY <1>3, <1>4, <1>5, <1>6, <1>7 DEF Moves
  <1> QED
    BY <1>1, <1>8 DEF Shuffled, b

\* The elements of a block are those of a sequence, in another order.
Arranged(s, a) ==
    \E p \in [1..Len(s) -> 0..(Len(s) - 1)] :
        /\ \A j, k \in 1..Len(s) : p[j] = p[k] => j = k
        /\ \A k \in 0..(Len(s) - 1) : \E j \in 1..Len(s) : p[j] = k
        /\ \A k \in 1..Len(s) : s[k] = a[p[k]]

\* A block that holds a sequence holds it in some order.
LEMMA ArrangedSelf ==
  ASSUME NEW s \in Seq(Int), NEW a, \A k \in 1..Len(s) : s[k] = a[k - 1]
  PROVE  Arranged(s, a)
  <1> DEFINE p == [k \in 1..Len(s) |-> k - 1]
  <1>1. Len(s) \in Nat
    BY LenProperties
  <1>2. p \in [1..Len(s) -> 0..(Len(s) - 1)] /\ \A k \in 1..Len(s) : p[k] = k - 1
    BY <1>1
  <1> HIDE DEF p
  <1>3. \A k \in 0..(Len(s) - 1) : \E j \in 1..Len(s) : p[j] = k
    <2> SUFFICES ASSUME NEW k \in 0..(Len(s) - 1) PROVE \E j \in 1..Len(s) : p[j] = k
      OBVIOUS
    <2>1. k + 1 \in 1..Len(s) /\ p[k + 1] = k
      BY <1>1, <1>2
    <2> QED
      BY <2>1
  <1>4. \A j, k \in 1..Len(s) : p[j] = p[k] => j = k
    BY <1>1, <1>2
  <1>5. \A k \in 1..Len(s) : s[k] = a[p[k]]
    BY <1>2
  <1> QED
    BY <1>2, <1>3, <1>4, <1>5 DEF Arranged

\* A shuffle keeps the elements of the sequence.
LEMMA ArrangedKept ==
  ASSUME NEW s \in Seq(Int), NEW a, NEW b, NEW lo \in Int, NEW hi \in Int,
         Arranged(s, a), Shuffled(a, b, lo, hi, Len(s))
  PROVE  Arranged(s, b)
  <1> DEFINE I == 0..(Len(s) - 1)
             D == 1..Len(s)
  <1>1. PICK p \in [D -> I] : /\ \A j, k \in D : p[j] = p[k] => j = k
                              /\ \A k \in I : \E j \in D : p[j] = k
                              /\ \A k \in D : s[k] = a[p[k]]
    BY DEF Arranged
  <1>2. PICK q : /\ q \in [I -> I]
                 /\ \A j, k \in I : q[j] = q[k] => j = k
                 /\ \A k \in I : \E j \in I : q[j] = k
                 /\ \A k \in I : a[k] = b[q[k]]
    BY DEF Shuffled, Moves
  <1> DEFINE r == [k \in D |-> q[p[k]]]
  <1>3. ASSUME r \in [D -> I], \A j, k \in D : r[j] = r[k] => j = k,
               \A k \in I : \E j \in D : r[j] = k, \A k \in D : s[k] = b[r[k]]
        PROVE  Arranged(s, b)
    <2> HIDE DEF r
    <2> QED
      BY <1>3 DEF Arranged
  <1> HIDE DEF I, D
  <1>4. r \in [D -> I] /\ \A k \in D : r[k] = q[p[k]]
    BY <1>1, <1>2
  <1> HIDE DEF r
  <1>5. \A k \in I : \E j \in D : r[j] = k
    <2> SUFFICES ASSUME NEW k \in I PROVE \E j \in D : r[j] = k
      OBVIOUS
    <2>1. PICK m \in I : q[m] = k
      BY <1>2
    <2>2. PICK j \in D : p[j] = m
      BY <1>1
    <2> QED
      BY <1>4, <2>1, <2>2
  <1>6. \A j, k \in D : r[j] = r[k] => j = k
    BY <1>1, <1>2, <1>4
  <1>7. \A k \in D : s[k] = b[r[k]]
    BY <1>1, <1>2, <1>4
  <1> QED
    BY <1>3, <1>4, <1>5, <1>6, <1>7

\* Where an element of b was in a.
LEMMA WhereFrom ==
  ASSUME NEW n \in Nat, NEW a, NEW b, NEW lo \in Int, NEW hi \in Int, Shuffled(a, b, lo, hi, n)
  PROVE  \A k \in 0..(n - 1) : \E j \in 0..(n - 1) :
            b[k] = a[j] /\ IF lo <= k /\ k <= hi THEN lo <= j /\ j <= hi ELSE j = k
  <1> SUFFICES ASSUME NEW k \in 0..(n - 1)
               PROVE  \E j \in 0..(n - 1) : b[k] = a[j] /\ IF lo <= k /\ k <= hi THEN lo <= j /\ j <= hi ELSE j = k
    OBVIOUS
  <1>1. PICK q : Moves(q, a, b, lo, hi, n)
    BY DEF Shuffled
  <1>2. PICK j \in 0..(n - 1) : q[j] = k
    BY <1>1 DEF Moves
  <1>3. b[k] = a[j] /\ IF lo <= j /\ j <= hi THEN lo <= k /\ k <= hi ELSE k = j
    BY <1>1, <1>2 DEF Moves
  <1> QED
    BY <1>3

\* The elements up to the e-th are not greater than those behind it.
Small(a, e, n) == \A k \in 0..e, m \in (e + 1)..(n - 1) : a[k] <= a[m]

\* A shuffle within a part keeps what is smaller in front of the part and behind it.
LEMMA SmallKept ==
  ASSUME NEW n \in Nat, NEW a, NEW b, NEW lo \in Int, NEW hi \in Int, Shuffled(a, b, lo, hi, n),
         NEW e \in Nat, e < n, Small(a, e, n), hi <= e \/ lo > e
  PROVE  Small(b, e, n)
  <1> SUFFICES ASSUME NEW k \in 0..e, NEW m \in (e + 1)..(n - 1) PROVE b[k] <= b[m]
    BY DEF Small
  <1>1. k \in 0..(n - 1) /\ m \in 0..(n - 1)
    OBVIOUS
  <1>2. PICK i \in 0..(n - 1) : b[k] = a[i] /\ IF lo <= k /\ k <= hi THEN lo <= i /\ i <= hi ELSE i = k
    BY <1>1, WhereFrom
  <1>3. PICK j \in 0..(n - 1) : b[m] = a[j] /\ IF lo <= m /\ m <= hi THEN lo <= j /\ j <= hi ELSE j = m
    BY <1>1, WhereFrom
  <1>4. i \in 0..e
    BY <1>2
  <1>5. j \in (e + 1)..(n - 1)
    BY <1>3
  <1>6. a[i] <= a[j]
    BY <1>4, <1>5 DEF Small
  <1> QED
    BY <1>2, <1>3, <1>6

\* The exchange of two elements that are not in order.
LEMMA SwapIfLessIs ==
  ASSUME NEW size \in Nat, NEW a, Block(a, size), NEW n \in Nat, n <= size, NEW lo \in Nat, NEW hi \in Int, hi < n,
         NEW i \in Nat, NEW j \in Nat, lo <= i, i <= hi, lo <= j, j <= hi
  PROVE  LET b == SwapIfLess(a, i, j)
         IN  /\ Block(b, size) /\ Shuffled(a, b, lo, hi, n) /\ b[j] <= b[i]
             /\ b[i] \in {a[i], a[j]} /\ b[j] \in {a[i], a[j]} /\ a[i] <= b[i] /\ b[j] <= a[j]
             /\ \A k \in 0..(size - 1) : k # i /\ k # j => b[k] = a[k]
  <1> DEFINE b == SwapIfLess(a, i, j)
             c == Swapped(a, i, j)
  <1>1. a[i] \in Int /\ a[j] \in Int
    BY DEF Block
  <1>2. /\ Block(c, size) /\ Shuffled(a, c, lo, hi, n) /\ c[i] = a[j] /\ c[j] = a[i]
        /\ \A k \in 0..(size - 1) : k # i /\ k # j => c[k] = a[k]
    BY SwapShuffles
  <1>3. Shuffled(a, a, lo, hi, n)
    BY ShuffledSelf
  <1>4. b = IF a[i] < a[j] THEN c ELSE a
    BY DEF SwapIfLess
  <1> HIDE DEF b, c
  <1>5. CASE a[i] < a[j]
    <2>1. b = c
      BY <1>4, <1>5
    <2> QED
      BY <1>1, <1>2, <1>5, <2>1 DEF b
  <1>6. CASE ~(a[i] < a[j])
    <2>1. b = a
      BY <1>4, <1>6
    <2> QED
      BY <1>1, <1>3, <1>6, <2>1 DEF b
  <1> QED
    BY <1>5, <1>6

\* The median of three stands in the middle, with bounds for the scans on both sides.
LEMMA MedianIs ==
  ASSUME NEW size \in Nat, NEW a, Block(a, size), NEW n \in Nat, n <= size, NEW lo \in Nat, NEW hi \in Int, hi < n,
         NEW mid \in Nat, lo < mid, mid < hi
  PROVE  LET b == MedianOfThree(a, lo, mid, hi)
         IN  Block(b, size) /\ Shuffled(a, b, lo, hi, n) /\ b[lo] <= b[mid] /\ b[mid] <= b[hi]
  <1> DEFINE b == SwapIfLess(a, mid, lo)
             c == Swapped(b, mid, hi)
             d == SwapIfLess(c, mid, lo)
             m == MedianOfThree(a, lo, mid, hi)
  <1>1. lo <= lo /\ lo <= hi /\ lo <= mid /\ mid <= hi /\ hi \in Nat /\ hi <= hi
        /\ lo \in 0..(size - 1) /\ mid \in 0..(size - 1) /\ hi \in 0..(size - 1)
        /\ hi # mid /\ hi # lo /\ mid # lo
    OBVIOUS
  <1>2. m = IF b[hi] < b[mid] THEN d ELSE b
    BY DEF MedianOfThree
  <1>3. /\ Block(b, size) /\ Shuffled(a, b, lo, hi, n) /\ b[lo] <= b[mid] /\ b[hi] = a[hi]
    BY <1>1, SwapIfLessIs
  <1>4. b[lo] \in Int /\ b[mid] \in Int /\ b[hi] \in Int
    BY <1>1, <1>3 DEF Block
  <1> HIDE DEF b
  <1>5. /\ Block(c, size) /\ Shuffled(b, c, lo, hi, n) /\ c[mid] = b[hi] /\ c[hi] = b[mid] /\ c[lo] = b[lo]
    BY <1>1, <1>3, SwapShuffles
  <1> HIDE DEF c
  <1>6. /\ Block(d, size) /\ Shuffled(c, d, lo, hi, n) /\ d[lo] <= d[mid]
        /\ d[mid] \in {c[mid], c[lo]} /\ d[hi] = c[hi]
    BY <1>1, <1>5, SwapIfLessIs
  <1> HIDE DEF d, m
  <1>7. CASE b[hi] < b[mid]
    <2>1. m = d
      BY <1>2, <1>7
    <2>2. Shuffled(b, d, lo, hi, n)
      BY <1>1, <1>5, <1>6, ShuffledTwice
    <2>3. Shuffled(a, d, lo, hi, n)
      BY <1>1, <1>3, <2>2, ShuffledTwice
    <2>4. d[mid] <= d[hi]
      BY <1>3, <1>4, <1>5, <1>6, <1>7
    <2> QED
      BY <1>6, <2>1, <2>3, <2>4 DEF m
  <1>8. CASE ~(b[hi] < b[mid])
    <2>1. m = b /\ b[mid] <= b[hi]
      BY <1>2, <1>4, <1>8
    <2> QED
      BY <1>3, <2>1 DEF m
  <1> QED
    BY <1>7, <1>8

-----------------------------------------------------------------------------
(* What a sort ends with.                                                  *)

\* A set that p maps one to one into fewer than n numbers has fewer than n elements.
LEMMA FewerThan ==
  ASSUME NEW n \in Nat, NEW m \in Nat, NEW p \in [1..m -> 0..(m - 1)],
         \A j, k \in 1..m : p[j] = p[k] => j = k, NEW S \in SUBSET (1..m), \A k \in S : p[k] < n
  PROVE  IsFiniteSet(S) /\ Cardinality(S) \in Nat /\ Cardinality(S) <= n
  <1> DEFINE f == [k \in S |-> p[k] + 1]
  <1>1. IsFiniteSet(1..m) /\ IsFiniteSet(1..n) /\ Cardinality(1..n) = n
    BY FS_Interval
  <1>2. IsFiniteSet(S)
    BY <1>1, FS_Subset
  <1>3. f \in Injection(S, 1..n)
    <2>1. \A k \in S : p[k] \in 0..(m - 1) /\ p[k] + 1 \in 1..n
      OBVIOUS
    <2>2. f \in [S -> 1..n]
      BY <2>1
    <2>3. \A j, k \in S : f[j] = f[k] => j = k
      BY <2>1
    <2> HIDE DEF f
    <2> QED
      BY <2>2, <2>3 DEF Injection, IsInjective
  <1>4. Cardinality(S) <= Cardinality(1..n)
    BY <1>1, <1>3, FS_Injection
  <1> QED
    BY <1>1, <1>2, <1>4, FS_CardinalityType

\* A set to which the first n indices are mapped one to one has at least n elements.
LEMMA AtLeast ==
  ASSUME NEW n \in Nat, NEW m \in Nat, NEW p \in [1..m -> 0..(m - 1)], n <= m,
         \A k \in 0..(m - 1) : \E j \in 1..m : p[j] = k, NEW S \in SUBSET (1..m),
         \A k \in 1..m : p[k] < n => k \in S
  PROVE  IsFiniteSet(S) /\ Cardinality(S) \in Nat /\ n <= Cardinality(S)
  <1> DEFINE f == [k \in 1..n |-> CHOOSE j \in 1..m : p[j] = k - 1]
  <1>1. IsFiniteSet(1..m) /\ Cardinality(1..n) = n
    BY FS_Interval
  <1>2. IsFiniteSet(S)
    BY <1>1, FS_Subset
  <1>3. \A k \in 1..n : f[k] \in 1..m /\ p[f[k]] = k - 1
    <2> SUFFICES ASSUME NEW k \in 1..n PROVE f[k] \in 1..m /\ p[f[k]] = k - 1
      OBVIOUS
    <2>1. k - 1 \in 0..(m - 1)
      OBVIOUS
    <2>2. \E j \in 1..m : p[j] = k - 1
      BY <2>1
    <2>3. f[k] = CHOOSE j \in 1..m : p[j] = k - 1
      OBVIOUS
    <2> HIDE DEF f
    <2> QED
      BY <2>2, <2>3
  <1>4. f \in [1..n -> S]
    <2>1. ASSUME NEW k \in 1..n PROVE p[f[k]] < n
      <3> HIDE DEF f
      <3>1. p[f[k]] = k - 1 /\ k - 1 < n
        BY <1>3
      <3> QED
        BY <3>1
    <2>2. \A k \in 1..n : f[k] \in S
      <3> HIDE DEF f
      <3> QED
        BY <1>3, <2>1
    <2> QED
      BY <2>2
  <1>5. \A j, k \in 1..n : f[j] = f[k] => j = k
    <2> HIDE DEF f
    <2> SUFFICES ASSUME NEW j \in 1..n, NEW k \in 1..n, f[j] = f[k] PROVE j = k
      OBVIOUS
    <2>1. p[f[j]] = j - 1 /\ p[f[k]] = k - 1
      BY <1>3
    <2>2. j - 1 = k - 1
      BY <2>1
    <2> QED
      BY <2>2
  <1> HIDE DEF f
  <1>6. f \in Injection(1..n, S)
    BY <1>4, <1>5 DEF Injection, IsInjective
  <1>7. Cardinality(1..n) <= Cardinality(S)
    BY <1>2, <1>6, FS_Injection
  <1> QED
    BY <1>1, <1>2, <1>7, FS_CardinalityType

\* An arrangement in order is the one the definition of Ordered says.
LEMMA OrderedIs ==
  ASSUME NEW s \in Seq(Int), NEW a, Arranged(s, a), \A k \in 0..(Len(s) - 1) : a[k] \in Int,
         \A j, k \in 0..(Len(s) - 1) : j < k => a[j] <= a[k]
  PROVE  /\ Ordered(s) \in Seq(Int) /\ Len(Ordered(s)) = Len(s)
         /\ \A n \in 1..Len(s) : Ordered(s)[n] = a[n - 1]
  <1> DEFINE m == Len(s)
             D == 1..m
             Lt(x) == {k \in D : s[k] < x}
             Le(x) == {k \in D : s[k] <= x}
             V == {s[k] : k \in D}
  <1>1. m \in Nat /\ DOMAIN s = D /\ \A k \in D : s[k] \in Int
    BY LenProperties, ElementOfSeq
  <1>2. PICK p \in [D -> 0..(m - 1)] : /\ \A j, k \in D : p[j] = p[k] => j = k
                                       /\ \A k \in 0..(m - 1) : \E j \in D : p[j] = k
                                       /\ \A k \in D : s[k] = a[p[k]]
    BY DEF Arranged
  <1> HIDE DEF m
  <1>3. ASSUME NEW n \in D
        PROVE  (CHOOSE x \in V : Cardinality(Lt(x)) < n /\ n <= Cardinality(Le(x))) = a[n - 1]
    <2> DEFINE x == a[n - 1]
    <2>1. n - 1 \in 0..(m - 1) /\ n \in Nat /\ n - 1 \in Nat /\ n <= m
      BY <1>1
    <2>2. x \in V /\ x \in Int
      <3>1. PICK j \in D : p[j] = n - 1
        BY <1>2, <2>1
      <3>2. s[j] = x
        BY <1>2, <3>1
      <3> QED
        BY <1>1, <3>2
    <2>3. \A k \in D : p[k] \in 0..(m - 1) /\ a[p[k]] \in Int /\ s[k] = a[p[k]]
      BY <1>2 DEF m
    <2>4. IsFiniteSet(Lt(x)) /\ Cardinality(Lt(x)) \in Nat /\ Cardinality(Lt(x)) < n
      <3>1. \A k \in Lt(x) : p[k] < n - 1
        <4> SUFFICES ASSUME NEW k \in D, s[k] < x PROVE p[k] < n - 1
          OBVIOUS
        <4>1. p[k] = n - 1 => s[k] = x
          BY <2>3
        <4>2. n - 1 < p[k] => x <= s[k]
          BY <2>1, <2>3 DEF m
        <4>3. p[k] \in Int /\ n \in Int
          BY <1>1, <2>1, <2>3
        <4>4. p[k] = n - 1 \/ n - 1 < p[k] \/ p[k] < n - 1
          BY <4>3
        <4> HIDE DEF x
        <4>5. s[k] # x /\ ~(x <= s[k])
          BY <1>1, <2>2
        <4> QED
          BY <4>1, <4>2, <4>4, <4>5
      <3>2. Lt(x) \in SUBSET (1..m)
        OBVIOUS
      <3> HIDE DEF Lt, x
      <3>3. Cardinality(Lt(x)) <= n - 1 /\ IsFiniteSet(Lt(x)) /\ Cardinality(Lt(x)) \in Nat
        BY <1>1, <1>2, <2>1, <3>1, <3>2, FewerThan
      <3> QED
        BY <2>1, <3>3
    <2>5. IsFiniteSet(Le(x)) /\ Cardinality(Le(x)) \in Nat /\ n <= Cardinality(Le(x))
      <3>1. \A k \in 1..m : p[k] < n => k \in Le(x)
        <4> SUFFICES ASSUME NEW k \in D, p[k] < n PROVE s[k] <= x
          OBVIOUS
        <4>1. p[k] = n - 1 => s[k] = x
          BY <2>3
        <4>2. p[k] < n - 1 => s[k] <= x
          BY <2>1, <2>3 DEF m
        <4>3. p[k] \in Int /\ n \in Int
          BY <1>1, <2>1, <2>3
        <4>4. p[k] = n - 1 \/ p[k] < n - 1
          BY <4>3
        <4> HIDE DEF x
        <4>5. s[k] = x => s[k] <= x
          BY <2>2
        <4> QED
          BY <4>1, <4>2, <4>4, <4>5
      <3>2. Le(x) \in SUBSET (1..m)
        OBVIOUS
      <3> HIDE DEF Le, x
      <3> QED
        BY <1>1, <1>2, <2>1, <3>1, <3>2, AtLeast
    <2> HIDE DEF x
    <2>6. ASSUME NEW y \in V, Cardinality(Lt(y)) < n /\ n <= Cardinality(Le(y)), y # x
          PROVE  FALSE
      <3>1. y \in Int
        BY <1>1
      <3>2. IsFiniteSet(D)
        BY <1>1, FS_Interval
      <3>3. IsFiniteSet(Lt(y)) /\ Cardinality(Lt(y)) \in Nat /\ IsFiniteSet(Le(y)) /\ Cardinality(Le(y)) \in Nat
        <4>1. Lt(y) \in SUBSET D /\ Le(y) \in SUBSET D
          OBVIOUS
        <4> HIDE DEF Lt, Le
        <4> QED
          BY <3>2, <4>1, FS_Subset, FS_CardinalityType
      <3>4. CASE y < x
        <4>1. Le(y) \in SUBSET Lt(x)
          <5> SUFFICES ASSUME NEW k \in D, s[k] <= y PROVE s[k] < x
            OBVIOUS
          <5>1. s[k] \in Int /\ x \in Int
            BY <1>1, <2>2
          <5> HIDE DEF D
          <5> QED
            BY <3>1, <3>4, <5>1
        <4> HIDE DEF Lt, Le
        <4>2. Cardinality(Le(y)) <= Cardinality(Lt(x))
          BY <2>4, <4>1, FS_Subset
        <4> QED
          BY <2>1, <2>4, <2>6, <3>3, <4>2
      <3>5. CASE x < y
        <4>1. Le(x) \in SUBSET Lt(y)
          <5> SUFFICES ASSUME NEW k \in D, s[k] <= x PROVE s[k] < y
            OBVIOUS
          <5>1. s[k] \in Int /\ x \in Int
            BY <1>1, <2>2
          <5> HIDE DEF D
          <5> QED
            BY <3>1, <3>5, <5>1
        <4> HIDE DEF Lt, Le
        <4>2. Cardinality(Le(x)) <= Cardinality(Lt(y))
          BY <3>3, <4>1, FS_Subset
        <4> QED
          BY <2>1, <2>5, <2>6, <3>3, <4>2
      <3> QED
        BY <2>2, <2>6, <3>1, <3>4, <3>5
    <2> HIDE DEF V, Lt, Le
    <2> QED
      BY <2>2, <2>4, <2>5, <2>6 DEF x
  <1>4. Ordered(s) = [n \in D |-> CHOOSE x \in V : Cardinality(Lt(x)) < n /\ n <= Cardinality(Le(x))]
    BY <1>1 DEF Ordered
  <1>5. \A n \in D : Ordered(s)[n] = a[n - 1]
    <2> HIDE DEF V, Lt, Le
    <2> QED
      BY <1>3, <1>4
  <1>6. \A n \in D : n - 1 \in 0..(m - 1)
    BY <1>1
  <1>7. Ordered(s) \in [D -> Int]
    <2>1. \A n \in D : Ordered(s)[n] \in Int
      BY <1>5, <1>6 DEF m
    <2>2. Ordered(s) = [n \in D |-> Ordered(s)[n]]
      BY <1>4
    <2> QED
      BY <2>1, <2>2
  <1> QED
    BY <1>1, <1>5, <1>7, CellsSeq DEF m

-----------------------------------------------------------------------------
(* Sequences.                                                              *)

\* Sequence t is s behind the m-th element up to the n-th.
IsPart(t, s, m, n) ==
    t \in Seq(Int) /\ Len(t) = n - m /\ \A k \in 1..(n - m) : t[k] = s[m + k]

\* A part of a sequence.
LEMMA PartIs ==
  ASSUME NEW s \in Seq(Int), NEW m \in Nat, NEW n \in Nat, m <= n, n <= Len(s)
  PROVE  IsPart(SubSeq(s, m + 1, n), s, m, n)
  <1> DEFINE f == m + 1
  <1>1. f \in Int /\ \A k \in f..n : s[k] \in Int
    BY ElementOfSeq
  <1> HIDE DEF f
  <1>2. /\ SubSeq(s, f, n) \in Seq(Int)
        /\ Len(SubSeq(s, f, n)) = IF f <= n THEN n - f + 1 ELSE 0
        /\ \A k \in 1..(n - f + 1) : SubSeq(s, f, n)[k] = s[f + k - 1]
    BY <1>1, SubSeqProperties
  <1>3. n - f + 1 = n - m /\ (f <= n \/ n - m = 0)
    BY DEF f
  <1>4. \A k \in 1..(n - m) : f + k - 1 = m + k
    BY DEF f
  <1>5. SubSeq(s, f, n) \in Seq(Int) /\ Len(SubSeq(s, f, n)) = n - m
    BY <1>2, <1>3
  <1>6. \A k \in 1..(n - m) : SubSeq(s, f, n)[k] = s[m + k]
    BY <1>2, <1>3, <1>4
  <1> QED
    BY <1>5, <1>6 DEF f, IsPart

\* Its first elements.
LEMMA FirstIs ==
  ASSUME NEW s \in Seq(Int), NEW n \in Nat, n <= Len(s)
  PROVE  IsPart(SubSeq(s, 1, n), s, 0, n)
  <1>1. IsPart(SubSeq(s, 0 + 1, n), s, 0, n)
    BY PartIs
  <1> QED
    BY <1>1

\* A sequence behind another.
LEMMA BehindIs ==
  ASSUME NEW s \in Seq(Int), NEW t \in Seq(Int)
  PROVE  /\ s \o t \in Seq(Int) /\ Len(s \o t) = Len(s) + Len(t)
         /\ \A k \in 1..(Len(s) + Len(t)) : (s \o t)[k] = IF k <= Len(s) THEN s[k] ELSE t[k - Len(s)]
  BY ConcatProperties

\* Sequence r, of length n, is s with t behind its i-th element.
IsInserted(r, s, t, i, n) ==
    /\ r \in Seq(Int) /\ Len(r) = n
    /\ \A k \in 1..n : r[k] = IF k <= i THEN s[k] ELSE IF k <= i + Len(t) THEN t[k - i] ELSE s[k - Len(t)]

\* A sequence inside another.
LEMMA InsertedIs ==
  ASSUME NEW s \in Seq(Int), NEW t \in Seq(Int), NEW i \in Nat, i <= Len(s)
  PROVE  IsInserted(SubSeq(s, 1, i) \o t \o SubSeq(s, i + 1, Len(s)), s, t, i, Len(s) + Len(t))
  <1> DEFINE a == SubSeq(s, 1, i)
             b == SubSeq(s, i + 1, Len(s))
             c == a \o t
             r == c \o b
             n == Len(s) + Len(t)
  <1>1. Len(s) \in Nat /\ Len(t) \in Nat
    BY LenProperties
  <1>2. a \in Seq(Int) /\ Len(a) = i /\ \A k \in 1..i : a[k] = s[k]
    <2>1. IsPart(a, s, 0, i)
      BY <1>1, FirstIs
    <2>2. i - 0 = i /\ \A k \in 1..i : 0 + k = k
      OBVIOUS
    <2> HIDE DEF a
    <2> QED
      BY <2>1, <2>2 DEF IsPart
  <1>3. b \in Seq(Int) /\ Len(b) = Len(s) - i /\ \A k \in 1..(Len(s) - i) : b[k] = s[i + k]
    <2>1. IsPart(b, s, i, Len(s))
      BY <1>1, PartIs
    <2> HIDE DEF b
    <2> QED
      BY <2>1 DEF IsPart
  <1> HIDE DEF a, b
  <1>4. /\ c \in Seq(Int) /\ Len(c) = i + Len(t)
        /\ \A k \in 1..(i + Len(t)) : c[k] = IF k <= i THEN a[k] ELSE t[k - i]
    BY <1>2, BehindIs
  <1> HIDE DEF c
  <1>5. /\ r \in Seq(Int) /\ Len(r) = i + Len(t) + (Len(s) - i)
        /\ \A k \in 1..(i + Len(t) + (Len(s) - i)) : r[k] = IF k <= i + Len(t) THEN c[k] ELSE b[k - (i + Len(t))]
    <2>1. /\ r \in Seq(Int) /\ Len(r) = Len(c) + Len(b)
          /\ \A k \in 1..(Len(c) + Len(b)) : r[k] = IF k <= Len(c) THEN c[k] ELSE b[k - Len(c)]
      BY <1>3, <1>4, BehindIs
    <2> HIDE DEF r
    <2> QED
      BY <1>3, <1>4, <2>1
  <1> HIDE DEF r
  <1>6. i + Len(t) + (Len(s) - i) = n /\ n \in Nat
    BY <1>1
  <1>7. ASSUME NEW k \in 1..n
        PROVE  r[k] = IF k <= i THEN s[k] ELSE IF k <= i + Len(t) THEN t[k - i] ELSE s[k - Len(t)]
    <2>1. k \in 1..(i + Len(t) + (Len(s) - i)) /\ k \in Nat
      BY <1>6
    <2>2. CASE k <= i
      <3>1. k \in 1..i /\ k \in 1..(i + Len(t)) /\ k <= i + Len(t)
        BY <1>1, <2>1, <2>2
      <3>2. r[k] = c[k] /\ c[k] = a[k]
        BY <1>4, <1>5, <2>1, <2>2, <3>1
      <3> QED
        BY <1>2, <2>2, <3>1, <3>2
    <2>3. CASE ~(k <= i) /\ k <= i + Len(t)
      <3>1. k \in 1..(i + Len(t))
        BY <1>1, <2>1, <2>3
      <3>2. r[k] = c[k] /\ c[k] = t[k - i]
        BY <1>4, <1>5, <2>1, <2>3, <3>1
      <3> QED
        BY <2>3, <3>2
    <2>4. CASE ~(k <= i) /\ ~(k <= i + Len(t))
      <3>1. k - (i + Len(t)) \in 1..(Len(s) - i) /\ i + (k - (i + Len(t))) = k - Len(t)
        BY <1>1, <2>1, <2>4
      <3>2. r[k] = b[k - (i + Len(t))]
        BY <1>5, <2>1, <2>4
      <3> QED
        BY <1>3, <2>4, <3>1, <3>2
    <2> QED
      BY <2>2, <2>3, <2>4
  <1> QED
    BY <1>5, <1>6, <1>7 DEF IsInserted, r, c, a, b

-----------------------------------------------------------------------------
(* The invariant.                                                          *)

Indices == 0..(used - 1)

\* A block is large enough, and at most twice too large.
Enough(a, n) == a \in Nat /\ n <= a /\ MinAllocs <= a /\ (a = MinAllocs \/ a < 2 * n)
                /\ a * ElemSize \in Nat /\ a * ElemSize < TwoTo[Width]

BlockInv ==
    /\ used \in Nat /\ used <= MaxElems /\ Enough(allocs, used)
    /\ Block(cells, allocs)
    /\ contents \in Seq(Int) /\ Len(contents) = used

\* The elements are those of the sequence, in its order unless a sort is under way.
ContentsInv ==
    /\ sort.at = "idle" => \A k \in 1..used : contents[k] = cells[k - 1]
    /\ sort.at # "idle" => used > 0 /\ Arranged(contents, cells)

Places == {"idle", "median", "walls", "split", "least", "insert"}
Sorting == sort.at \in {"median", "walls", "split"}

Sorts == [at : Places, lo : Int, hi : Int, mid : Int, left : Int, right : Int, run : Int, top : Int]
Stacks == [0..(StackSize - 1) -> [lo : Int, hi : Int]]

CallsType ==
    /\ sort \in Sorts /\ stack \in Stacks
    /\ search \in [at : {"idle", "halve"}, key : Int, st : Int, ed : Int]
    /\ answer \in [known : BOOLEAN, key : Int, found : BOOLEAN, pos : Int]
    /\ sort.at # "idle" => search.at = "idle"
    /\ sort.at # "idle" \/ search.at # "idle" => ~answer.known

\* The parts of the array that the sort still divides: those on the stack and the one in hand.
Parts == [j \in 1..sort.top |-> IF j = sort.top THEN [lo |-> sort.lo, hi |-> sort.hi] ELSE stack[j]]

\* The d-th part from the bottom of the stack has d times halved the array.
PartOK(p, d, n) ==
    /\ p \in [lo : Int, hi : Int]
    /\ 0 <= p.lo /\ p.hi < n /\ MaxThresh <= p.hi - p.lo
    /\ TwoTo[d] * (p.hi - p.lo + 1) <= n

\* The first elements up to the e-th are the least; they are one of the parts, or they
\* are few and no part is left that has the first.
Front(a, parts, top, e, n) ==
    /\ Small(a, e, n)
    /\ \A j \in 1..top : parts[j].lo > e \/ (parts[j].lo = 0 /\ parts[j].hi = e)
    /\ \A i, j \in 1..top : parts[i].lo = 0 /\ parts[j].lo = 0 => i = j
    /\ e <= MaxThresh \/ \E j \in 1..top : parts[j].lo = 0

PartsInv ==
    /\ Sorting =>
        /\ 1 <= sort.top /\ sort.top <= Width
        /\ \A j \in 1..sort.top : PartOK(Parts[j], j - 1, used)
        /\ \E e \in Indices : Front(cells, Parts, sort.top, e, used)
    /\ ~Sorting => sort.top = 0

\* On the left are elements not greater, on the right elements not less than a pivot.
Walls(a, lo, left, right, hi, pivot) ==
    /\ \A k \in lo..(left - 1) : a[k] <= pivot
    /\ \A k \in (right + 1)..hi : pivot <= a[k]

WallsInv ==
    /\ sort.at = "walls" =>
        /\ sort.lo < sort.left /\ sort.left <= sort.right /\ sort.right < sort.hi
        /\ sort.lo <= sort.mid /\ sort.mid <= sort.hi
        /\ Walls(cells, sort.lo, sort.left, sort.right, sort.hi, cells[sort.mid])
    /\ sort.at = "split" =>
        /\ sort.lo <= sort.right /\ sort.right < sort.left /\ sort.left <= sort.hi
        /\ \E k \in Indices : Walls(cells, sort.lo, sort.left, sort.right, sort.hi, cells[k])

\* After the parts: the least element is among the first, then it is the first.
FrontInv ==
    /\ sort.at = "least" => \E k \in Indices : k <= MaxThresh /\ \A m \in Indices : cells[k] <= cells[m]
    /\ sort.at = "insert" =>
        /\ sort.run >= 2
        /\ \A k \in Indices : cells[0] <= cells[k]
        /\ \A j, k \in Indices : j < k /\ k < sort.run => cells[j] <= cells[k]

SearchInv ==
    search.at # "idle" =>
        /\ 0 <= search.st /\ search.st < search.ed /\ search.ed < used
        /\ cells[search.st] < search.key /\ search.key < cells[search.ed]
        /\ \A j, k \in 1..used : j < k => contents[j] <= contents[k]

ArrayInv == BlockInv /\ ContentsInv /\ CallsType /\ PartsInv /\ WallsInv /\ FrontInv /\ SearchInv /\ AnswerIsRight

-----------------------------------------------------------------------------
(* Calls that are one step.                                                *)

\* Between the calls nothing is asked of the sort and the search.
LEMMA CallKeeps ==
  ASSUME ArrayInv, ArrayCall, BlockInv', \A k \in 1..used' : contents'[k] = cells'[k - 1],
         answer' \in [known : BOOLEAN, key : Int, found : BOOLEAN, pos : Int], AnswerIsRight'
  PROVE  ArrayInv'
  <1>1. /\ sort.at = "idle" /\ search.at = "idle" /\ sort.top = 0
        /\ sort' = sort /\ stack' = stack /\ search' = search
    BY DEF ArrayInv, ArrayCall, BeginCall, PartsInv, Sorting, sorting_vars
  <1>2. ContentsInv' /\ PartsInv' /\ WallsInv' /\ FrontInv' /\ SearchInv'
    BY <1>1 DEF ContentsInv, PartsInv, Sorting, WallsInv, FrontInv, SearchInv
  <1>3. CallsType'
    BY <1>1 DEF ArrayInv, CallsType
  <1> QED
    BY <1>2, <1>3 DEF ArrayInv

\* Nothing was searched.
LEMMA NoAnswerIs ==
  NoAnswer \in [known : BOOLEAN, key : Int, found : BOOLEAN, pos : Int] /\ ~NoAnswer.known
  BY DEF NoAnswer

\* The block that is needed is of the right size.
LEMMA EnoughIs ==
  ASSUME NEW n \in Nat, n <= MaxElems
  PROVE  Enough(Needed(n), n)
  BY NeededIs DEF Enough

\* The block after i_grow_array.
LEMMA GrownIs ==
  ASSUME BlockInv, NEW n \in Nat, used <= n, n <= MaxElems
  PROVE  /\ Enough(Max({allocs, Needed(n)}), n)
         /\ Block(Grown(n), Max({allocs, Needed(n)}))
         /\ \A k \in 0..(allocs - 1) : Grown(n)[k] = cells[k]
  <1>1. /\ used \in Nat /\ allocs \in Nat /\ Enough(allocs, used) /\ Block(cells, allocs)
    BY DEF BlockInv, Enough
  <1>2. Enough(Needed(n), n) /\ Needed(n) \in Nat /\ Needed(n) * ElemSize \in Nat /\ Needed(n) * ElemSize < TwoTo[Width]
    BY EnoughIs DEF Enough
  <1>3. Max({allocs, Needed(n)}) = IF allocs < Needed(n) THEN Needed(n) ELSE allocs
    BY <1>1, <1>2, MaxOfTwo
  <1>4. CASE allocs < Needed(n)
    <2>1. Grown(n) = NewBlock(Needed(n), cells)
      BY <1>1, <1>2, <1>4 DEF Grown
    <2>2. /\ Block(NewBlock(Needed(n), cells), Needed(n))
          /\ \A k \in 0..(Needed(n) - 1) : k < allocs => NewBlock(Needed(n), cells)[k] = cells[k]
      BY <1>1, <1>2, NewBlockKeeps
    <2>3. \A k \in 0..(allocs - 1) : k \in 0..(Needed(n) - 1) /\ k < allocs
      BY <1>1, <1>2, <1>4
    <2> QED
      BY <1>2, <1>3, <1>4, <2>1, <2>2, <2>3
  <1>5. CASE ~(allocs < Needed(n))
    <2>1. Grown(n) = cells
      BY <1>1, <1>2, <1>5 DEF Grown
    <2>2. Enough(allocs, n)
      BY <1>1, <1>2, <1>5 DEF Enough
    <2> QED
      BY <1>1, <1>3, <1>5, <2>1, <2>2
  <1> QED
    BY <1>4, <1>5

\* The block after i_shrink_array.
LEMMA ShrunkIs ==
  ASSUME BlockInv, NEW n \in Nat, n <= used, NEW c, Block(c, allocs)
  PROVE  /\ Enough(Min({allocs, Needed(n)}), n)
         /\ Block(Shrunk(c, n), Min({allocs, Needed(n)}))
         /\ \A k \in 0..(n - 1) : Shrunk(c, n)[k] = c[k]
  <1>1. used \in Nat /\ allocs \in Nat /\ Enough(allocs, used) /\ n <= MaxElems /\ MaxElems \in Nat /\ n <= allocs
    BY ArrayAssumption DEF BlockInv, Enough
  <1>2. /\ Enough(Needed(n), n) /\ Needed(n) \in Nat /\ n <= Needed(n)
        /\ Needed(n) * ElemSize \in Nat /\ Needed(n) * ElemSize < TwoTo[Width]
    BY <1>1, EnoughIs DEF Enough
  <1>3. Min({allocs, Needed(n)}) = IF allocs < Needed(n) THEN allocs ELSE Needed(n)
    BY <1>1, <1>2, MinOfTwo
  <1>4. CASE Needed(n) < allocs
    <2>1. Shrunk(c, n) = NewBlock(Needed(n), c)
      BY <1>1, <1>2, <1>4 DEF Shrunk
    <2>2. /\ Block(NewBlock(Needed(n), c), Needed(n))
          /\ \A k \in 0..(Needed(n) - 1) : k < allocs => NewBlock(Needed(n), c)[k] = c[k]
      BY <1>1, <1>2, NewBlockKeeps
    <2>3. \A k \in 0..(n - 1) : k \in 0..(Needed(n) - 1) /\ k < allocs
      BY <1>1, <1>2, <1>4
    <2>4. Min({allocs, Needed(n)}) = Needed(n)
      BY <1>1, <1>2, <1>3, <1>4
    <2> QED
      BY <1>2, <2>1, <2>2, <2>3, <2>4
  <1>5. CASE ~(Needed(n) < allocs)
    <2>1. Shrunk(c, n) = c
      BY <1>1, <1>2, <1>5 DEF Shrunk
    <2>2. Enough(allocs, n)
      <3>1. allocs <= Needed(n)
        BY <1>1, <1>2, <1>5
      <3> QED
        BY <1>1, <1>2, <3>1 DEF Enough, MinAllocs
    <2>3. Min({allocs, Needed(n)}) = allocs
      BY <1>1, <1>2, <1>3, <1>5
    <2> QED
      BY <2>1, <2>2, <2>3
  <1> QED
    BY <1>4, <1>5

\* array_join keeps the invariant.
LEMMA JoinKeeps ==
  ASSUME ArrayInv, NEW s \in Blocks, JoinElems(s)
  PROVE  ArrayInv'
  <1> DEFINE n == used + Len(s)
             a == Max({allocs, Needed(n)})
  <1>1. /\ s \in Seq(Int) /\ Len(s) \in Nat /\ BlockInv /\ used \in Nat /\ allocs \in Nat /\ used <= allocs
        /\ contents \in Seq(Int) /\ Len(contents) = used /\ \A k \in 1..used : contents[k] = cells[k - 1]
    BY ArrayAssumption, LenProperties DEF ArrayInv, BlockInv, Enough, ContentsInv, JoinElems, ArrayCall, BeginCall
  <1>2. /\ ArrayCall /\ n <= MaxElems /\ used' = n /\ cells' = Stored(Grown(n), used, s)
        /\ allocs' = a /\ contents' = contents \o s /\ answer' = NoAnswer
    BY DEF JoinElems
  <1>3. n \in Nat /\ used <= n
    BY <1>1
  <1> HIDE DEF n, a
  <1>4. Enough(a, n) /\ Block(Grown(n), a) /\ \A k \in 0..(allocs - 1) : Grown(n)[k] = cells[k]
    BY <1>1, <1>2, <1>3, GrownIs DEF a
  <1>5. a \in Nat /\ n <= a
    BY <1>4 DEF Enough
  <1>6. /\ Block(cells', a)
        /\ \A k \in 0..(a - 1) :
              cells'[k] = IF used <= k /\ k < used + Len(s) THEN s[k - used + 1] ELSE Grown(n)[k]
    <2>1. WithStored(Stored(Grown(n), used, s), Grown(n), a, used, s)
      BY <1>1, <1>4, <1>5, StoredIs
    <2> QED
      BY <1>2, <2>1 DEF WithStored
  <1>7. /\ contents' \in Seq(Int) /\ Len(contents') = n
        /\ \A k \in 1..n : contents'[k] = IF k <= used THEN contents[k] ELSE s[k - used]
    <2>1. /\ contents \o s \in Seq(Int) /\ Len(contents \o s) = Len(contents) + Len(s)
          /\ \A k \in 1..(Len(contents) + Len(s)) : (contents \o s)[k] = IF k <= Len(contents) THEN contents[k] ELSE s[k - Len(contents)]
      BY <1>1, BehindIs
    <2> QED
      BY <1>1, <1>2, <2>1 DEF n
  <1>8. BlockInv'
    BY <1>2, <1>3, <1>4, <1>6, <1>7 DEF BlockInv
  <1>9. ASSUME NEW k \in 1..n PROVE contents'[k] = cells'[k - 1]
    <2>1. k - 1 \in 0..(a - 1) /\ k \in Nat
      BY <1>3, <1>5
    <2>2. CASE k <= used
      <3>1. k \in 1..used /\ k - 1 \in 0..(allocs - 1) /\ ~(used <= k - 1)
        BY <1>1, <2>1, <2>2
      <3> QED
        BY <1>1, <1>4, <1>6, <1>7, <2>1, <2>2, <3>1
    <2>3. CASE ~(k <= used)
      <3>1. used <= k - 1 /\ k - 1 < used + Len(s) /\ (k - 1) - used + 1 = k - used
        BY <1>1, <2>1, <2>3 DEF n
      <3> QED
        BY <1>6, <1>7, <2>1, <2>3, <3>1
    <2> QED
      BY <2>2, <2>3
  <1>10. AnswerIsRight'
    BY <1>2, NoAnswerIs DEF AnswerIsRight
  <1> QED
    BY <1>2, <1>8, <1>9, <1>10, NoAnswerIs, CallKeeps

\* array_insert keeps the invariant.
LEMMA InsertKeeps ==
  ASSUME ArrayInv, NEW s \in Blocks, NEW pos \in 0..used \cup {ArrayEnd}, InsertElems(pos, s)
  PROVE  ArrayInv'
  <1> DEFINE at == IF pos = ArrayEnd THEN used ELSE pos
             n == used + Len(s)
             a == Max({allocs, Needed(n)})
             old == Taken(Grown(n), at, used - at)
             moved == Stored(Grown(n), at + Len(s), old)
  <1>1. /\ s \in Seq(Int) /\ Len(s) \in Nat /\ BlockInv /\ used \in Nat /\ allocs \in Nat /\ used <= allocs
        /\ contents \in Seq(Int) /\ Len(contents) = used /\ \A k \in 1..used : contents[k] = cells[k - 1]
    BY ArrayAssumption, LenProperties DEF ArrayInv, BlockInv, Enough, ContentsInv, InsertElems, ArrayCall, BeginCall
  <1>2. /\ ArrayCall /\ n <= MaxElems /\ at <= used /\ used' = n /\ cells' = Stored(moved, at, s)
        /\ allocs' = a /\ answer' = NoAnswer
        /\ contents' = SubSeq(contents, 1, at) \o s \o SubSeq(contents, at + 1, used)
    BY DEF InsertElems
  <1>3. n \in Nat /\ used <= n /\ at \in Nat /\ used - at \in Nat /\ at + Len(s) \in Nat
    <2>1. used \in Nat /\ Len(s) \in Nat /\ at <= used
      BY <1>1, <1>2
    <2>2. at \in Nat
      BY <2>1
    <2> HIDE DEF at
    <2> QED
      BY <2>1, <2>2
  <1> DEFINE l == Len(s)
  <1>4. n = used + l /\ l \in Nat
    BY <1>1
  <1> HIDE DEF n, a, at
  <1>5. Enough(a, n) /\ Block(Grown(n), a) /\ \A k \in 0..(allocs - 1) : Grown(n)[k] = cells[k]
    BY <1>1, <1>2, <1>3, GrownIs DEF a
  <1>6. a \in Nat /\ n <= a
    BY <1>5 DEF Enough
  <1>7. /\ old \in Seq(Int) /\ Len(old) = used - at
        /\ \A k \in 1..(used - at) : at + k <= a => old[k] = Grown(n)[at + k - 1]
    <2>1. IsTaken(old, Grown(n), a, at, used - at)
      BY <1>3, <1>5, <1>6, TakenIs
    <2> HIDE DEF old
    <2> QED
      BY <2>1 DEF IsTaken
  <1> HIDE DEF old
  <1>8. /\ Block(moved, a)
        /\ \A k \in 0..(a - 1) : moved[k] = IF at + l <= k /\ k < at + l + Len(old) THEN old[k - (at + l) + 1]
                                            ELSE Grown(n)[k]
    <2>1. at + l \in Nat
      BY <1>3
    <2>2. WithStored(moved, Grown(n), a, at + l, old)
      BY <1>5, <1>6, <1>7, <2>1, StoredIs
    <2> HIDE DEF moved, l
    <2> QED
      BY <2>2 DEF WithStored
  <1> HIDE DEF moved
  <1>9. /\ Block(Stored(moved, at, s), a)
        /\ \A k \in 0..(a - 1) : Stored(moved, at, s)[k] = IF at <= k /\ k < at + l THEN s[k - at + 1] ELSE moved[k]
    <2>1. WithStored(Stored(moved, at, s), moved, a, at, s)
      BY <1>1, <1>3, <1>6, <1>8, StoredIs
    <2> QED
      BY <2>1 DEF WithStored
  <1>10. /\ contents' \in Seq(Int) /\ Len(contents') = n
         /\ \A k \in 1..n : contents'[k] = IF k <= at THEN contents[k] ELSE IF k <= at + l THEN s[k - at]
                                           ELSE contents[k - l]
    <2> DEFINE r == SubSeq(contents, 1, at) \o s \o SubSeq(contents, at + 1, Len(contents))
    <2>1. IsInserted(r, contents, s, at, Len(contents) + Len(s))
      BY <1>1, <1>2, <1>3, InsertedIs
    <2>2. contents' = r /\ n = Len(contents) + Len(s)
      BY <1>1, <1>2, <1>4
    <2> HIDE DEF r
    <2> QED
      BY <2>1, <2>2 DEF IsInserted
  <1> HIDE DEF l
  <1>11. BlockInv'
    BY <1>2, <1>3, <1>5, <1>9, <1>10 DEF BlockInv
  <1>12. ASSUME NEW k \in 1..n PROVE contents'[k] = cells'[k - 1]
    <2>1. k - 1 \in 0..(a - 1) /\ k \in Nat
      BY <1>3, <1>6
    <2>2. CASE k <= at
      <3>1. k \in 1..used /\ k - 1 \in 0..(allocs - 1) /\ ~(at <= k - 1) /\ ~(at + l <= k - 1)
        BY <1>1, <1>2, <1>3, <1>4, <2>1, <2>2
      <3>2. cells'[k - 1] = moved[k - 1] /\ moved[k - 1] = Grown(n)[k - 1]
        BY <1>2, <1>8, <1>9, <2>1, <3>1
      <3> QED
        BY <1>1, <1>5, <1>10, <2>2, <3>1, <3>2
    <2>3. CASE ~(k <= at) /\ k <= at + l
      <3>1. at <= k - 1 /\ k - 1 < at + l /\ (k - 1) - at + 1 = k - at
        BY <1>3, <1>4, <2>1, <2>3
      <3> QED
        BY <1>2, <1>9, <1>10, <2>1, <2>3, <3>1
    <2>4. CASE ~(k <= at + l)
      <3> DEFINE j == k - 1 - (at + l) + 1
      <3>1. /\ at + l <= k - 1 /\ ~(k - 1 < at + l) /\ ~(k <= at)
            /\ j \in 1..(used - at) /\ at + j <= a /\ k - l \in 1..used
            /\ at + j - 1 = (k - l) - 1 /\ at + j - 1 \in 0..(allocs - 1) /\ k - 1 < at + l + (used - at)
        BY <1>1, <1>2, <1>3, <1>4, <1>6, <2>1, <2>4
      <3>2. cells'[k - 1] = moved[k - 1] /\ moved[k - 1] = old[k - 1 - (at + l) + 1]
        BY <1>2, <1>7, <1>8, <1>9, <2>1, <3>1
      <3> HIDE DEF j
      <3>3. old[j] = Grown(n)[at + j - 1] /\ Grown(n)[at + j - 1] = cells[at + j - 1]
        BY <1>5, <1>7, <3>1
      <3>4. contents'[k] = contents[k - l] /\ contents[k - l] = cells[(k - l) - 1]
        BY <1>1, <1>10, <2>4, <3>1
      <3>5. cells'[k - 1] = old[j]
        BY <3>2 DEF j
      <3> QED
        BY <3>1, <3>3, <3>4, <3>5
    <2> QED
      BY <2>2, <2>3, <2>4
  <1>13. AnswerIsRight'
    BY <1>2, NoAnswerIs DEF AnswerIsRight
  <1> QED
    BY <1>2, <1>11, <1>12, <1>13, NoAnswerIs, CallKeeps

\* array_delete keeps the invariant: the elements have moved before the block shrinks.
LEMMA DeleteKeeps ==
  ASSUME ArrayInv, NEW at \in 0..(used - 1), NEW n \in 1..used, DeleteElems(at, n)
  PROVE  ArrayInv'
  <1> DEFINE u == used - n
             a == Min({allocs, Needed(u)})
             rest == Taken(cells, at + n, used - (at + n))
             moved == Stored(cells, at, rest)
  <1>1. /\ BlockInv /\ used \in Nat /\ allocs \in Nat /\ used <= allocs /\ Block(cells, allocs) /\ used <= MaxElems
        /\ contents \in Seq(Int) /\ Len(contents) = used /\ \A k \in 1..used : contents[k] = cells[k - 1]
    BY DEF ArrayInv, BlockInv, Enough, ContentsInv, DeleteElems, ArrayCall, BeginCall
  <1>2. /\ ArrayCall /\ at + n <= used /\ used' = u /\ cells' = Shrunk(moved, u)
        /\ allocs' = a /\ answer' = NoAnswer
        /\ contents' = SubSeq(contents, 1, at) \o SubSeq(contents, at + n + 1, used)
    BY DEF DeleteElems, AfterDelete
  <1>3. /\ at \in Nat /\ n \in Nat /\ at + n \in Nat /\ used - (at + n) \in Nat /\ u \in Nat /\ u <= used
        /\ u <= MaxElems /\ at <= u /\ u = used - n
    BY <1>1, <1>2, ArrayAssumption
  <1> HIDE DEF u, a
  <1>4. /\ rest \in Seq(Int) /\ Len(rest) = used - (at + n)
        /\ \A k \in 1..(used - (at + n)) : at + n + k <= allocs => rest[k] = cells[at + n + k - 1]
    <2>1. IsTaken(rest, cells, allocs, at + n, used - (at + n))
      BY <1>1, <1>3, TakenIs
    <2> HIDE DEF rest
    <2> QED
      BY <2>1 DEF IsTaken
  <1> HIDE DEF rest
  <1>5. /\ Block(moved, allocs)
        /\ \A k \in 0..(allocs - 1) : moved[k] = IF at <= k /\ k < at + Len(rest) THEN rest[k - at + 1] ELSE cells[k]
    <2>1. WithStored(moved, cells, allocs, at, rest)
      BY <1>1, <1>3, <1>4, StoredIs
    <2> HIDE DEF moved
    <2> QED
      BY <2>1 DEF WithStored
  <1> HIDE DEF moved
  <1>6. /\ Enough(a, u) /\ Block(Shrunk(moved, u), a) /\ \A k \in 0..(u - 1) : Shrunk(moved, u)[k] = moved[k]
    <2>1. BlockInv /\ u \in Nat /\ u <= used /\ Block(moved, allocs)
      BY <1>1, <1>3, <1>5
    <2> QED
      BY <2>1, ShrunkIs DEF a
  <1>7. /\ contents' \in Seq(Int) /\ Len(contents') = u
        /\ \A k \in 1..u : contents'[k] = IF k <= at THEN contents[k] ELSE contents[k + n]
    <2> DEFINE s == SubSeq(contents, 1, at)
               t == SubSeq(contents, at + n + 1, used)
    <2>1. s \in Seq(Int) /\ Len(s) = at /\ \A k \in 1..at : s[k] = contents[k]
      <3>1. IsPart(s, contents, 0, at)
        BY <1>1, <1>3, FirstIs
      <3>2. at - 0 = at /\ \A k \in 1..at : 0 + k = k
        BY <1>3
      <3> HIDE DEF s
      <3> QED
        BY <3>1, <3>2 DEF IsPart
    <2>2. /\ t \in Seq(Int) /\ Len(t) = used - (at + n)
          /\ \A k \in 1..(used - (at + n)) : t[k] = contents[at + n + k]
      <3>1. at + n \in Nat /\ at + n <= used /\ used <= Len(contents) /\ contents \in Seq(Int) /\ used \in Nat
        BY <1>1, <1>2, <1>3
      <3>2. IsPart(t, contents, at + n, used)
        <4> DEFINE m == at + n
        <4> HIDE DEF m
        <4>1. IsPart(SubSeq(contents, m + 1, used), contents, m, used)
          BY <3>1, PartIs DEF m
        <4> QED
          BY <4>1 DEF m
      <3> HIDE DEF t
      <3> QED
        BY <3>2 DEF IsPart
    <2> HIDE DEF s, t
    <2>3. /\ s \o t \in Seq(Int) /\ Len(s \o t) = Len(s) + Len(t)
          /\ \A k \in 1..(Len(s) + Len(t)) : (s \o t)[k] = IF k <= Len(s) THEN s[k] ELSE t[k - Len(s)]
      BY <2>1, <2>2, BehindIs
    <2>4. contents' = s \o t /\ Len(s) + Len(t) = u
      BY <1>2, <1>3, <2>1, <2>2 DEF s, t
    <2>5. ASSUME NEW k \in 1..u PROVE contents'[k] = IF k <= at THEN contents[k] ELSE contents[k + n]
      <3>1. (s \o t)[k] = IF k <= at THEN s[k] ELSE t[k - at]
        BY <2>1, <2>3, <2>4
      <3>2. CASE k <= at
        BY <2>1, <2>4, <3>1, <3>2
      <3>3. CASE ~(k <= at)
        <4>1. k - at \in 1..(used - (at + n)) /\ at + n + (k - at) = k + n
          BY <1>1, <1>3, <3>3
        <4> QED
          BY <2>2, <2>4, <3>1, <3>3, <4>1
      <3> QED
        BY <3>2, <3>3
    <2> QED
      BY <2>3, <2>4, <2>5
  <1>8. BlockInv'
    BY <1>2, <1>3, <1>6, <1>7 DEF BlockInv
  <1>9. ASSUME NEW k \in 1..u PROVE contents'[k] = cells'[k - 1]
    <2>1. k - 1 \in 0..(u - 1) /\ k - 1 \in 0..(allocs - 1) /\ k \in Nat
      BY <1>1, <1>3
    <2>2. cells'[k - 1] = moved[k - 1]
      BY <1>2, <1>6, <2>1
    <2>3. CASE k <= at
      <3>1. ~(at <= k - 1) /\ k \in 1..used
        BY <1>1, <1>3, <2>1, <2>3
      <3> QED
        BY <1>1, <1>5, <1>7, <2>1, <2>2, <2>3, <3>1
    <2>4. CASE ~(k <= at)
      <3> DEFINE j == k - 1 - at + 1
      <3>1. /\ at <= k - 1 /\ k - 1 < at + (used - (at + n)) /\ j \in 1..(used - (at + n)) /\ at + n + j <= allocs
            /\ at + n + j - 1 = (k + n) - 1 /\ k + n \in 1..used
        BY <1>1, <1>3, <2>1, <2>4
      <3>2. moved[k - 1] = rest[k - 1 - at + 1]
        BY <1>4, <1>5, <2>1, <3>1
      <3>3. moved[k - 1] = rest[j]
        BY <3>2
      <3> HIDE DEF j
      <3>4. rest[j] = cells[at + n + j - 1]
        BY <1>4, <3>1
      <3>5. contents'[k] = contents[k + n] /\ contents[k + n] = cells[(k + n) - 1]
        BY <1>1, <1>7, <2>4, <3>1
      <3> QED
        BY <2>2, <3>1, <3>3, <3>4, <3>5
    <2> QED
      BY <2>3, <2>4
  <1>10. AnswerIsRight'
    BY <1>2, NoAnswerIs DEF AnswerIsRight
  <1> QED
    BY <1>2, <1>8, <1>9, <1>10, NoAnswerIs, CallKeeps

\* array_clear keeps the invariant.
LEMMA ClearKeeps ==
  ASSUME ArrayInv, ClearArray
  PROVE  ArrayInv'
  <1>1. /\ allocs \in Nat /\ Block(cells, allocs) /\ MaxElems \in Nat
        /\ MinAllocs \in Nat /\ MinAllocs * ElemSize \in Nat /\ MinAllocs * ElemSize < TwoTo[Width]
    BY ArrayAssumption DEF ArrayInv, BlockInv, Enough, MinAllocs
  <1>2. Block(cells', MinAllocs)
    <2>1. CASE allocs # MinAllocs
      BY <1>1, <2>1, NewBlockKeeps DEF ClearArray
    <2>2. CASE allocs = MinAllocs
      BY <1>1, <2>2 DEF ClearArray
    <2> QED
      BY <2>1, <2>2
  <1>3. Enough(MinAllocs, 0)
    BY <1>1 DEF Enough
  <1>4. <<>> \in Seq(Int) /\ Len(<<>>) = 0
    BY EmptySeq
  <1>5. BlockInv' /\ used' = 0
    BY <1>1, <1>2, <1>3, <1>4 DEF ClearArray, BlockInv
  <1>6. AnswerIsRight'
    BY NoAnswerIs DEF AnswerIsRight, ClearArray
  <1>7. \A k \in 1..used' : contents'[k] = cells'[k - 1]
    BY <1>5
  <1> QED
    BY <1>5, <1>6, <1>7, NoAnswerIs, CallKeeps DEF ClearArray

\* array_copy keeps the invariant.
LEMMA CopyKeeps ==
  ASSUME ArrayInv, CopyArray
  PROVE  ArrayInv'
  <1> DEFINE new == NewBlock(allocs, <<>>)
             s == Taken(cells, 0, used)
  <1>1. /\ BlockInv /\ used \in Nat /\ allocs \in Nat /\ used <= allocs /\ Block(cells, allocs) /\ Enough(allocs, used)
        /\ allocs * ElemSize \in Nat /\ allocs * ElemSize < TwoTo[Width]
        /\ contents \in Seq(Int) /\ Len(contents) = used /\ \A k \in 1..used : contents[k] = cells[k - 1]
    BY DEF ArrayInv, BlockInv, Enough, ContentsInv, CopyArray, ArrayCall, BeginCall
  <1>2. /\ ArrayCall /\ cells' = Stored(new, 0, s)
        /\ allocs' = allocs /\ used' = used /\ contents' = contents /\ answer' = answer
    BY DEF CopyArray
  <1>3. Block(new, allocs)
    <2>1. Block(<<>>, 0)
      BY DEF Block
    <2> QED
      BY <1>1, <2>1, NewBlockKeeps
  <1>4. s \in Seq(Int) /\ Len(s) = used /\ \A k \in 1..used : 0 + k <= allocs => s[k] = cells[0 + k - 1]
    <2>1. IsTaken(s, cells, allocs, 0, used)
      BY <1>1, TakenIs
    <2> HIDE DEF s
    <2> QED
      BY <2>1 DEF IsTaken
  <1> HIDE DEF new, s
  <1>5. /\ Block(Stored(new, 0, s), allocs)
        /\ \A k \in 0..(allocs - 1) : Stored(new, 0, s)[k] = IF 0 <= k /\ k < 0 + Len(s) THEN s[k - 0 + 1] ELSE new[k]
    <2>1. WithStored(Stored(new, 0, s), new, allocs, 0, s)
      BY <1>1, <1>3, <1>4, StoredIs
    <2> QED
      BY <2>1 DEF WithStored
  <1>6. BlockInv'
    BY <1>1, <1>2, <1>5 DEF BlockInv
  <1>7. ASSUME NEW k \in 1..used PROVE cells'[k - 1] = cells[k - 1]
    <2>1. k - 1 \in 0..(allocs - 1) /\ 0 <= k - 1 /\ k - 1 < 0 + used /\ k - 1 - 0 + 1 = k /\ 0 + k <= allocs /\ 0 + k - 1 = k - 1
      BY <1>1
    <2>2. cells'[k - 1] = s[k]
      BY <1>2, <1>4, <1>5, <2>1
    <2> QED
      BY <1>4, <2>1, <2>2
  <1>8. answer' \in [known : BOOLEAN, key : Int, found : BOOLEAN, pos : Int]
    BY <1>2 DEF ArrayInv, CallsType
  <1>9. AnswerIsRight'
    BY <1>2 DEF AnswerIsRight, ArrayInv
  <1> QED
    BY <1>1, <1>2, <1>6, <1>7, <1>8, <1>9, CallKeeps

-----------------------------------------------------------------------------
(* The sort: its parts.                                                    *)

\* One of the first elements is the least of them.
LEMMA LeastIndex ==
  ASSUME NEW n \in Nat, NEW a, \A k \in 0..n : a[k] \in Int
  PROVE  \E k \in 0..n : \A m \in 0..n : a[k] <= a[m]
  <1> DEFINE T == {d \in Nat : d <= n => \E k \in 0..d : \A m \in 0..d : a[k] <= a[m]}
  <1>1. ASSUME NEW d \in Nat, \A j \in Nat : j < d => j \in T PROVE d \in T
    <2> SUFFICES ASSUME d <= n PROVE \E k \in 0..d : \A m \in 0..d : a[k] <= a[m]
      OBVIOUS
    <2>1. CASE d = 0
      BY <2>1
    <2>2. CASE d # 0
      <3>1. d - 1 \in Nat /\ d - 1 < d /\ d - 1 <= n
        BY <2>2
      <3>2. PICK k \in 0..(d - 1) : \A m \in 0..(d - 1) : a[k] <= a[m]
        BY <1>1, <3>1
      <3>3. \A m \in 0..d : m = d \/ m \in 0..(d - 1)
        BY <3>1
      <3>4. a[k] \in Int /\ a[d] \in Int /\ k \in 0..d /\ \A m \in 0..d : a[m] \in Int
        BY <3>1
      <3>5. CASE a[k] <= a[d]
        BY <3>2, <3>3, <3>4, <3>5
      <3>6. CASE a[d] < a[k]
        <4>1. \A m \in 0..d : a[d] <= a[m]
          BY <3>2, <3>3, <3>4, <3>6
        <4> QED
          BY <4>1
      <3> QED
        BY <3>4, <3>5, <3>6
    <2> QED
      BY <2>1, <2>2
  <1> HIDE DEF T
  <1>2. T \in SUBSET Nat
    BY DEF T
  <1>3. T = Nat
    BY <1>1, <1>2, EachNat
  <1> QED
    BY <1>3 DEF T

\* When no part is left the least element is among the first few.
LEMMA LeastInFront ==
  ASSUME NEW n \in Nat, NEW size \in Nat, n <= size, NEW a, Block(a, size), NEW parts,
         NEW e \in 0..(n - 1), Front(a, parts, 0, e, n)
  PROVE  \E k \in 0..(n - 1) : k <= MaxThresh /\ \A m \in 0..(n - 1) : a[k] <= a[m]
  <1>1. e <= MaxThresh /\ Small(a, e, n) /\ e \in Nat
    BY DEF Front
  <1>2. \A k \in 0..(n - 1) : a[k] \in Int
    BY DEF Block
  <1>3. \A k \in 0..e : a[k] \in Int
    BY <1>1, <1>2
  <1>4. PICK k \in 0..e : \A m \in 0..e : a[k] <= a[m]
    BY <1>1, <1>3, LeastIndex
  <1>5. \A m \in 0..(n - 1) : m \in 0..e \/ m \in (e + 1)..(n - 1)
    BY <1>1
  <1>6. \A m \in 0..(n - 1) : a[k] <= a[m]
    BY <1>1, <1>4, <1>5 DEF Small
  <1>7. k \in 0..(n - 1) /\ k <= MaxThresh
    BY <1>1 DEF MaxThresh
  <1> QED
    BY <1>6, <1>7

\* The whole array is the first part.
LEMMA WholeFront ==
  ASSUME NEW n \in Nat \ {0}, NEW a, NEW parts, NEW top \in {0, 1},
         top = 0 => n - 1 <= MaxThresh, top = 1 => parts[1].lo = 0 /\ parts[1].hi = n - 1
  PROVE  Front(a, parts, top, n - 1, n)
  <1>1. Small(a, n - 1, n)
    BY DEF Small
  <1>2. CASE top = 0
    <2>1. \A j \in 1..top : FALSE
      BY <1>2
    <2> QED
      BY <1>1, <1>2, <2>1 DEF Front
  <1>3. CASE top = 1
    <2>1. 1 \in 1..top /\ \A j \in 1..top : j = 1
      BY <1>3
    <2> QED
      BY <1>1, <1>3, <2>1 DEF Front
  <1> QED
    BY <1>2, <1>3

\* To move elements of one part leaves the first ones the least.
LEMMA FrontKept ==
  ASSUME NEW n \in Nat, NEW a, NEW b, NEW parts, NEW top \in Nat \ {0}, NEW e \in 0..(n - 1),
         Front(a, parts, top, e, n), parts[top] \in [lo : Int, hi : Int],
         Shuffled(a, b, parts[top].lo, parts[top].hi, n)
  PROVE  Front(b, parts, top, e, n)
  <1>1. top \in 1..top /\ parts[top].lo \in Int /\ parts[top].hi \in Int /\ e \in Nat /\ e < n
    OBVIOUS
  <1>2. parts[top].hi <= e \/ parts[top].lo > e
    BY <1>1 DEF Front
  <1>3. Small(b, e, n)
    BY <1>1, <1>2, SmallKept DEF Front
  <1> QED
    BY <1>3 DEF Front

HasFront(a, parts, top, n) == \E e \in 0..(n - 1) : Front(a, parts, top, e, n)

\* The elements of a block are numbers.
LEMMA BlockOfInts ==
  ASSUME NEW n \in Nat, NEW size \in Nat, n <= size, NEW a, Block(a, size)
  PROVE  \A m \in 0..(n - 1) : a[m] \in Int
  BY DEF Block

\* The part in hand, at the top of the stack, is divided into one that goes to the index one
\* of the new stack, or is small, and one on its right.
DividesFront(a, size, n, parts, top, e, left, right, k, new, high, one) ==
    /\ n \in Nat /\ size \in Nat /\ n <= size /\ Block(a, size)
    /\ top \in Nat \ {0} /\ e \in 0..(n - 1) /\ Front(a, parts, top, e, n)
    /\ \A j \in 1..top : parts[j] \in [lo : Int, hi : Int]
    /\ left \in Int /\ right \in Int /\ k \in 0..(n - 1)
    /\ 0 <= parts[top].lo /\ parts[top].hi < n
    /\ parts[top].lo <= right /\ right < left /\ left <= parts[top].hi
    /\ Walls(a, parts[top].lo, left, right, parts[top].hi, a[k])
    /\ high \in Nat /\ top - 1 <= high /\ \A j \in 1..(top - 1) : new[j] = parts[j]
    /\ one \in top..(high + 1)
    /\ one <= high => new[one].lo = parts[top].lo /\ new[one].hi = right
    /\ one > high => right - parts[top].lo <= MaxThresh
    /\ \A j \in top..high : j # one => new[j].lo = left

\* The part divided gives way to those it is divided into, of which the first is left out
\* only if it is small.
LEMMA FrontDivided ==
  ASSUME NEW n, NEW a, NEW size, NEW parts, NEW top, NEW e, NEW left, NEW right, NEW k, NEW new, NEW high, NEW one,
         DividesFront(a, size, n, parts, top, e, left, right, k, new, high, one)
  PROVE  HasFront(a, new, high, n)
  <1>0. /\ n \in Nat /\ size \in Nat /\ n <= size /\ Block(a, size) /\ top \in Nat \ {0} /\ e \in 0..(n - 1)
        /\ Front(a, parts, top, e, n) /\ \A j \in 1..top : parts[j] \in [lo : Int, hi : Int]
        /\ left \in Int /\ right \in Int /\ k \in 0..(n - 1)
        /\ 0 <= parts[top].lo /\ parts[top].hi < n
        /\ parts[top].lo <= right /\ right < left /\ left <= parts[top].hi
        /\ Walls(a, parts[top].lo, left, right, parts[top].hi, a[k])
        /\ high \in Nat /\ top - 1 <= high /\ \A j \in 1..(top - 1) : new[j] = parts[j]
        /\ one \in top..(high + 1)
        /\ one <= high => new[one].lo = parts[top].lo /\ new[one].hi = right
        /\ one > high => right - parts[top].lo <= MaxThresh
        /\ \A j \in top..high : j # one => new[j].lo = left
    BY DEF DividesFront
  <1> USE <1>0
  <1> DEFINE lo == parts[top].lo
             hi == parts[top].hi
             f == IF lo = 0 THEN right ELSE e
  <1>1. top \in 1..top /\ lo \in Int /\ hi \in Int /\ e \in Nat /\ right \in 0..(n - 1)
    OBVIOUS
  <1>2. /\ Small(a, e, n) /\ (lo > e \/ (lo = 0 /\ hi = e))
        /\ \A j \in 1..top : parts[j].lo > e \/ (parts[j].lo = 0 /\ parts[j].hi = e)
        /\ \A i, j \in 1..top : parts[i].lo = 0 /\ parts[j].lo = 0 => i = j
        /\ e <= MaxThresh \/ \E j \in 1..top : parts[j].lo = 0
    BY <1>1 DEF Front
  <1>3. \A m \in 0..(n - 1) : a[m] \in Int
    BY BlockOfInts
  <1>4. Small(a, f, n) /\ f \in 0..(n - 1) /\ f <= e
    <2>1. CASE lo = 0
      <3>1. hi = e /\ f = right /\ right < e
        BY <1>1, <1>2, <2>1
      <3>2. ASSUME NEW i \in 0..right, NEW m \in (right + 1)..(n - 1) PROVE a[i] <= a[m]
        <4>1. a[i] \in Int /\ a[m] \in Int /\ a[k] \in Int
          BY <1>1, <1>3, <3>2
        <4>2. i \in lo..(left - 1)
          BY <2>1, <3>2
        <4>3. a[i] <= a[k]
          BY <4>2 DEF Walls
        <4>4. CASE m <= hi
          <5>1. m \in (right + 1)..hi
            BY <1>1, <4>4
          <5>2. a[k] <= a[m]
            BY <5>1 DEF Walls
          <5> QED
            BY <4>1, <4>3, <5>2
        <4>5. CASE m > hi
          <5>1. i \in 0..e /\ m \in (e + 1)..(n - 1)
            BY <1>1, <3>1, <4>5
          <5> QED
            BY <1>2, <5>1 DEF Small
        <4> QED
          BY <1>1, <4>4, <4>5
      <3>3. Small(a, right, n)
        BY <3>2 DEF Small
      <3>4. right \in 0..(n - 1) /\ right <= e
        BY <1>1, <3>1
      <3> HIDE DEF f
      <3> QED
        BY <3>1, <3>3, <3>4
    <2>2. CASE lo # 0
      BY <1>1, <1>2, <2>2
    <2> QED
      BY <2>1, <2>2
  <1>5. f \in Int /\ (lo # 0 => lo > f) /\ (lo = 0 => f = right /\ hi = e)
    BY <1>1, <1>2, <1>4
  <1> HIDE DEF f
  <1>6. \A j \in 1..(top - 1) : /\ parts[j] \in [lo : Int, hi : Int] /\ j \in 1..top /\ j # top
                                /\ parts[j].lo \in Int
    OBVIOUS
  <1>7. ASSUME NEW j \in 1..(top - 1)
        PROVE  new[j].lo > f \/ (new[j].lo = 0 /\ new[j].hi = f /\ lo # 0)
    <2>1. new[j] = parts[j] /\ j \in 1..top /\ j # top /\ parts[j].lo \in Int
      BY <1>6
    <2>2. CASE parts[j].lo > e
      BY <1>1, <1>4, <1>5, <2>1, <2>2
    <2>3. CASE parts[j].lo = 0 /\ parts[j].hi = e
      <3>1. lo # 0
        BY <1>1, <1>2, <2>1, <2>3
      <3>2. f = e
        BY <3>1 DEF f
      <3> QED
        BY <2>1, <2>3, <3>1, <3>2
    <2> QED
      BY <1>2, <2>1, <2>2, <2>3
  <1>8. ASSUME NEW j \in top..high
        PROVE  new[j].lo > f \/ (new[j].lo = 0 /\ new[j].hi = f /\ lo = 0 /\ j = one)
    <2>1. CASE j = one
      <3>1. new[j].lo = lo /\ new[j].hi = right
        BY <2>1
      <3> QED
        BY <1>1, <1>5, <2>1, <3>1
    <2>2. CASE j # one
      <3>1. new[j].lo = left
        BY <2>2
      <3>2. left > f
        BY <1>1, <1>5
      <3> QED
        BY <3>1, <3>2
    <2> QED
      BY <2>1, <2>2
  <1>9. \A j \in 1..high : j \in 1..(top - 1) \/ j \in top..high
    OBVIOUS
  <1>10. \A j \in 1..high : new[j].lo > f \/ (new[j].lo = 0 /\ new[j].hi = f)
    BY <1>7, <1>8, <1>9
  <1>11. 0 <= f
    BY <1>4
  <1>12. ASSUME NEW i \in 1..high, NEW j \in 1..high, new[i].lo = 0, new[j].lo = 0 PROVE i = j
    <2>1. ~(0 > f)
      BY <1>4, <1>5
    <2>2. CASE lo = 0
      BY <1>7, <1>8, <1>9, <1>12, <2>1, <2>2
    <2>3. CASE lo # 0
      <3>1. i \in 1..(top - 1) /\ j \in 1..(top - 1)
        BY <1>8, <1>9, <1>12, <2>1, <2>3
      <3> QED
        BY <1>2, <1>6, <1>12, <3>1
    <2> QED
      BY <2>2, <2>3
  <1>13. f <= MaxThresh \/ \E j \in 1..high : new[j].lo = 0
    <2>1. CASE lo = 0
      <3>1. CASE one <= high
        <4>1. one \in 1..high /\ new[one].lo = 0
          BY <2>1, <3>1
        <4> QED
          BY <4>1
      <3>2. CASE one > high
        BY <1>5, <2>1, <3>2
      <3> QED
        BY <3>1, <3>2
    <2>2. CASE lo # 0
      <3>1. f = e
        BY <2>2 DEF f
      <3>2. CASE \E j \in 1..top : parts[j].lo = 0
        <4>1. PICK j \in 1..top : parts[j].lo = 0
          BY <3>2
        <4>2. j \in 1..(top - 1) /\ j \in 1..high
          BY <2>2, <4>1
        <4> QED
          BY <4>1, <4>2
      <3> QED
        BY <1>2, <3>1, <3>2
    <2> QED
      BY <2>1, <2>2
  <1> QED
    BY <1>4, <1>10, <1>12, <1>13 DEF Front, HasFront

-----------------------------------------------------------------------------
(* The sort: its walls.                                                    *)

\* Where the two scans would stop.
ScanUp(a, left, n, p) == {k \in left..(n - 1) : ~(a[k] < p)}
ScanDown(a, right, p) == {k \in 0..right : ~(p < a[k])}

\* The part from lo to hi, with the pivot at mid, before a turn of the walls.
BetweenWalls(a, size, n, lo, hi, left, right, mid) ==
    /\ n \in Nat /\ size \in Nat /\ n <= size /\ Block(a, size)
    /\ lo \in Nat /\ hi \in Int /\ hi < n /\ left \in Int /\ right \in Int /\ mid \in Int
    /\ lo < left /\ left <= right /\ right < hi /\ lo <= mid /\ mid <= hi
    /\ Walls(a, lo, left, right, hi, a[mid])

\* The same when both scans have stopped and not met.
AtWalls(a, size, n, lo, hi, l, r, mid) ==
    /\ n \in Nat /\ size \in Nat /\ n <= size /\ Block(a, size)
    /\ lo \in Nat /\ hi \in Int /\ hi < n /\ l \in Int /\ r \in Int /\ mid \in Int
    /\ lo <= l /\ l < r /\ r <= hi /\ lo <= mid /\ mid <= hi
    /\ Walls(a, lo, l, r, hi, a[mid]) /\ a[mid] <= a[l] /\ a[r] <= a[mid]

\* They meet what stops them within the part.
LEMMA ScansStop ==
  ASSUME NEW n, NEW size, NEW a, NEW lo, NEW hi, NEW left, NEW right, NEW mid,
         BetweenWalls(a, size, n, lo, hi, left, right, mid)
  PROVE  LET l == Min(ScanUp(a, left, n, a[mid]))
             r == Max(ScanDown(a, right, a[mid]))
         IN  /\ l \in Int /\ r \in Int /\ left <= l /\ l <= right + 1 /\ left - 1 <= r /\ r <= right
             /\ a[mid] <= a[l] /\ a[r] <= a[mid]
             /\ Walls(a, lo, l, r, hi, a[mid])
  <1> DEFINE S == ScanUp(a, left, n, a[mid])
             T == ScanDown(a, right, a[mid])
             l == Min(S)
             r == Max(T)
             p == a[mid]
  <1>0. /\ n \in Nat /\ size \in Nat /\ n <= size /\ Block(a, size)
        /\ lo \in Nat /\ hi \in Int /\ hi < n /\ left \in Int /\ right \in Int /\ mid \in Int
        /\ lo < left /\ left <= right /\ right < hi /\ lo <= mid /\ mid <= hi /\ Walls(a, lo, left, right, hi, a[mid])
    BY DEF BetweenWalls
  <1> USE <1>0
  <1>s. S = {k \in left..(n - 1) : ~(a[k] < p)} /\ T = {k \in 0..right : ~(p < a[k])}
    BY DEF ScanUp, ScanDown
  <1>1. \A k \in 0..(n - 1) : a[k] \in Int
    BY DEF Block
  <1>2. p \in Int /\ mid \in 0..(n - 1)
    BY <1>1
  <1>3. right + 1 \in S
    <2>1. right + 1 \in (right + 1)..hi /\ right + 1 \in 0..(n - 1)
      OBVIOUS
    <2>2. p <= a[right + 1]
      BY <2>1 DEF Walls
    <2> QED
      BY <1>s, <1>1, <1>2, <2>1, <2>2
  <1>4. left - 1 \in T
    <2>1. left - 1 \in lo..(left - 1) /\ left - 1 \in 0..(n - 1) /\ left - 1 \in 0..right
      OBVIOUS
    <2>2. a[left - 1] <= p
      BY <2>1 DEF Walls
    <2> QED
      BY <1>s, <1>1, <1>2, <2>1, <2>2
  <1> HIDE DEF S, T
  <1>5. S \in SUBSET Nat /\ T \in SUBSET (0..right)
    BY <1>s
  <1>6. l \in S /\ \A k \in S : l <= k
    BY <1>3, <1>5, LeastOf
  <1>7. r \in T /\ \A k \in T : k <= r
    BY <1>4, <1>5, GreatestOf
  <1> HIDE DEF l, r
  <1>8. l \in Int /\ r \in Int /\ left <= l /\ l <= right + 1 /\ left - 1 <= r /\ r <= right /\ l \in 0..(n - 1) /\ r \in 0..(n - 1)
    BY <1>s, <1>3, <1>4, <1>6, <1>7
  <1>9. p <= a[l] /\ a[r] <= p
    BY <1>s, <1>1, <1>2, <1>6, <1>7, <1>8
  <1>10. ASSUME NEW k \in lo..(l - 1) PROVE a[k] <= p
    <2>1. k \in 0..(n - 1) /\ a[k] \in Int
      BY <1>1, <1>8
    <2>2. CASE k < left
      <3>1. k \in lo..(left - 1)
        BY <2>2
      <3> QED
        BY <3>1 DEF Walls
    <2>3. CASE left <= k
      <3>1. k \in left..(n - 1) /\ ~(l <= k)
        BY <1>8, <2>1, <2>3
      <3>2. k \notin S
        BY <1>6, <3>1
      <3> QED
        BY <1>s, <1>2, <2>1, <3>1, <3>2
    <2> QED
      BY <2>1, <2>2, <2>3
  <1>11. ASSUME NEW k \in (r + 1)..hi PROVE p <= a[k]
    <2>1. k \in 0..(n - 1) /\ a[k] \in Int
      BY <1>1, <1>8
    <2>2. CASE right < k
      <3>1. k \in (right + 1)..hi
        BY <2>2
      <3> QED
        BY <3>1 DEF Walls
    <2>3. CASE k <= right
      <3>1. k \in 0..right /\ ~(k <= r)
        BY <1>8, <2>1, <2>3
      <3>2. k \notin T
        BY <1>7, <3>1
      <3> QED
        BY <1>s, <1>2, <2>1, <3>1, <3>2
    <2> QED
      BY <2>1, <2>2, <2>3
  <1>12. Walls(a, lo, l, r, hi, p)
    BY <1>10, <1>11 DEF Walls
  <1> QED
    BY <1>8, <1>9, <1>12 DEF l, r, S, T

\* When they meet at an element it is on both sides.
LEMMA WallsMeet ==
  ASSUME NEW lo \in Int, NEW hi \in Int, NEW l \in Int, NEW a, NEW p \in Int, a[l] \in Int,
         a[l] <= p, p <= a[l], Walls(a, lo, l, l, hi, p)
  PROVE  Walls(a, lo, l + 1, l - 1, hi, p)
  <1>1. \A k \in lo..((l + 1) - 1) : k = l \/ k \in lo..(l - 1)
    OBVIOUS
  <1>2. \A k \in ((l - 1) + 1)..hi : k = l \/ k \in (l + 1)..hi
    OBVIOUS
  <1> QED
    BY <1>1, <1>2 DEF Walls

\* When they do not meet their elements change places.
LEMMA WallsSwap ==
  ASSUME NEW n, NEW size, NEW a, NEW lo, NEW hi, NEW l, NEW r, NEW mid, AtWalls(a, size, n, lo, hi, l, r, mid)
  PROVE  LET b == Swapped(a, l, r)
             m == IF mid = l THEN r ELSE IF mid = r THEN l ELSE mid
         IN  /\ Block(b, size) /\ Shuffled(a, b, lo, hi, n) /\ lo <= m /\ m <= hi /\ m \in Int
             /\ Walls(b, lo, l + 1, r - 1, hi, b[m])
  <1> DEFINE b == Swapped(a, l, r)
             m == IF mid = l THEN r ELSE IF mid = r THEN l ELSE mid
  <1>0. /\ n \in Nat /\ size \in Nat /\ n <= size /\ Block(a, size)
        /\ lo \in Nat /\ hi \in Int /\ hi < n /\ l \in Int /\ r \in Int /\ mid \in Int
        /\ lo <= l /\ l < r /\ r <= hi /\ lo <= mid /\ mid <= hi /\ Walls(a, lo, l, r, hi, a[mid])
        /\ a[mid] <= a[l] /\ a[r] <= a[mid]
    BY DEF AtWalls
  <1> USE <1>0
  <1>1. l \in Nat /\ r \in Nat /\ l <= hi /\ lo <= r /\ \A k \in lo..hi : k \in 0..(size - 1) /\ k \in Int
    OBVIOUS
  <1>2. /\ Block(b, size) /\ Shuffled(a, b, lo, hi, n) /\ b[l] = a[r] /\ b[r] = a[l]
        /\ \A k \in 0..(size - 1) : k # l /\ k # r => b[k] = a[k]
    BY <1>1, SwapShuffles
  <1> HIDE DEF b
  <1>3. lo <= m /\ m <= hi /\ m \in Int
    BY <1>1
  <1>4. b[m] = a[mid]
    <2>1. mid \in 0..(size - 1)
      OBVIOUS
    <2> QED
      BY <1>2, <2>1
  <1>5. ASSUME NEW k \in lo..((l + 1) - 1) PROVE b[k] <= a[mid]
    <2>1. CASE k = l
      BY <1>2, <2>1
    <2>2. CASE k # l
      <3>1. k \in lo..(l - 1) /\ k # r /\ k \in 0..(size - 1)
        BY <2>2
      <3> QED
        BY <1>2, <2>2, <3>1 DEF Walls
    <2> QED
      BY <2>1, <2>2
  <1>6. ASSUME NEW k \in ((r - 1) + 1)..hi PROVE a[mid] <= b[k]
    <2>1. CASE k = r
      BY <1>2, <2>1
    <2>2. CASE k # r
      <3>1. k \in (r + 1)..hi /\ k # l /\ k \in 0..(size - 1)
        BY <2>2
      <3> QED
        BY <1>2, <2>2, <3>1 DEF Walls
    <2> QED
      BY <2>1, <2>2
  <1>7. Walls(b, lo, l + 1, r - 1, hi, b[m])
    <2>1. \A k \in lo..((l + 1) - 1) : b[k] <= b[m]
      BY <1>4, <1>5
    <2>2. \A k \in ((r - 1) + 1)..hi : b[m] <= b[k]
      BY <1>4, <1>6
    <2> HIDE DEF m
    <2> QED
      BY <2>1, <2>2 DEF Walls
  <1> QED
    BY <1>2, <1>3, <1>7 DEF b

-----------------------------------------------------------------------------
(* The sort: its steps.                                                    *)

\* What a step of the sort has to keep: the elements, the parts, the walls and the front.
LEMMA SortKeeps ==
  ASSUME ArrayInv, NEW at, at # "idle", SortStep(at), cells' = cells \/ Block(cells', allocs),
         contents' \in Seq(Int), Len(contents') = used, sort' \in Sorts, stack' \in Stacks,
         ContentsInv', PartsInv', WallsInv', FrontInv'
  PROVE  ArrayInv'
  <1>1. /\ sort.at = at /\ search.at = "idle" /\ ~answer.known /\ search' = search /\ answer' = answer
        /\ allocs' = allocs /\ used' = used
    BY DEF ArrayInv, CallsType, SortStep
  <1>2. BlockInv'
    BY <1>1 DEF ArrayInv, BlockInv
  <1>3. CallsType'
    BY <1>1 DEF ArrayInv, CallsType
  <1>4. SearchInv' /\ AnswerIsRight'
    BY <1>1 DEF SearchInv, AnswerIsRight
  <1> QED
    BY <1>2, <1>3, <1>4 DEF ArrayInv

\* What the steps need of the invariant.
LEMMA SortFacts ==
  ASSUME ArrayInv
  PROVE  /\ used \in Nat /\ allocs \in Nat /\ used <= allocs /\ Block(cells, allocs)
         /\ contents \in Seq(Int) /\ Len(contents) = used
         /\ sort \in Sorts /\ stack \in Stacks
         /\ sort.at # "idle" => used > 0 /\ Arranged(contents, cells)
         /\ \A k \in Indices : cells[k] \in Int
  <1>1. /\ used \in Nat /\ allocs \in Nat /\ used <= allocs /\ Block(cells, allocs)
        /\ contents \in Seq(Int) /\ Len(contents) = used
        /\ sort \in Sorts /\ stack \in Stacks
        /\ sort.at # "idle" => used > 0 /\ Arranged(contents, cells)
    BY DEF ArrayInv, BlockInv, Enough, CallsType, ContentsInv
  <1>2. \A k \in Indices : cells[k] \in Int
    BY <1>1 DEF Block, Indices
  <1> QED
    BY <1>1, <1>2

\* The record of the sort after a step in its part.
Moved(s, at, mid, left, right) == [s EXCEPT !.at = at, !.mid = mid, !.left = left, !.right = right]

\* The pointers of a sort at its next place.
LEMMA SortMoves ==
  ASSUME NEW s \in Sorts, NEW at \in Places, NEW mid \in Int, NEW left \in Int, NEW right \in Int
  PROVE  LET t == Moved(s, at, mid, left, right) IN
         /\ t \in Sorts /\ t.at = at /\ t.mid = mid /\ t.left = left /\ t.right = right
         /\ t.lo = s.lo /\ t.hi = s.hi /\ t.top = s.top
  BY DEF Sorts, Moved

\* The empty stack, and no sort.
LEMMA StacksAre ==
  EmptyStack \in Stacks /\ NoSort \in Sorts /\ NoSort.top = 0 /\ NoSort.at = "idle"
  BY DEF EmptyStack, Stacks, NoSort, Sorts, Places

\* The part in hand.
LEMMA PartInHand ==
  ASSUME ArrayInv, Sorting
  PROVE  /\ sort.top \in Nat \ {0} /\ sort.top <= Width /\ sort.top \in 1..sort.top
         /\ Parts[sort.top] = [lo |-> sort.lo, hi |-> sort.hi]
         /\ sort.lo \in Nat /\ sort.hi \in Int /\ sort.hi < used /\ MaxThresh <= sort.hi - sort.lo
         /\ \A j \in 1..sort.top : PartOK(Parts[j], j - 1, used) /\ Parts[j] \in [lo : Int, hi : Int]
         /\ \E e \in Indices : Front(cells, Parts, sort.top, e, used)
  <1>1. /\ 1 <= sort.top /\ sort.top <= Width /\ sort \in Sorts
        /\ \A j \in 1..sort.top : PartOK(Parts[j], j - 1, used)
        /\ \E e \in Indices : Front(cells, Parts, sort.top, e, used)
    BY DEF ArrayInv, PartsInv, CallsType
  <1>2. sort.top \in Nat \ {0} /\ sort.top \in 1..sort.top /\ sort.lo \in Int /\ sort.hi \in Int
    BY <1>1 DEF Sorts
  <1>3. Parts[sort.top] = [lo |-> sort.lo, hi |-> sort.hi]
    BY <1>2 DEF Parts
  <1>4. 0 <= sort.lo /\ sort.hi < used /\ MaxThresh <= sort.hi - sort.lo
    BY <1>1, <1>2, <1>3 DEF PartOK
  <1>5. \A j \in 1..sort.top : Parts[j] \in [lo : Int, hi : Int]
    BY <1>1 DEF PartOK
  <1> QED
    BY <1>1, <1>2, <1>3, <1>4, <1>5

\* A sort begins with one part, the whole array, or at its insertions.
LEMMA SortBegins ==
  ASSUME ArrayInv, SortArray
  PROVE  ArrayInv'
  <1>1. /\ used \in Nat /\ allocs \in Nat /\ used <= allocs /\ Block(cells, allocs)
        /\ contents \in Seq(Int) /\ Len(contents) = used
    BY SortFacts
  <1>2. /\ sort.at = "idle" /\ search.at = "idle" /\ cells' = cells /\ allocs' = allocs /\ used' = used
        /\ search' = search /\ contents' = contents /\ stack' = EmptyStack /\ answer' = NoAnswer
        /\ \A k \in 1..used : contents[k] = cells[k - 1]
    BY DEF SortArray, BeginCall, ArrayInv, ContentsInv
  <1>3. BlockInv'
    BY <1>2 DEF ArrayInv, BlockInv
  <1>4. AnswerIsRight' /\ answer' \in [known : BOOLEAN, key : Int, found : BOOLEAN, pos : Int] /\ ~answer'.known
    BY <1>2, NoAnswerIs DEF AnswerIsRight
  <1>5. SearchInv'
    BY <1>2 DEF SearchInv
  <1>6. sort' \in Sorts => CallsType'
    BY <1>2, <1>4, StacksAre DEF ArrayInv, CallsType
  <1>7. Arranged(contents', cells')
    BY <1>1, <1>2, ArrangedSelf
  <1>8. CASE used = 0
    <2>1. sort' = NoSort
      BY <1>8 DEF SortArray
    <2>2. ContentsInv' /\ PartsInv' /\ WallsInv' /\ FrontInv' /\ sort' \in Sorts
      BY <1>2, <2>1, StacksAre DEF ContentsInv, PartsInv, Sorting, WallsInv, FrontInv
    <2> QED
      BY <1>3, <1>4, <1>5, <1>6, <2>2 DEF ArrayInv
  <1>9. CASE used # 0 /\ used <= MaxThresh
    <2>1. sort' = [NoSort EXCEPT !.at = "least"]
      BY <1>9 DEF SortArray
    <2>2. sort'.at = "least" /\ sort'.top = 0 /\ sort' \in Sorts
      BY <2>1 DEF NoSort, Sorts, Places
    <2>3. PartsInv' /\ WallsInv' /\ ContentsInv'
      BY <1>1, <1>2, <1>7, <1>9, <2>2 DEF ContentsInv, PartsInv, Sorting, WallsInv
    <2>4. \E k \in 0..(used - 1) : k <= MaxThresh /\ \A m \in 0..(used - 1) : cells[k] <= cells[m]
      <3>1. Front(cells, <<>>, 0, used - 1, used)
        BY <1>1, <1>9, WholeFront DEF MaxThresh
      <3>2. used - 1 \in 0..(used - 1)
        BY <1>1, <1>9
      <3> QED
        BY <1>1, <3>1, <3>2, LeastInFront
    <2>5. FrontInv'
      BY <1>2, <2>2, <2>4 DEF FrontInv, Indices
    <2> QED
      BY <1>3, <1>4, <1>5, <1>6, <2>2, <2>3, <2>5 DEF ArrayInv
  <1>10. CASE used # 0 /\ ~(used <= MaxThresh)
    <2>1. sort' = [NoSort EXCEPT !.at = "median", !.hi = used - 1, !.top = 1]
      BY <1>10 DEF SortArray
    <2>2. sort'.at = "median" /\ sort'.top = 1 /\ sort'.lo = 0 /\ sort'.hi = used - 1 /\ sort' \in Sorts
      <3> DEFINE last == used - 1
      <3>0. last \in Int
        BY <1>1
      <3>1. sort' = [NoSort EXCEPT !.at = "median", !.hi = last, !.top = 1]
        BY <1>1, <2>1
      <3> HIDE DEF last
      <3>2. sort' = [at |-> "median", lo |-> 0, hi |-> last, mid |-> 0, left |-> 0, right |-> 0, run |-> 0, top |-> 1]
        BY <3>1 DEF NoSort
      <3>3. sort'.at = "median" /\ sort'.top = 1 /\ sort'.lo = 0 /\ sort'.hi = last /\ sort' \in Sorts
        BY <3>0, <3>2 DEF Sorts, Places
      <3> QED
        BY <3>3 DEF last
    <2>3. WallsInv' /\ ContentsInv' /\ FrontInv'
      BY <1>1, <1>2, <1>7, <1>10, <2>2 DEF ContentsInv, WallsInv, FrontInv
    <2>4. Parts'[1] = [lo |-> 0, hi |-> used - 1] /\ \A j \in 1..1 : j = 1
      BY <2>2 DEF Parts
    <2> DEFINE parts == Parts'
    <2>5. PartOK(parts[1], 0, used)
      <3>1. used > MaxThresh
        BY <1>1, <1>10 DEF MaxThresh
      <3> QED
        BY <1>1, <2>4, <3>1, TwoToDef DEF PartOK, MaxThresh
    <2>6. Front(cells, parts, 1, used - 1, used)
      BY <1>1, <1>10, <2>4, WholeFront
    <2>7. 1 <= Width
      BY ArrayAssumption
    <2>8. used - 1 \in 0..(used - 1) /\ 1 - 1 = 0
      BY <1>1, <1>10
    <2>9. PartsInv'
      BY <1>2, <2>2, <2>4, <2>5, <2>6, <2>7, <2>8 DEF PartsInv, Sorting, Indices
    <2> QED
      BY <1>3, <1>4, <1>5, <1>6, <2>2, <2>3, <2>9 DEF ArrayInv
  <1> QED
    BY <1>8, <1>9, <1>10

\* A step that moves elements of the part in hand.
LEMMA PartKeeps ==
  ASSUME ArrayInv, Sorting, sort'.at \in {"median", "walls", "split"}, sort' \in Sorts,
         sort'.lo = sort.lo, sort'.hi = sort.hi, sort'.top = sort.top, UNCHANGED <<stack, used, contents>>,
         Shuffled(cells, cells', sort.lo, sort.hi, used)
  PROVE  PartsInv' /\ ContentsInv' /\ FrontInv'
  <1>1. /\ sort.top \in Nat \ {0} /\ sort.top <= Width /\ sort.top \in 1..sort.top
        /\ Parts[sort.top] = [lo |-> sort.lo, hi |-> sort.hi] /\ sort.lo \in Nat /\ sort.hi \in Int
        /\ \A j \in 1..sort.top : PartOK(Parts[j], j - 1, used)
    BY PartInHand
  <1>2. PICK e \in Indices : Front(cells, Parts, sort.top, e, used)
    BY PartInHand
  <1>3. Parts' = Parts
    BY DEF Parts
  <1> DEFINE parts == Parts
             b == cells'
  <1>4. used \in Nat /\ contents \in Seq(Int) /\ Len(contents) = used /\ used > 0 /\ Arranged(contents, cells)
    BY SortFacts DEF Sorting
  <1>5. Front(b, parts, sort.top, e, used)
    <2>1. /\ parts[sort.top].lo = sort.lo /\ parts[sort.top].hi = sort.hi
          /\ parts[sort.top] \in [lo : Int, hi : Int]
      BY <1>1
    <2>2. e \in 0..(used - 1)
      BY DEF Indices
    <2> HIDE DEF parts, b
    <2>3. Shuffled(cells, b, parts[sort.top].lo, parts[sort.top].hi, used)
      BY <2>1 DEF b
    <2> QED
      BY <1>1, <1>2, <1>4, <2>1, <2>2, <2>3, FrontKept DEF parts
  <1>6. Indices' = Indices
    BY DEF Indices
  <1>7. PartsInv'
    BY <1>1, <1>3, <1>5, <1>6 DEF PartsInv, Sorting
  <1>8. Arranged(contents, b)
    BY <1>1, <1>4, ArrangedKept
  <1>9. ContentsInv' /\ FrontInv'
    BY <1>4, <1>8 DEF ContentsInv, FrontInv
  <1> QED
    BY <1>7, <1>9

\* The choice of a pivot keeps the invariant.
LEMMA MedianKeeps ==
  ASSUME ArrayInv, Median
  PROVE  ArrayInv'
  <1> DEFINE mid == sort.lo + (sort.hi - sort.lo) \div 2
             b == MedianOfThree(cells, sort.lo, mid, sort.hi)
  <1>1. /\ sort.at = "median" /\ SortStep("median") /\ cells' = b
        /\ sort' = [sort EXCEPT !.at = "walls", !.mid = mid, !.left = sort.lo + 1, !.right = sort.hi - 1]
        /\ stack' = stack /\ contents' = contents /\ used' = used
    BY DEF Median, SortStep
  <1>2. Sorting
    BY <1>1 DEF Sorting
  <1>3. sort.lo \in Nat /\ sort.hi \in Int /\ sort.hi < used /\ 4 <= sort.hi - sort.lo
    BY <1>2, PartInHand DEF MaxThresh
  <1>4. /\ used \in Nat /\ allocs \in Nat /\ used <= allocs /\ Block(cells, allocs)
        /\ contents \in Seq(Int) /\ Len(contents) = used /\ sort \in Sorts /\ stack \in Stacks
    BY SortFacts
  <1>5. mid \in Nat /\ sort.lo < mid /\ mid < sort.hi
    BY <1>3
  <1> HIDE DEF mid
  <1>6. Block(b, allocs) /\ Shuffled(cells, b, sort.lo, sort.hi, used) /\ b[sort.lo] <= b[mid] /\ b[mid] <= b[sort.hi]
    BY <1>3, <1>4, <1>5, MedianIs
  <1> HIDE DEF b
  <1>7. /\ sort'.at = "walls" /\ sort' \in Sorts /\ sort'.lo = sort.lo /\ sort'.hi = sort.hi /\ sort'.top = sort.top
        /\ sort'.mid = mid /\ sort'.left = sort.lo + 1 /\ sort'.right = sort.hi - 1
    <2>1. sort.lo + 1 \in Int /\ sort.hi - 1 \in Int /\ "walls" \in Places
      BY <1>3 DEF Places
    <2>2. sort' = Moved(sort, "walls", mid, sort.lo + 1, sort.hi - 1)
      BY <1>1 DEF Moved
    <2> QED
      BY <1>4, <1>5, <2>1, <2>2, SortMoves
  <1>8. PartsInv' /\ ContentsInv' /\ FrontInv'
    BY <1>1, <1>2, <1>6, <1>7, PartKeeps
  <1>9. Walls(b, sort.lo, sort.lo + 1, sort.hi - 1, sort.hi, b[mid])
    <2>1. \A k \in sort.lo..((sort.lo + 1) - 1) : k = sort.lo
      BY <1>3
    <2>2. \A k \in ((sort.hi - 1) + 1)..sort.hi : k = sort.hi
      BY <1>3
    <2> QED
      BY <1>6, <2>1, <2>2 DEF Walls
  <1>10. WallsInv'
    BY <1>1, <1>3, <1>5, <1>7, <1>9 DEF WallsInv
  <1> QED
    BY <1>1, <1>4, <1>6, <1>7, <1>8, <1>10, SortKeeps

\* A turn of the walls keeps the invariant: its scans stop within the part.
LEMMA CollapseKeeps ==
  ASSUME ArrayInv, CollapseWalls
  PROVE  ArrayInv'
  <1> DEFINE lo == sort.lo
             hi == sort.hi
             mid == sort.mid
             l == Min(ScanUp(cells, sort.left, used, cells[mid]))
             r == Max(ScanDown(cells, sort.right, cells[mid]))
             b == Swapped(cells, l, r)
             m == IF mid = l THEN r ELSE IF mid = r THEN l ELSE mid
  <1>1. /\ sort.at = "walls" /\ SortStep("walls") /\ stack' = stack /\ contents' = contents /\ used' = used
        /\ cells' = IF l < r THEN b ELSE cells
        /\ sort' = IF l > r THEN [sort EXCEPT !.at = "split", !.left = l, !.right = r]
                   ELSE [sort EXCEPT !.at = IF l + 1 <= r - 1 THEN @ ELSE "split",
                                     !.mid = m, !.left = l + 1, !.right = r - 1]
    BY DEF CollapseWalls, SortStep, ScanUp, ScanDown
  <1>2. Sorting
    BY <1>1 DEF Sorting
  <1>3. lo \in Nat /\ hi \in Int /\ hi < used
    BY <1>2, PartInHand
  <1>4. /\ used \in Nat /\ allocs \in Nat /\ used <= allocs /\ Block(cells, allocs)
        /\ contents \in Seq(Int) /\ Len(contents) = used /\ sort \in Sorts /\ stack \in Stacks
        /\ \A k \in Indices : cells[k] \in Int
    BY SortFacts
  <1>5. /\ sort.left \in Int /\ sort.right \in Int /\ mid \in Int
        /\ lo < sort.left /\ sort.left <= sort.right /\ sort.right < hi /\ lo <= mid /\ mid <= hi
        /\ Walls(cells, lo, sort.left, sort.right, hi, cells[mid])
    BY <1>1, <1>4 DEF ArrayInv, WallsInv, Sorts
  <1>6. /\ l \in Int /\ r \in Int /\ sort.left <= l /\ l <= sort.right + 1 /\ sort.left - 1 <= r /\ r <= sort.right
        /\ cells[mid] <= cells[l] /\ cells[r] <= cells[mid]
        /\ Walls(cells, lo, l, r, hi, cells[mid])
    <2>1. BetweenWalls(cells, allocs, used, lo, hi, sort.left, sort.right, mid)
      BY <1>3, <1>4, <1>5 DEF BetweenWalls
    <2> QED
      BY <2>1, ScansStop
  <1> HIDE DEF l, r
  <1>7. Shuffled(cells, cells, lo, hi, used)
    BY <1>3, <1>4, ShuffledSelf
  <1>8. mid \in Indices
    BY <1>3, <1>4, <1>5 DEF Indices
  <1> HIDE DEF lo, hi, mid
  <1>9. CASE l < r
    <2>1. lo <= l /\ r <= hi
      BY <1>3, <1>5, <1>6
    <2>2. /\ Block(b, allocs) /\ Shuffled(cells, b, lo, hi, used) /\ lo <= m /\ m <= hi /\ m \in Int
          /\ Walls(b, lo, l + 1, r - 1, hi, b[m])
      <3>1. AtWalls(cells, allocs, used, lo, hi, l, r, mid)
        BY <1>3, <1>4, <1>5, <1>6, <1>9, <2>1 DEF AtWalls
      <3> QED
        BY <3>1, WallsSwap
    <2>3. m \in Indices
      BY <1>3, <1>4, <2>2 DEF Indices
    <2> HIDE DEF b, m
    <2>4. cells' = b /\ sort' = [sort EXCEPT !.at = IF l + 1 <= r - 1 THEN @ ELSE "split",
                                     !.mid = m, !.left = l + 1, !.right = r - 1]
      BY <1>1, <1>6, <1>9
    <2>5. /\ sort'.at = IF l + 1 <= r - 1 THEN "walls" ELSE "split"
          /\ sort'.mid = m /\ sort'.left = l + 1 /\ sort'.right = r - 1 /\ sort' \in Sorts
          /\ sort'.lo = sort.lo /\ sort'.hi = sort.hi /\ sort'.top = sort.top
      <3> DEFINE at == IF l + 1 <= r - 1 THEN "walls" ELSE "split"
      <3>1. at \in Places /\ l + 1 \in Int /\ r - 1 \in Int
        BY <1>6 DEF Places
      <3>2. sort' = Moved(sort, at, m, l + 1, r - 1)
        BY <1>1, <2>4 DEF Moved
      <3> HIDE DEF at
      <3>3. /\ sort'.at = at /\ sort'.mid = m /\ sort'.left = l + 1 /\ sort'.right = r - 1 /\ sort' \in Sorts
            /\ sort'.lo = sort.lo /\ sort'.hi = sort.hi /\ sort'.top = sort.top
        BY <1>4, <2>2, <3>1, <3>2, SortMoves
      <3> QED
        BY <3>3 DEF at
    <2>6. PartsInv' /\ ContentsInv' /\ FrontInv'
      BY <1>1, <1>2, <2>2, <2>4, <2>5, PartKeeps DEF lo, hi
    <2>7. WallsInv'
      <3>1. lo < l + 1 /\ r - 1 < hi /\ lo <= r - 1 /\ l + 1 <= hi /\ (~(l + 1 <= r - 1) => r - 1 < l + 1)
        BY <1>3, <1>5, <1>6, <1>9, <2>1
      <3> QED
        BY <1>1, <2>2, <2>3, <2>4, <2>5, <3>1 DEF WallsInv, Indices, lo, hi
    <2> QED
      BY <1>1, <1>4, <2>2, <2>4, <2>5, <2>6, <2>7, SortKeeps
  <1>10. CASE l = r
    <2>1. Walls(cells, lo, l + 1, l - 1, hi, cells[mid])
      <3>1. l \in Indices /\ cells[mid] \in Int /\ cells[l] \in Int
        <4>1. l \in Indices
          BY <1>3, <1>4, <1>5, <1>6, <1>10 DEF Indices
        <4> QED
          BY <1>4, <1>8, <4>1
      <3>2. Walls(cells, lo, l, l, hi, cells[mid]) /\ cells[l] <= cells[mid] /\ cells[mid] <= cells[l]
        BY <1>6, <1>10
      <3> QED
        BY <1>3, <1>6, <3>1, <3>2, WallsMeet
    <2>2. m \in Int /\ ~(l + 1 <= r - 1)
      BY <1>5, <1>6, <1>10
    <2> HIDE DEF m
    <2>3. cells' = cells /\ sort' = [sort EXCEPT !.at = "split", !.mid = m, !.left = l + 1, !.right = r - 1]
      BY <1>1, <1>6, <1>10, <2>2
    <2>4. /\ sort'.at = "split" /\ sort'.left = l + 1 /\ sort'.right = l - 1 /\ sort' \in Sorts
          /\ sort'.lo = sort.lo /\ sort'.hi = sort.hi /\ sort'.top = sort.top
      <3>1. "split" \in Places /\ l + 1 \in Int /\ l - 1 \in Int
        BY <1>6 DEF Places
      <3>2. sort' = Moved(sort, "split", m, l + 1, l - 1)
        BY <1>10, <2>3 DEF Moved
      <3> QED
        BY <1>4, <2>2, <3>1, <3>2, SortMoves
    <2>5. PartsInv' /\ ContentsInv' /\ FrontInv'
      BY <1>1, <1>2, <1>7, <2>3, <2>4, PartKeeps DEF lo, hi
    <2>6. WallsInv'
      <3>1. lo <= l - 1 /\ l - 1 < l + 1 /\ l + 1 <= hi
        BY <1>3, <1>5, <1>6, <1>10
      <3> QED
        BY <1>1, <1>8, <2>1, <2>3, <2>4, <3>1 DEF WallsInv, Indices, lo, hi
    <2> QED
      BY <1>1, <1>4, <2>3, <2>4, <2>5, <2>6, SortKeeps
  <1>11. CASE l > r
    <2>1. cells' = cells /\ sort' = [sort EXCEPT !.at = "split", !.left = l, !.right = r]
      BY <1>1, <1>6, <1>11
    <2>2. /\ sort'.at = "split" /\ sort'.left = l /\ sort'.right = r /\ sort' \in Sorts
          /\ sort'.lo = sort.lo /\ sort'.hi = sort.hi /\ sort'.top = sort.top
      BY <1>4, <1>6, <2>1 DEF Sorts, Places
    <2>3. PartsInv' /\ ContentsInv' /\ FrontInv'
      BY <1>1, <1>2, <1>7, <2>1, <2>2, PartKeeps DEF lo, hi
    <2>4. WallsInv'
      <3>1. lo <= r /\ r < l /\ l <= hi
        BY <1>3, <1>5, <1>6, <1>11
      <3> QED
        BY <1>1, <1>6, <1>8, <2>1, <2>2, <3>1 DEF WallsInv, Indices, lo, hi
    <2> QED
      BY <1>1, <1>4, <2>1, <2>2, <2>3, <2>4, SortKeeps
  <1> QED
    BY <1>6, <1>9, <1>10, <1>11

-----------------------------------------------------------------------------
(* The sort: its parts are divided.                                        *)

Large(p) == p.hi - p.lo > MaxThresh
Placed(s, at, lo, hi, top) == [s EXCEPT !.at = at, !.lo = lo, !.hi = hi, !.top = top]
Resumed(p, top) == Placed(NoSort, "median", p.lo, p.hi, top)

\* A sort that goes on with a part.
LEMMA ResumedIs ==
  ASSUME NEW p \in [lo : Int, hi : Int], NEW top \in Int
  PROVE  LET t == Resumed(p, top)
         IN  t \in Sorts /\ t.at = "median" /\ t.lo = p.lo /\ t.hi = p.hi /\ t.top = top
  <1>1. ASSUME NEW s \in Sorts, NEW lo \in Int, NEW hi \in Int, NEW at \in Places
        PROVE  LET t == Placed(s, at, lo, hi, top)
               IN  t \in Sorts /\ t.at = at /\ t.lo = lo /\ t.hi = hi /\ t.top = top
    BY DEF Sorts, Placed
  <1>2. NoSort \in Sorts /\ p.lo \in Int /\ p.hi \in Int /\ "median" \in Places
    BY StacksAre DEF Places
  <1> QED
    BY <1>1, <1>2 DEF Resumed

\* A lesser part of a part is one, if it is large; a part of half its size is one of the next depth.
LEMMA LesserPart ==
  ASSUME NEW n \in Nat, NEW p \in [lo : Int, hi : Int], NEW q \in [lo : Int, hi : Int], NEW d \in Nat, PartOK(p, d, n),
         p.lo <= q.lo, q.hi <= p.hi, Large(q)
  PROVE  /\ PartOK(q, d, n)
         /\ 2 * (q.hi - q.lo + 1) <= p.hi - p.lo + 1 => PartOK(q, d + 1, n)
  <1> DEFINE x == q.hi - q.lo + 1
             y == p.hi - p.lo + 1
  <1>1. /\ x \in Nat /\ y \in Nat /\ x <= y /\ 0 <= q.lo /\ q.hi < n /\ MaxThresh <= q.hi - q.lo
        /\ TwoTo[d] * y <= n
    BY DEF PartOK, Large, MaxThresh
  <1>2. TwoTo[d] \in Nat /\ TwoTo[d + 1] = 2 * TwoTo[d]
    BY TwoToDef
  <1> HIDE DEF x, y
  <1>3. \A t, i, j \in Nat : i <= j => t * i <= t * j /\ t * i \in Nat /\ t * j \in Nat
    OBVIOUS
  <1>4. TwoTo[d] * x <= n
    <2>1. TwoTo[d] * x <= TwoTo[d] * y /\ TwoTo[d] * x \in Nat /\ TwoTo[d] * y \in Nat
      BY <1>1, <1>2, <1>3
    <2> QED
      BY <1>1, <2>1
  <1>5. ASSUME 2 * x <= y PROVE TwoTo[d + 1] * x <= n
    <2>1. TwoTo[d + 1] * x = TwoTo[d] * (2 * x) /\ 2 * x \in Nat
      BY <1>1, <1>2
    <2>2. TwoTo[d] * (2 * x) <= TwoTo[d] * y /\ TwoTo[d] * (2 * x) \in Nat /\ TwoTo[d] * y \in Nat
      BY <1>1, <1>2, <1>3, <1>5, <2>1
    <2> QED
      BY <1>1, <2>1, <2>2
  <1> QED
    BY <1>1, <1>4, <1>5 DEF PartOK, x, y

\* The stack has room for the parts of any array.
LEMMA StackHasRoom ==
  ASSUME BlockInv, NEW p, NEW d \in Nat, d <= Width, PartOK(p, d, used)
  PROVE  d + 1 <= Width
  <1> SUFFICES ASSUME d = Width PROVE FALSE
    BY ArrayAssumption
  <1> DEFINE x == p.hi - p.lo + 1
  <1>1. x \in Nat /\ x >= 1 /\ TwoTo[Width] * x <= used /\ used \in Nat /\ used <= MaxElems
    BY DEF PartOK, MaxThresh, BlockInv
  <1> HIDE DEF x
  <1>2. TwoTo[Width] \in Nat /\ TwoTo[Width] > 0
    BY TwoToDef, TwoToGrows, ArrayAssumption
  <1>3. TwoTo[Width] <= TwoTo[Width] * x /\ TwoTo[Width] * x \in Nat
    BY <1>1, <1>2
  <1>4. 2 * MaxElems <= TwoTo[Width]
    <2>1. MaxElems \in Nat /\ ElemSize \in Nat /\ ElemSize > 0 /\ 2 * MaxElems * ElemSize <= TwoTo[Width]
      BY ArrayAssumption
    <2> DEFINE m == 2 * MaxElems
    <2>2. m \in Nat /\ m * ElemSize <= TwoTo[Width]
      BY <2>1
    <2> HIDE DEF m
    <2>3. m <= m * ElemSize /\ m * ElemSize \in Nat
      BY <2>1, <2>2
    <2>4. m <= TwoTo[Width]
      BY <1>2, <2>2, <2>3
    <2> QED
      BY <2>4 DEF m
  <1> QED
    BY <1>1, <1>2, <1>3, <1>4, ArrayAssumption

\* What the two parts are.
LEMMA Divided ==
  ASSUME ArrayInv, sort.at = "split"
  PROVE  LET one == [lo |-> sort.lo, hi |-> sort.right]
             two == [lo |-> sort.left, hi |-> sort.hi]
         IN  /\ one \in [lo : Int, hi : Int] /\ two \in [lo : Int, hi : Int]
             /\ sort.lo <= sort.right /\ sort.right < sort.left /\ sort.left <= sort.hi
             /\ Large(one) => PartOK(one, sort.top - 1, used)
             /\ Large(two) => PartOK(two, sort.top - 1, used)
             /\ Large(one) /\ Large(two) => sort.top + 1 <= Width
             /\ Large(one) /\ Large(two) /\ one.hi - one.lo <= two.hi - two.lo => PartOK(one, sort.top, used)
             /\ Large(one) /\ Large(two) /\ two.hi - two.lo <= one.hi - one.lo => PartOK(two, sort.top, used)
  <1> DEFINE one == [lo |-> sort.lo, hi |-> sort.right]
             two == [lo |-> sort.left, hi |-> sort.hi]
             p == Parts[sort.top]
  <1>1. /\ sort.top \in Nat \ {0} /\ sort.top <= Width
        /\ p = [lo |-> sort.lo, hi |-> sort.hi] /\ sort.lo \in Nat /\ sort.hi \in Int
        /\ PartOK(p, sort.top - 1, used) /\ p \in [lo : Int, hi : Int]
    <2>1. Sorting
      BY DEF Sorting
    <2> QED
      BY <2>1, PartInHand
  <1>2. used \in Nat /\ sort.left \in Int /\ sort.right \in Int /\ BlockInv
    BY SortFacts DEF Sorts, ArrayInv
  <1>3. sort.lo <= sort.right /\ sort.right < sort.left /\ sort.left <= sort.hi
    BY DEF ArrayInv, WallsInv
  <1>4. sort.top - 1 \in Nat /\ (sort.top - 1) + 1 = sort.top
    BY <1>1
  <1> HIDE DEF p
  <1>5. /\ one \in [lo : Int, hi : Int] /\ one.lo = sort.lo /\ one.hi = sort.right
        /\ two \in [lo : Int, hi : Int] /\ two.lo = sort.left /\ two.hi = sort.hi
    BY <1>1, <1>2
  <1> HIDE DEF one, two
  <1>6. p.lo = sort.lo /\ p.hi = sort.hi /\ p.lo <= one.lo /\ one.hi <= p.hi /\ p.lo <= two.lo /\ two.hi <= p.hi
    BY <1>1, <1>2, <1>3, <1>5
  <1>7. Large(one) => /\ PartOK(one, sort.top - 1, used)
                      /\ 2 * (one.hi - one.lo + 1) <= p.hi - p.lo + 1 => PartOK(one, sort.top, used)
    BY <1>1, <1>2, <1>4, <1>5, <1>6, LesserPart
  <1>8. Large(two) => /\ PartOK(two, sort.top - 1, used)
                      /\ 2 * (two.hi - two.lo + 1) <= p.hi - p.lo + 1 => PartOK(two, sort.top, used)
    BY <1>1, <1>2, <1>4, <1>5, <1>6, LesserPart
  <1>9. one.hi - one.lo <= two.hi - two.lo => 2 * (one.hi - one.lo + 1) <= p.hi - p.lo + 1
    BY <1>1, <1>2, <1>3, <1>5, <1>6
  <1>10. two.hi - two.lo <= one.hi - one.lo => 2 * (two.hi - two.lo + 1) <= p.hi - p.lo + 1
    BY <1>1, <1>2, <1>3, <1>5, <1>6
  <1>11. one.hi - one.lo <= two.hi - two.lo \/ two.hi - two.lo <= one.hi - one.lo
    BY <1>1, <1>2, <1>5
  <1>12. Large(one) /\ Large(two) => sort.top + 1 <= Width
    <2>1. \A q : PartOK(q, sort.top, used) => sort.top + 1 <= Width
      BY <1>1, <1>2, StackHasRoom
    <2> QED
      BY <1>7, <1>8, <1>9, <1>10, <1>11, <2>1
  <1> QED
    BY <1>3, <1>5, <1>7, <1>8, <1>9, <1>10, <1>12 DEF one, two

\* The first elements are in front whatever the parts become.
LEMMA FrontAfter ==
  ASSUME ArrayInv, sort.at = "split",
         NEW new, NEW high \in Nat, sort.top - 1 <= high,
         \A j \in 1..(sort.top - 1) : new[j] = Parts[j],
         NEW one \in Nat, sort.top <= one, one <= high + 1,
         one <= high => new[one].lo = sort.lo /\ new[one].hi = sort.right,
         one > high => sort.right - sort.lo <= MaxThresh,
         \A j \in sort.top..high : j # one => new[j].lo = sort.left
  PROVE  \E f \in Indices : Front(cells, new, high, f, used)
  <1>1. /\ sort.top \in Nat \ {0} /\ Parts[sort.top] = [lo |-> sort.lo, hi |-> sort.hi]
        /\ sort.lo \in Nat /\ sort.hi \in Int /\ sort.hi < used
        /\ \A j \in 1..sort.top : Parts[j] \in [lo : Int, hi : Int]
        /\ \E e \in Indices : Front(cells, Parts, sort.top, e, used)
    <2>1. Sorting
      BY DEF Sorting
    <2> QED
      BY <2>1, PartInHand
  <1>2. used \in Nat /\ allocs \in Nat /\ used <= allocs /\ Block(cells, allocs) /\ sort.left \in Int /\ sort.right \in Int
    BY SortFacts DEF Sorts
  <1>3. /\ sort.lo <= sort.right /\ sort.right < sort.left /\ sort.left <= sort.hi
        /\ \E k \in Indices : Walls(cells, sort.lo, sort.left, sort.right, sort.hi, cells[k])
    BY DEF ArrayInv, WallsInv
  <1>4. PICK e \in 0..(used - 1) : Front(cells, Parts, sort.top, e, used)
    BY <1>1 DEF Indices
  <1>5. PICK k \in 0..(used - 1) : Walls(cells, sort.lo, sort.left, sort.right, sort.hi, cells[k])
    BY <1>3 DEF Indices
  <1> DEFINE parts == Parts
             top == sort.top
             left == sort.left
             right == sort.right
  <1>6. parts[top].lo = sort.lo /\ parts[top].hi = sort.hi
    BY <1>1
  <1>7. one \in top..(high + 1)
    BY <1>1
  <1>8. /\ top \in Nat \ {0} /\ left \in Int /\ right \in Int /\ Front(cells, parts, top, e, used)
        /\ \A j \in 1..top : parts[j] \in [lo : Int, hi : Int]
        /\ 0 <= parts[top].lo /\ parts[top].hi < used /\ parts[top].lo <= right /\ right < left /\ left <= parts[top].hi
        /\ Walls(cells, parts[top].lo, left, right, parts[top].hi, cells[k])
        /\ \A j \in 1..(top - 1) : new[j] = parts[j]
        /\ one <= high => new[one].lo = parts[top].lo /\ new[one].hi = right
        /\ one > high => right - parts[top].lo <= MaxThresh
        /\ \A j \in top..high : j # one => new[j].lo = left
        /\ top - 1 <= high
    BY <1>1, <1>2, <1>3, <1>4, <1>5, <1>6
  <1> HIDE DEF parts, top, left, right
  <1>9. DividesFront(cells, allocs, used, parts, top, e, left, right, k, new, high, one)
    BY <1>2, <1>7, <1>8 DEF DividesFront
  <1>10. HasFront(cells, new, high, used)
    BY <1>9, FrontDivided
  <1> QED
    BY <1>10 DEF Indices, HasFront

\* A step to another part keeps the invariant.
LEMMA DividedKeeps ==
  ASSUME ArrayInv, SortStep("split"), cells' = cells, contents' = contents, stack' \in Stacks, sort' \in Sorts,
         sort'.at = "median", NEW high \in Nat \ {0}, sort'.top = high, sort.top - 1 <= high, high <= Width,
         \A j \in 1..(sort.top - 1) : Parts'[j] = Parts[j],
         NEW one \in Nat, sort.top <= one, one <= high + 1,
         one <= high => Parts'[one].lo = sort.lo /\ Parts'[one].hi = sort.right,
         one > high => sort.right - sort.lo <= MaxThresh,
         \A j \in sort.top..high : PartOK(Parts'[j], j - 1, used) /\ (j # one => Parts'[j].lo = sort.left)
  PROVE  ArrayInv'
  <1>1. sort.at = "split" /\ used' = used /\ Sorting
    BY DEF SortStep, Sorting
  <1> DEFINE new == Parts'
  <1>2. \E f \in Indices : Front(cells, new, high, f, used)
    <2>1. /\ \A j \in 1..(sort.top - 1) : new[j] = Parts[j]
          /\ one <= high => new[one].lo = sort.lo /\ new[one].hi = sort.right
          /\ \A j \in sort.top..high : j # one => new[j].lo = sort.left
      OBVIOUS
    <2> HIDE DEF new
    <2> QED
      BY <1>1, <2>1, FrontAfter
  <1>3. sort.top \in Nat \ {0} /\ \A j \in 1..sort.top : PartOK(Parts[j], j - 1, used)
    BY <1>1, PartInHand
  <1>4. \A j \in 1..high : PartOK(new[j], j - 1, used)
    <2> SUFFICES ASSUME NEW j \in 1..high PROVE PartOK(new[j], j - 1, used)
      OBVIOUS
    <2>1. j \in 1..(sort.top - 1) \/ j \in sort.top..high
      BY <1>3
    <2>2. CASE j \in 1..(sort.top - 1)
      <3>1. j \in 1..sort.top /\ new[j] = Parts[j]
        BY <1>3, <2>2
      <3> HIDE DEF new
      <3> QED
        BY <1>3, <3>1
    <2> QED
      BY <2>1, <2>2
  <1>5. PartsInv'
    BY <1>1, <1>2, <1>4 DEF PartsInv, Sorting, Indices
  <1>6. /\ contents \in Seq(Int) /\ Len(contents) = used /\ used > 0 /\ Arranged(contents, cells)
    BY <1>1, SortFacts
  <1>7. ContentsInv' /\ WallsInv' /\ FrontInv'
    BY <1>1, <1>6 DEF ContentsInv, WallsInv, FrontInv
  <1> QED
    BY <1>5, <1>6, <1>7, SortKeeps

\* The division of a part keeps the invariant: the stack has room for the larger of two.
LEMMA SplitKeeps ==
  ASSUME ArrayInv, Split
  PROVE  ArrayInv'
  <1> DEFINE lo == sort.lo
             one == [lo |-> sort.lo, hi |-> sort.right]
             two == [lo |-> sort.left, hi |-> sort.hi]
             top == sort.top
             pushed == IF one.hi - one.lo > two.hi - two.lo THEN one ELSE two
             next == IF one.hi - one.lo > two.hi - two.lo THEN two ELSE one
  <1>1. /\ SortStep("split") /\ sort.at = "split" /\ cells' = cells /\ contents' = contents /\ used' = used
    BY DEF Split, SortStep
  <1>2. \/ ~Large(one) /\ ~Large(two) /\ top - 1 = 0 /\ sort' = [NoSort EXCEPT !.at = "least"] /\ stack' = stack
        \/ ~Large(one) /\ ~Large(two) /\ top - 1 # 0 /\ sort' = Resumed(stack[top - 1], top - 1) /\ stack' = stack
        \/ Large(one) /\ ~Large(two) /\ sort' = Resumed(one, top) /\ stack' = stack
        \/ Large(two) /\ ~Large(one) /\ sort' = Resumed(two, top) /\ stack' = stack
        \/ /\ Large(one) /\ Large(two) /\ sort' = Resumed(next, top + 1)
           /\ stack' = [stack EXCEPT ![top] = pushed]
    BY DEF Split, Large, Resumed, Placed
  <1>3. /\ top \in Nat \ {0} /\ top <= Width /\ Parts[top] = [lo |-> sort.lo, hi |-> sort.hi]
        /\ sort.lo \in Nat /\ sort.hi \in Int
        /\ \A j \in 1..top : Parts[j] \in [lo : Int, hi : Int]
    <2>1. Sorting
      BY <1>1 DEF Sorting
    <2> QED
      BY <2>1, PartInHand
  <1>4. /\ used \in Nat /\ allocs \in Nat /\ used <= allocs /\ Block(cells, allocs)
        /\ contents \in Seq(Int) /\ Len(contents) = used /\ sort \in Sorts /\ stack \in Stacks
        /\ Arranged(contents, cells) /\ used > 0 /\ sort.left \in Int /\ sort.right \in Int
    BY <1>1, SortFacts DEF Sorts
  <1>5. /\ one \in [lo : Int, hi : Int] /\ two \in [lo : Int, hi : Int]
        /\ Large(one) => PartOK(one, top - 1, used)
        /\ Large(two) => PartOK(two, top - 1, used)
        /\ Large(one) /\ Large(two) => top + 1 <= Width
        /\ Large(one) /\ Large(two) /\ one.hi - one.lo <= two.hi - two.lo => PartOK(one, top, used)
        /\ Large(one) /\ Large(two) /\ two.hi - two.lo <= one.hi - one.lo => PartOK(two, top, used)
    BY <1>1, Divided
  <1>6. one.lo = sort.lo /\ one.hi = sort.right /\ two.lo = sort.left /\ two.hi = sort.hi
    OBVIOUS
  <1> HIDE DEF one, two
  <1>7. ~Large(one) => sort.right - sort.lo <= MaxThresh
    BY <1>3, <1>4, <1>6 DEF Large, MaxThresh
  <1>8. \A j \in 1..(top - 1) : Parts[j] = stack[j]
    BY <1>3 DEF Parts
  <1>9. \A j \in 1..sort'.top : Parts'[j] = IF j = sort'.top THEN [lo |-> sort'.lo, hi |-> sort'.hi] ELSE stack'[j]
    BY DEF Parts
  <1>10. CASE ~Large(one) /\ ~Large(two) /\ top - 1 = 0 /\ sort' = [NoSort EXCEPT !.at = "least"] /\ stack' = stack
    <2>1. sort'.at = "least" /\ sort'.top = 0 /\ sort' \in Sorts
      BY <1>10 DEF NoSort, Sorts, Places
    <2>2. \E f \in Indices : Front(cells, <<>>, 0, f, used)
      <3>1. /\ \A j \in 1..(top - 1) : <<>>[j] = Parts[j]
            /\ \A j \in top..0 : j # top => <<>>[j].lo = sort.left
            /\ top - 1 <= 0 /\ top <= top /\ top <= 0 + 1 /\ ~(top <= 0) /\ 0 \in Nat /\ top \in Nat
        BY <1>3, <1>10
      <3> QED
        BY <1>1, <1>7, <1>10, <3>1, FrontAfter
    <2>3. \E k \in Indices : k <= MaxThresh /\ \A m \in Indices : cells[k] <= cells[m]
      BY <1>4, <2>2, LeastInFront DEF Indices
    <2>4. PartsInv' /\ WallsInv' /\ ContentsInv' /\ FrontInv'
      BY <1>1, <1>4, <2>1, <2>3 DEF PartsInv, Sorting, WallsInv, ContentsInv, FrontInv, Indices
    <2> QED
      BY <1>1, <1>4, <1>10, <2>1, <2>4, SortKeeps
  <1>11. CASE ~Large(one) /\ ~Large(two) /\ top - 1 # 0 /\ sort' = Resumed(stack[top - 1], top - 1) /\ stack' = stack
    <2> DEFINE high == top - 1
    <2>1. high \in Nat \ {0} /\ high <= Width /\ high \in 1..(top - 1) /\ high \in 1..top /\ high # top
      BY <1>3, <1>11, ArrayAssumption
    <2>2. stack[high] \in [lo : Int, hi : Int] /\ stack[high] = [lo |-> stack[high].lo, hi |-> stack[high].hi]
      BY <1>3, <1>8, <2>1
    <2> HIDE DEF high
    <2>3. sort' = Resumed(stack[high], high)
      BY <1>11 DEF high
    <2>4. sort' \in Sorts /\ sort'.at = "median" /\ sort'.lo = stack[high].lo /\ sort'.hi = stack[high].hi /\ sort'.top = high
      BY <2>1, <2>2, <2>3, ResumedIs
    <2>5. \A j \in 1..(top - 1) : Parts'[j] = Parts[j]
      <3> SUFFICES ASSUME NEW j \in 1..(top - 1) PROVE Parts'[j] = Parts[j]
        OBVIOUS
      <3>1. Parts[j] = stack[j] /\ j \in 1..high
        BY <1>8 DEF high
      <3> QED
        BY <1>9, <1>11, <2>2, <2>4, <3>1
    <2>6. top <= high + 1 /\ top <= top /\ top > high /\ sort.top - 1 <= high /\ top \in Nat
      BY <1>3 DEF high
    <2>7. \A j \in sort.top..high : FALSE
      BY <1>3, <2>1 DEF high
    <2>8. top <= high => FALSE
      BY <1>3, <2>1, <2>6
    <2> QED
      BY <1>1, <1>4, <1>7, <1>11, <2>1, <2>4, <2>5, <2>6, <2>7, <2>8, DividedKeeps
  <1>12. CASE Large(one) /\ ~Large(two) /\ sort' = Resumed(one, top) /\ stack' = stack
    <2>1. sort' \in Sorts /\ sort'.at = "median" /\ sort'.lo = one.lo /\ sort'.hi = one.hi /\ sort'.top = top
      BY <1>3, <1>5, <1>12, ResumedIs
    <2>2. one = [lo |-> one.lo, hi |-> one.hi]
      BY <1>5
    <2>3. Parts'[top] = one /\ \A j \in 1..(top - 1) : Parts'[j] = Parts[j]
      BY <1>3, <1>8, <1>9, <1>12, <2>1, <2>2
    <2>4. top <= top + 1 /\ top <= top /\ ~(top > top) /\ sort.top - 1 <= top /\ top \in Nat
      BY <1>3
    <2>5. \A j \in sort.top..top : j = top
      BY <1>3
    <2> QED
      BY <1>1, <1>3, <1>4, <1>5, <1>6, <1>12, <2>1, <2>3, <2>4, <2>5, DividedKeeps
  <1>13. CASE Large(two) /\ ~Large(one) /\ sort' = Resumed(two, top) /\ stack' = stack
    <2>1. sort' \in Sorts /\ sort'.at = "median" /\ sort'.lo = two.lo /\ sort'.hi = two.hi /\ sort'.top = top
      BY <1>3, <1>5, <1>13, ResumedIs
    <2>2. two = [lo |-> two.lo, hi |-> two.hi]
      BY <1>5
    <2>3. Parts'[top] = two /\ \A j \in 1..(top - 1) : Parts'[j] = Parts[j]
      BY <1>3, <1>8, <1>9, <1>13, <2>1, <2>2
    <2> DEFINE n == top + 1
    <2>4. n \in Nat /\ sort.top <= n /\ n <= top + 1 /\ ~(n <= top) /\ sort.top - 1 <= top
      BY <1>3
    <2>5. \A j \in sort.top..top : j = top
      BY <1>3
    <2> HIDE DEF n
    <2> QED
      BY <1>1, <1>3, <1>4, <1>5, <1>6, <1>7, <1>13, <2>1, <2>3, <2>4, <2>5, DividedKeeps
  <1>14. CASE /\ Large(one) /\ Large(two) /\ sort' = Resumed(next, top + 1)
              /\ stack' = [stack EXCEPT ![top] = pushed]
    <2> DEFINE high == top + 1
    <2>0. stack' = [stack EXCEPT ![top] = pushed] /\ top + 1 <= Width
      BY <1>5, <1>14
    <2>1. /\ high \in Nat \ {0} /\ high <= Width /\ top \in 0..(StackSize - 1) /\ high # top /\ high - 1 = top
          /\ sort.top - 1 <= high /\ top <= high /\ sort.top <= high /\ ~(top > high) /\ ~(high > high)
          /\ top <= high + 1 /\ high <= high + 1
      <3>1. top \in Nat \ {0} /\ sort.top = top /\ Width \in Nat
        BY <1>3, ArrayAssumption
      <3>2. top \in 0..(StackSize - 1)
        BY <2>0, <3>1 DEF StackSize
      <3> QED
        BY <2>0, <3>1, <3>2
    <2>2. pushed \in [lo : Int, hi : Int] /\ next \in [lo : Int, hi : Int]
      BY <1>5
    <2>3. sort' = Resumed(next, high)
      BY <1>14
    <2> HIDE DEF next, pushed, high
    <2>4. sort' \in Sorts /\ sort'.at = "median" /\ sort'.lo = next.lo /\ sort'.hi = next.hi /\ sort'.top = high
      BY <2>1, <2>2, <2>3, ResumedIs
    <2>5. stack' \in Stacks /\ stack'[top] = pushed /\ \A j \in 1..(top - 1) : stack'[j] = stack[j]
      <3>1. \A j \in 1..(top - 1) : j \in 0..(StackSize - 1) /\ j # top
        BY <1>3, <2>1, ArrayAssumption DEF StackSize
      <3> QED
        BY <1>4, <2>0, <2>1, <2>2, <3>1 DEF Stacks
    <2>6. next = [lo |-> next.lo, hi |-> next.hi]
      BY <2>2
    <2>7. Parts'[high] = next /\ Parts'[top] = pushed /\ \A j \in 1..(top - 1) : Parts'[j] = Parts[j]
      <3>1. high \in 1..high /\ top \in 1..high /\ \A j \in 1..(top - 1) : j \in 1..high /\ j # high
        BY <1>3, <2>1 DEF high
      <3> QED
        BY <1>8, <1>9, <2>1, <2>4, <2>5, <2>6, <3>1
    <2>8. \A j \in sort.top..high : j = top \/ j = high
      BY <1>3, <2>1 DEF high
    <2>9. top \in Nat /\ high \in Nat
      BY <1>3, <2>1
    <2>10. CASE one.hi - one.lo > two.hi - two.lo
      <3>1. pushed = one /\ next = two
        BY <2>10 DEF pushed, next
      <3>2. PartOK(one, top - 1, used) /\ PartOK(two, high - 1, used)
        <4>1. two.hi - two.lo <= one.hi - one.lo
          BY <1>3, <1>4, <1>6, <2>10
        <4> QED
          BY <1>5, <1>14, <2>1, <4>1
      <3>3. \A j \in sort.top..high : PartOK(Parts'[j], j - 1, used) /\ (j # top => Parts'[j].lo = sort.left)
        BY <1>6, <2>1, <2>7, <2>8, <3>1, <3>2
      <3>4. Parts'[top].lo = sort.lo /\ Parts'[top].hi = sort.right
        BY <1>6, <2>7, <3>1
      <3> QED
        BY <1>1, <1>3, <2>1, <2>4, <2>5, <2>7, <2>9, <3>3, <3>4, DividedKeeps
    <2>11. CASE ~(one.hi - one.lo > two.hi - two.lo)
      <3>1. pushed = two /\ next = one
        BY <2>11 DEF pushed, next
      <3>2. PartOK(two, top - 1, used) /\ PartOK(one, high - 1, used)
        <4>1. one.hi - one.lo <= two.hi - two.lo
          BY <1>3, <1>4, <1>6, <2>11
        <4> QED
          BY <1>5, <1>14, <2>1, <4>1
      <3>3. \A j \in sort.top..high : PartOK(Parts'[j], j - 1, used) /\ (j # high => Parts'[j].lo = sort.left)
        BY <1>6, <2>1, <2>7, <2>8, <3>1, <3>2
      <3>4. Parts'[high].lo = sort.lo /\ Parts'[high].hi = sort.right
        BY <1>6, <2>7, <3>1
      <3> QED
        BY <1>1, <1>3, <2>1, <2>4, <2>5, <2>7, <2>9, <3>3, <3>4, DividedKeeps
    <2> QED
      BY <2>10, <2>11
  <1> QED
    BY <1>2, <1>10, <1>11, <1>12, <1>13, <1>14

-----------------------------------------------------------------------------
(* The sort: its insertions.                                               *)

\* A step behind the parts, by which the elements stay the same.
LEMMA InsertionKeeps ==
  ASSUME ArrayInv, NEW at \in {"least", "insert"}, SortStep(at), Block(cells', allocs), contents' = contents, stack' = stack,
         sort' \in Sorts, sort'.at = "insert", sort'.top = 0, NEW lo \in Int, NEW hi \in Int,
         Shuffled(cells, cells', lo, hi, used), FrontInv'
  PROVE  ArrayInv'
  <1>1. /\ used \in Nat /\ contents \in Seq(Int) /\ Len(contents) = used /\ used > 0 /\ Arranged(contents, cells)
        /\ stack \in Stacks /\ used' = used /\ at # "idle"
    BY SortFacts DEF SortStep
  <1> DEFINE b == cells'
  <1>2. Shuffled(cells, b, lo, hi, Len(contents))
    BY <1>1
  <1> HIDE DEF b
  <1>3. Arranged(contents, b)
    BY <1>1, <1>2, ArrangedKept
  <1>4. ContentsInv' /\ PartsInv' /\ WallsInv'
    BY <1>1, <1>3 DEF ContentsInv, PartsInv, Sorting, WallsInv, b
  <1> QED
    BY <1>1, <1>4, SortKeeps

\* A sort that goes on with the insertion of the third element.
Inserting(s) == [s EXCEPT !.at = "insert", !.run = 2]

\* Its fields.
LEMMA InsertingIs ==
  ASSUME NEW s \in Sorts
  PROVE  Inserting(s) \in Sorts /\ Inserting(s).at = "insert" /\ Inserting(s).run = 2 /\ Inserting(s).top = s.top
  <1>1. "insert" \in Places /\ 2 \in Int
    BY DEF Places
  <1>2. Inserting(s) \in Sorts
    BY <1>1 DEF Sorts, Inserting
  <1>3. Inserting(s).at = "insert" /\ Inserting(s).run = 2
    BY <1>1 DEF Sorts, Inserting
  <1>4. Inserting(s).top = s.top
    BY <1>1 DEF Sorts, Inserting
  <1> QED
    BY <1>2, <1>3, <1>4

\* The least of the first elements is the least of all.
LEMMA LeastKeeps ==
  ASSUME ArrayInv, LeastFirst
  PROVE  ArrayInv'
  <1> DEFINE last == Min({used - 1, MaxThresh})
             S == {k \in 0..last : \A m \in 0..last : cells[k] <= cells[m]}
             least == Min(S)
             b == Swapped(cells, least, 0)
  <1>1. /\ SortStep("least") /\ sort.at = "least" /\ cells' = b /\ stack' = stack /\ contents' = contents /\ used' = used
        /\ sort' = [NoSort EXCEPT !.at = "insert", !.run = 2]
    BY DEF LeastFirst, SortStep
  <1>2. /\ used \in Nat /\ allocs \in Nat /\ used <= allocs /\ Block(cells, allocs) /\ used > 0
        /\ \A k \in Indices : cells[k] \in Int
    BY <1>1, SortFacts
  <1>3. PICK k \in Indices : k <= MaxThresh /\ \A m \in Indices : cells[k] <= cells[m]
    BY <1>1 DEF ArrayInv, FrontInv
  <1>4. last = IF used - 1 < MaxThresh THEN used - 1 ELSE MaxThresh
    BY <1>2, MinOfTwo DEF MaxThresh
  <1> HIDE DEF last
  <1>5. last \in Nat /\ last <= used - 1 /\ k \in 0..last
    BY <1>2, <1>3, <1>4 DEF MaxThresh, Indices
  <1>6. \A m \in 0..last : m \in Indices
    BY <1>2, <1>5 DEF Indices
  <1>7. k \in S /\ S \in SUBSET Nat
    BY <1>3, <1>5, <1>6
  <1>8. least \in S
    <2> HIDE DEF S
    <2> QED
      BY <1>7, LeastOf
  <1> HIDE DEF least
  <1>9. least \in 0..last /\ least \in Nat /\ cells[least] <= cells[k]
    BY <1>5, <1>8
  <1>10. least \in Indices /\ 0 \in Indices
    BY <1>2, <1>6, <1>9 DEF Indices
  <1>11. \A m \in Indices : cells[least] <= cells[m]
    BY <1>2, <1>3, <1>9, <1>10
  <1>12. /\ Block(b, allocs) /\ Shuffled(cells, b, 0, used - 1, used) /\ b[0] = cells[least]
    <2> DEFINE hi == used - 1
    <2>1. hi \in Int /\ hi < used /\ least <= hi /\ 0 <= hi /\ 0 <= least /\ 0 <= 0 /\ 0 \in Nat
      BY <1>2, <1>5, <1>9
    <2> HIDE DEF hi
    <2>2. Block(b, allocs) /\ Shuffled(cells, b, 0, hi, used) /\ b[0] = cells[least]
      BY <1>2, <1>9, <2>1, SwapShuffles
    <2> QED
      BY <2>2 DEF hi
  <1> HIDE DEF b
  <1>13. sort' \in Sorts /\ sort'.at = "insert" /\ sort'.run = 2 /\ sort'.top = 0
    <2>1. NoSort \in Sorts /\ NoSort.top = 0
      BY StacksAre DEF NoSort
    <2>2. sort' = Inserting(NoSort)
      BY <1>1 DEF Inserting
    <2> QED
      BY <2>1, <2>2, InsertingIs
  <1>14. \A m \in Indices : b[0] <= b[m]
    <2> SUFFICES ASSUME NEW m \in Indices PROVE b[0] <= b[m]
      OBVIOUS
    <2>1. used - 1 \in Int /\ 0 \in Int /\ m \in 0..(used - 1)
      BY <1>2 DEF Indices
    <2>2. PICK j \in 0..(used - 1) : b[m] = cells[j]
      BY <1>2, <1>12, <2>1, WhereFrom
    <2> QED
      BY <1>11, <1>12, <2>2 DEF Indices
  <1>15. FrontInv'
    <2>1. \A i, j \in Indices : i < j /\ j < 2 => i = 0
      BY <1>2 DEF Indices
    <2> QED
      BY <1>1, <1>13, <1>14, <2>1 DEF FrontInv, Indices
  <1>16. used - 1 \in Int /\ 0 \in Int
    BY <1>2
  <1> QED
    BY <1>1, <1>12, <1>13, <1>15, <1>16, InsertionKeeps

\* An element finds its place behind the last one before it that is not greater.
LEMMA InsertedInOrder ==
  ASSUME NEW n \in Nat, NEW size \in Nat, n <= size, NEW a, Block(a, size), NEW run \in Nat, run >= 2, run < n,
         \A k \in 0..(n - 1) : a[0] <= a[k],
         \A j, k \in 0..(n - 1) : j < k /\ k < run => a[j] <= a[k]
  PROVE  LET at == Max({k \in 0..(run - 1) : ~(a[run] < a[k])}) + 1
             b == Shifted(a, at, run)
         IN  /\ Block(b, size) /\ Shuffled(a, b, 0, n - 1, n)
             /\ \A j, k \in 0..(n - 1) : j < k /\ k < run + 1 => b[j] <= b[k]
             /\ \A k \in 0..(n - 1) : b[0] <= b[k]
  <1> DEFINE S == {k \in 0..(run - 1) : ~(a[run] < a[k])}
             at == Max(S) + 1
             b == Shifted(a, at, run)
  <1>1. \A k \in 0..(n - 1) : a[k] \in Int
    BY DEF Block
  <1>2. run - 1 \in Int /\ 0 \in S /\ S \in SUBSET (0..(run - 1))
    <2>1. 0 \in 0..(run - 1) /\ 0 \in 0..(n - 1) /\ run \in 0..(n - 1)
      OBVIOUS
    <2> QED
      BY <1>1, <2>1
  <1>3. Max(S) \in S /\ \A k \in S : k <= Max(S)
    <2> HIDE DEF S
    <2> QED
      BY <1>2, GreatestOf
  <1>4. /\ at \in Nat /\ 1 <= at /\ at <= run /\ a[at - 1] <= a[run]
        /\ \A k \in 0..(run - 1) : at <= k => a[run] < a[k]
    <2> DEFINE g == Max(S)
    <2>1. g \in 0..(run - 1) /\ ~(a[run] < a[g]) /\ at = g + 1 /\ \A k \in 0..(run - 1) : g < k => a[run] < a[k]
      BY <1>2, <1>3
    <2> HIDE DEF g, S, at
    <2>2. a[g] \in Int /\ a[run] \in Int /\ at - 1 = g
      BY <1>1, <2>1
    <2> QED
      BY <2>1, <2>2
  <1> HIDE DEF at
  <1>5. /\ Block(b, size) /\ Shuffled(a, b, 0, n - 1, n)
        /\ \A k \in 0..(size - 1) : b[k] = IF k = at THEN a[run] ELSE IF at < k /\ k <= run THEN a[k - 1] ELSE a[k]
    BY <1>4, ShiftShuffles
  <1> HIDE DEF b
  <1>6. ASSUME NEW j \in 0..(n - 1), NEW k \in 0..(n - 1), j < k, k < run + 1 PROVE b[j] <= b[k]
    <2>1. /\ j \in 0..(size - 1) /\ k \in 0..(size - 1) /\ a[j] \in Int /\ a[k] \in Int /\ a[run] \in Int
          /\ at - 1 \in 0..(n - 1) /\ at - 1 < run /\ a[at - 1] \in Int
      BY <1>1, <1>4
    <2>2. CASE k < at
      <3>1. b[j] = a[j] /\ b[k] = a[k] /\ k < run
        BY <1>4, <1>5, <1>6, <2>1, <2>2
      <3> QED
        BY <1>6, <3>1
    <2>3. CASE k = at
      <3>1. b[j] = a[j] /\ b[k] = a[run]
        BY <1>4, <1>5, <1>6, <2>1, <2>3
      <3>2. j = at - 1 \/ j < at - 1
        BY <1>4, <1>6, <2>3
      <3>3. a[j] <= a[at - 1]
        BY <2>1, <3>2
      <3> QED
        BY <1>4, <2>1, <3>1, <3>3
    <2>4. CASE at < k /\ j = at
      <3>1. b[j] = a[run] /\ b[k] = a[k - 1] /\ k - 1 \in 0..(run - 1) /\ at <= k - 1
        BY <1>4, <1>5, <1>6, <2>1, <2>4
      <3>2. a[k - 1] \in Int
        BY <1>1, <3>1
      <3> QED
        BY <1>4, <2>1, <3>1, <3>2
    <2>5. CASE at < k /\ j < at
      <3>1. b[j] = a[j] /\ b[k] = a[k - 1] /\ k - 1 \in 0..(n - 1) /\ j < k - 1 /\ k - 1 < run
        BY <1>4, <1>5, <1>6, <2>1, <2>5
      <3> QED
        BY <3>1
    <2>6. CASE at < j
      <3>1. /\ b[j] = a[j - 1] /\ b[k] = a[k - 1] /\ k - 1 \in 0..(n - 1) /\ j - 1 \in 0..(n - 1)
            /\ j - 1 < k - 1 /\ k - 1 < run
        BY <1>4, <1>5, <1>6, <2>1, <2>6
      <3> QED
        BY <3>1
    <2> QED
      BY <1>4, <1>6, <2>2, <2>3, <2>4, <2>5, <2>6
  <1>7. ASSUME NEW k \in 0..(n - 1) PROVE b[0] <= b[k]
    <2>1. n - 1 \in Int /\ 0 \in 0..(size - 1)
      OBVIOUS
    <2>2. b[0] = a[0]
      BY <1>4, <1>5, <2>1
    <2>3. PICK j \in 0..(n - 1) : b[k] = a[j]
      BY <1>5, <2>1, WhereFrom
    <2> QED
      BY <2>2, <2>3
  <1> QED
    BY <1>5, <1>6, <1>7 DEF b, at

\* The insertion of an element keeps the invariant: its scan stops at the first one.
LEMMA InsertRunKeeps ==
  ASSUME ArrayInv, InsertRun
  PROVE  ArrayInv'
  <1> DEFINE run == sort.run
             at == Max({k \in 0..(run - 1) : ~(cells[run] < cells[k])}) + 1
             b == Shifted(cells, at, run)
  <1>1. /\ SortStep("insert") /\ sort.at = "insert" /\ run < used /\ cells' = b /\ stack' = stack /\ contents' = contents
        /\ used' = used /\ sort' = [sort EXCEPT !.run = run + 1]
    BY DEF InsertRun, SortStep
  <1>2. /\ used \in Nat /\ allocs \in Nat /\ used <= allocs /\ Block(cells, allocs) /\ sort \in Sorts
    BY SortFacts
  <1>3. /\ run >= 2 /\ run \in Nat
        /\ \A k \in 0..(used - 1) : cells[0] <= cells[k]
        /\ \A j, k \in 0..(used - 1) : j < k /\ k < run => cells[j] <= cells[k]
    BY <1>1, <1>2 DEF ArrayInv, FrontInv, Indices, Sorts
  <1>4. /\ Block(b, allocs) /\ Shuffled(cells, b, 0, used - 1, used)
        /\ \A j, k \in 0..(used - 1) : j < k /\ k < run + 1 => b[j] <= b[k]
        /\ \A k \in 0..(used - 1) : b[0] <= b[k]
    BY <1>1, <1>2, <1>3, InsertedInOrder
  <1> HIDE DEF b
  <1>5. sort' \in Sorts /\ sort'.at = "insert" /\ sort'.run = run + 1 /\ sort'.top = 0
    <2>1. sort.top = 0
      BY <1>1 DEF ArrayInv, PartsInv, Sorting
    <2>2. run + 1 \in Int
      BY <1>3
    <2> QED
      BY <1>1, <1>2, <2>1, <2>2 DEF Sorts
  <1>6. FrontInv'
    BY <1>1, <1>3, <1>4, <1>5 DEF FrontInv, Indices
  <1>7. used - 1 \in Int /\ 0 \in Int
    BY <1>2
  <1> QED
    BY <1>1, <1>4, <1>5, <1>6, <1>7, InsertionKeeps

\* At the end of a sort the elements are in order, and the same as before.
LEMMA EndKeeps ==
  ASSUME ArrayInv, EndSort
  PROVE  ArrayInv'
  <1>1. /\ SortStep("insert") /\ sort.at = "insert" /\ sort.run >= used /\ cells' = cells /\ stack' = stack
        /\ used' = used /\ sort' = NoSort /\ contents' = Ordered(contents)
    BY DEF EndSort, SortStep
  <1>2. /\ used \in Nat /\ Block(cells, allocs) /\ sort \in Sorts /\ stack \in Stacks
        /\ contents \in Seq(Int) /\ Len(contents) = used /\ Arranged(contents, cells)
        /\ \A k \in 0..(used - 1) : cells[k] \in Int
    BY <1>1, SortFacts DEF Indices
  <1>3. \A j, k \in 0..(used - 1) : j < k => cells[j] <= cells[k]
    <2>1. \A j, k \in 0..(used - 1) : j < k /\ k < sort.run => cells[j] <= cells[k]
      BY <1>1 DEF ArrayInv, FrontInv, Indices
    <2>2. sort.run \in Int
      BY <1>2 DEF Sorts
    <2>3. \A k \in 0..(used - 1) : k < sort.run
      BY <1>1, <1>2, <2>2
    <2> QED
      BY <2>1, <2>3
  <1>4. /\ contents' \in Seq(Int) /\ Len(contents') = used
        /\ \A k \in 1..used : contents'[k] = cells[k - 1]
    BY <1>1, <1>2, <1>3, OrderedIs
  <1>5. ContentsInv' /\ PartsInv' /\ WallsInv' /\ FrontInv'
    BY <1>1, <1>4, StacksAre DEF ContentsInv, PartsInv, Sorting, WallsInv, FrontInv
  <1> QED
    BY <1>1, <1>2, <1>4, <1>5, StacksAre, SortKeeps

-----------------------------------------------------------------------------
(* The searches.                                                           *)

Answers == [known : BOOLEAN, key : Int, found : BOOLEAN, pos : Int]

\* A search, or a step of one, that ends with an answer.
LEMMA AnswerKeeps ==
  ASSUME ArrayInv, sort.at = "idle", UNCHANGED <<cells, allocs, used, sort, stack, contents>>,
         search' = NoSearch \/ search' = search, search'.at = "idle", answer' \in Answers, AnswerIsRight'
  PROVE  ArrayInv'
  <1>1. BlockInv' /\ ContentsInv' /\ PartsInv' /\ WallsInv' /\ FrontInv'
    BY DEF ArrayInv, BlockInv, ContentsInv, PartsInv, Sorting, Parts, WallsInv, FrontInv, Indices
  <1>2. CallsType'
    BY DEF ArrayInv, CallsType, NoSearch, Answers
  <1>3. SearchInv'
    BY DEF SearchInv
  <1> QED
    BY <1>1, <1>2, <1>3 DEF ArrayInv

\* A search that goes on.
LEMMA SearchKeeps ==
  ASSUME ArrayInv, sort.at = "idle", UNCHANGED <<cells, allocs, used, sort, stack, contents>>,
         search'.at = "halve", search' \in [at : {"idle", "halve"}, key : Int, st : Int, ed : Int],
         answer' \in Answers, ~answer'.known, SearchInv'
  PROVE  ArrayInv'
  <1>1. BlockInv' /\ ContentsInv' /\ PartsInv' /\ WallsInv' /\ FrontInv'
    BY DEF ArrayInv, BlockInv, ContentsInv, PartsInv, Sorting, Parts, WallsInv, FrontInv, Indices
  <1>2. CallsType' /\ AnswerIsRight'
    BY DEF ArrayInv, CallsType, Answers, AnswerIsRight
  <1> QED
    BY <1>1, <1>2 DEF ArrayInv

\* Keys are numbers.
LEMMA KeysAre == Keys \subseteq Int
  <1>1. ASSUME NEW s \in Blocks, NEW k \in DOMAIN s PROVE s[k] \in Int
    BY ArrayAssumption, LenProperties, ElementOfSeq
  <1> QED
    BY <1>1 DEF Keys

\* The elements of an array when nothing is under way.
LEMMA ElementsAre ==
  ASSUME ArrayInv, sort.at = "idle"
  PROVE  /\ used \in Nat /\ Len(contents) = used
         /\ \A k \in 0..(used - 1) : cells[k] \in Int /\ contents[k + 1] = cells[k]
         /\ \A k \in 1..used : contents[k] = cells[k - 1] /\ contents[k] \in Int
  <1>1. /\ used \in Nat /\ Len(contents) = used /\ \A k \in 1..used : contents[k] = cells[k - 1]
        /\ \A k \in 0..(used - 1) : cells[k] \in Int
    BY SortFacts DEF ArrayInv, ContentsInv, Indices
  <1>2. \A k \in 0..(used - 1) : k + 1 \in 1..used /\ (k + 1) - 1 = k
    BY <1>1
  <1>3. \A k \in 1..used : k - 1 \in 0..(used - 1)
    BY <1>1
  <1>4. \A k \in 0..(used - 1) : contents[k + 1] = cells[k]
    BY <1>1, <1>2
  <1>5. \A k \in 1..used : contents[k] \in Int
    BY <1>1, <1>3
  <1> QED
    BY <1>1, <1>4, <1>5

\* array_search keeps the invariant.
LEMMA LinearKeeps ==
  ASSUME ArrayInv, NEW key \in Keys, LinearSearch(key)
  PROVE  ArrayInv'
  <1> DEFINE places == {k \in 0..(used - 1) : cells[k] = key}
  <1>1. /\ sort.at = "idle" /\ UNCHANGED <<cells, allocs, used, sort, stack, contents>> /\ search' = search /\ search.at = "idle"
        /\ answer' = IF places # {} THEN Answer(key, TRUE, Min(places)) ELSE Answer(key, FALSE, ArrayEnd)
    BY DEF LinearSearch, ArrayCall, BeginCall, sorting_vars
  <1>2. key \in Int
    BY KeysAre
  <1>3. /\ used \in Nat /\ \A k \in 0..(used - 1) : contents[k + 1] = cells[k]
        /\ \A k \in 1..used : contents[k] = cells[k - 1]
    BY <1>1, ElementsAre
  <1>4. CASE places # {}
    <2>1. places \in SUBSET Nat
      OBVIOUS
    <2>2. Min(places) \in places
      <3> HIDE DEF places
      <3> QED
        BY <1>4, <2>1, LeastOf
    <2> DEFINE m == Min(places)
    <2>3. m \in 0..(used - 1) /\ cells[m] = key
      BY <2>2
    <2> HIDE DEF m
    <2>4. answer' = Answer(key, TRUE, m)
      BY <1>1, <1>4 DEF m
    <2>5. answer' \in Answers /\ answer'.known /\ answer'.key = key /\ answer'.found /\ answer'.pos = m
      BY <1>1, <1>2, <2>3, <2>4 DEF Answer, Answers
    <2>6. m < used /\ contents[m + 1] = key
      BY <1>3, <2>3
    <2>7. AnswerIsRight'
      BY <1>1, <2>5, <2>6 DEF AnswerIsRight
    <2> QED
      BY <1>1, <2>5, <2>7, AnswerKeeps
  <1>5. CASE places = {}
    <2>1. ArrayEnd \in Int
      BY TwoToDef, ArrayAssumption DEF ArrayEnd
    <2>2. answer' = Answer(key, FALSE, ArrayEnd)
      BY <1>1, <1>5
    <2>3. answer' \in Answers /\ answer'.known /\ answer'.key = key /\ answer'.found = FALSE /\ answer'.pos = ArrayEnd
      BY <1>2, <2>1, <2>2 DEF Answer, Answers
    <2>4. \A k \in 1..used : contents[k] # key
      <3>1. \A k \in 1..used : k - 1 \in 0..(used - 1)
        BY <1>3
      <3> QED
        BY <1>3, <1>5, <3>1
    <2>5. AnswerIsRight'
      BY <1>1, <2>3, <2>4 DEF AnswerIsRight
    <2> QED
      BY <1>1, <2>3, <2>5, AnswerKeeps
  <1> QED
    BY <1>4, <1>5

\* An answer for a sequence in order.
LEMMA FoundIs ==
  ASSUME ArrayInv, sort.at = "idle", UNCHANGED <<cells, allocs, used, sort, stack, contents>>, search' = NoSearch,
         NEW key \in Int, NEW pos \in 0..(used - 1), cells[pos] = key, answer' = Answer(key, TRUE, pos)
  PROVE  ArrayInv'
  <1>1. answer' \in Answers /\ answer'.known /\ answer'.key = key /\ answer'.found /\ answer'.pos = pos
    BY DEF Answer, Answers
  <1>2. contents[pos + 1] = key /\ pos < used
    BY ElementsAre
  <1>3. AnswerIsRight'
    BY <1>1, <1>2 DEF AnswerIsRight
  <1>4. search'.at = "idle"
    BY DEF NoSearch
  <1> QED
    BY <1>1, <1>3, <1>4, AnswerKeeps

\* An answer that the key is not there.
LEMMA NotFoundIs ==
  ASSUME ArrayInv, sort.at = "idle", UNCHANGED <<cells, allocs, used, sort, stack, contents>>, search' = NoSearch,
         \A j, k \in 1..used : j < k => contents[j] <= contents[k],
         NEW key \in Int, NEW pos \in 0..used, pos > 0 => cells[pos - 1] < key, pos < used => cells[pos] > key,
         answer' = Answer(key, FALSE, pos)
  PROVE  ArrayInv'
  <1>1. answer' \in Answers /\ answer'.known /\ answer'.key = key /\ answer'.found = FALSE /\ answer'.pos = pos
    BY DEF Answer, Answers
  <1>2. /\ used \in Nat /\ \A k \in 0..(used - 1) : cells[k] \in Int /\ contents[k + 1] = cells[k]
        /\ \A k \in 1..used : contents[k] = cells[k - 1] /\ contents[k] \in Int
    BY ElementsAre
  <1>3. ASSUME NEW k \in 1..used PROVE IF k <= pos THEN contents[k] < key ELSE key < contents[k]
    <2>1. CASE k <= pos
      <3>1. pos \in 1..used /\ contents[pos] < key /\ contents[pos] \in Int /\ contents[k] \in Int
        BY <1>2, <2>1
      <3>2. k = pos \/ k < pos
        BY <2>1
      <3>3. contents[k] <= contents[pos]
        BY <3>1, <3>2
      <3> QED
        BY <2>1, <3>1, <3>3
    <2>2. CASE ~(k <= pos)
      <3>1. pos + 1 \in 1..used /\ pos \in 0..(used - 1) /\ pos < used
        BY <1>2, <2>2
      <3>2. contents[pos + 1] = cells[pos] /\ cells[pos] > key /\ cells[pos] \in Int /\ contents[k] \in Int
        BY <1>2, <3>1
      <3>3. k = pos + 1 \/ pos + 1 < k
        BY <1>2, <2>2
      <3>4. contents[pos + 1] <= contents[k]
        BY <3>1, <3>2, <3>3
      <3> QED
        BY <2>2, <3>2, <3>4
    <2> QED
      BY <2>1, <2>2
  <1>4. \A k \in 1..used : contents[k] # key /\ (contents[k] < key <=> k <= pos)
    BY <1>2, <1>3
  <1>5. AnswerIsRight'
    BY <1>1, <1>4 DEF AnswerIsRight
  <1>6. search'.at = "idle"
    BY DEF NoSearch
  <1> QED
    BY <1>1, <1>5, <1>6, AnswerKeeps

\* The first comparisons of array_bsearch keep the invariant.
LEMMA BinaryKeeps ==
  ASSUME ArrayInv, NEW key \in Keys, BinarySearch(key)
  PROVE  ArrayInv'
  <1> DEFINE last == used - 1
             Found(found, pos) == search' = NoSearch /\ answer' = Answer(key, found, pos)
  <1>1. /\ sort.at = "idle" /\ UNCHANGED <<cells, allocs, used, sort, stack, contents>>
        /\ \A k \in 1..(used - 1) : contents[k] <= contents[k + 1]
    BY DEF BinarySearch, BeginCall
  <1>2. \/ used = 0 /\ Found(FALSE, 0)
        \/ used # 0 /\ cells[0] > key /\ Found(FALSE, 0)
        \/ used # 0 /\ cells[0] = key /\ Found(TRUE, 0)
        \/ used # 0 /\ cells[0] < key /\ cells[last] < key /\ Found(FALSE, used)
        \/ used # 0 /\ cells[0] < key /\ cells[last] = key /\ Found(TRUE, last)
        \/ /\ used # 0 /\ cells[0] < key /\ cells[last] > key
           /\ search' = [at |-> "halve", key |-> key, st |-> 0, ed |-> last]
           /\ answer' = NoAnswer
    BY DEF BinarySearch
  <1>3. key \in Int
    BY KeysAre
  <1>4. /\ used \in Nat /\ \A k \in 0..(used - 1) : cells[k] \in Int
        /\ \A k \in 1..used : contents[k] \in Int
    BY <1>1, ElementsAre
  <1>5. \A j, k \in 1..used : j < k => contents[j] <= contents[k]
    <2> DEFINE T == {d \in Nat : \A j, k \in 1..used : j <= k /\ k - j = d => contents[j] <= contents[k]}
    <2>1. ASSUME NEW d \in Nat, \A i \in Nat : i < d => i \in T PROVE d \in T
      <3> SUFFICES ASSUME NEW j \in 1..used, NEW k \in 1..used, j <= k, k - j = d PROVE contents[j] <= contents[k]
        OBVIOUS
      <3>1. CASE d = 0
        BY <1>4, <3>1
      <3>2. CASE d # 0
        <4>1. d - 1 \in T /\ k - 1 \in 1..used /\ k - 1 \in 1..(used - 1) /\ j <= k - 1 /\ (k - 1) - j = d - 1 /\ (k - 1) + 1 = k
          BY <1>4, <2>1, <3>2
        <4>2. contents[j] <= contents[k - 1]
          BY <4>1
        <4>3. contents[k - 1] <= contents[(k - 1) + 1]
          BY <1>1, <4>1
        <4>4. contents[j] \in Int /\ contents[k - 1] \in Int /\ contents[k] \in Int
          BY <1>4, <4>1
        <4> QED
          BY <4>1, <4>2, <4>3, <4>4
      <3> QED
        BY <3>1, <3>2
    <2> HIDE DEF T
    <2>2. T \in SUBSET Nat
      BY DEF T
    <2>3. T = Nat
      BY <2>1, <2>2, EachNat
    <2>4. \A j, k \in 1..used : j < k => k - j \in T /\ j <= k
      BY <1>4, <2>3
    <2> QED
      BY <2>4 DEF T
  <1>6. CASE used = 0 /\ Found(FALSE, 0)
    <2>1. 0 \in 0..used /\ ~(0 > 0) /\ ~(0 < used)
      BY <1>4, <1>6
    <2> QED
      BY <1>1, <1>3, <1>5, <1>6, <2>1, NotFoundIs
  <1>7. CASE used # 0 /\ cells[0] > key /\ Found(FALSE, 0)
    <2>1. 0 \in 0..used /\ (0 < used => cells[0] > key) /\ ~(0 > 0)
      BY <1>4, <1>7
    <2> QED
      BY <1>1, <1>3, <1>5, <1>7, <2>1, NotFoundIs
  <1>8. CASE used # 0 /\ cells[0] = key /\ Found(TRUE, 0)
    <2>1. 0 \in 0..(used - 1)
      BY <1>4, <1>8
    <2> QED
      BY <1>1, <1>3, <1>8, <2>1, FoundIs
  <1>9. CASE used # 0 /\ cells[0] < key /\ cells[last] < key /\ Found(FALSE, used)
    <2>1. used \in 0..used /\ ~(used < used) /\ (used > 0 => cells[used - 1] < key)
      BY <1>4, <1>9
    <2> QED
      BY <1>1, <1>3, <1>5, <1>9, <2>1, NotFoundIs
  <1>10. CASE used # 0 /\ cells[0] < key /\ cells[last] = key /\ Found(TRUE, last)
    <2>1. last \in 0..(used - 1)
      BY <1>4, <1>10
    <2> QED
      BY <1>1, <1>3, <1>10, <2>1, FoundIs
  <1>11. CASE /\ used # 0 /\ cells[0] < key /\ cells[last] > key
              /\ search' = [at |-> "halve", key |-> key, st |-> 0, ed |-> last]
              /\ answer' = NoAnswer
    <2>1. last \in Int /\ 0 \in 0..(used - 1) /\ last \in 0..(used - 1)
      BY <1>4, <1>11
    <2>2. last < used /\ (last # 0 => 0 < last)
      BY <1>4, <2>1
    <2>3. last # 0
      BY <1>3, <1>4, <1>11, <2>1
    <2> HIDE DEF last
    <2>4. /\ search'.at = "halve" /\ search'.key = key /\ search'.st = 0 /\ search'.ed = last
          /\ search' \in [at : {"idle", "halve"}, key : Int, st : Int, ed : Int]
      BY <1>3, <1>11, <2>1
    <2>5. SearchInv'
      BY <1>1, <1>5, <1>11, <2>1, <2>2, <2>3, <2>4 DEF SearchInv
    <2> QED
      BY <1>1, <1>11, <2>4, <2>5, NoAnswerIs, SearchKeeps DEF Answers
  <1> QED
    BY <1>2, <1>6, <1>7, <1>8, <1>9, <1>10, <1>11

\* A turn of blib_bsearch keeps the invariant: the key is between its two ends.
LEMMA HalveKeeps ==
  ASSUME ArrayInv, Halve
  PROVE  ArrayInv'
  <1> DEFINE st == search.st
             ed == search.ed
             key == search.key
             mid == (ed + st) \div 2
  <1>1. /\ search.at = "halve" /\ UNCHANGED <<cells, allocs, used, sort, stack, contents>>
    BY DEF Halve
  <1>2. /\ sort.at = "idle" /\ ~answer.known /\ answer \in Answers
        /\ search \in [at : {"idle", "halve"}, key : Int, st : Int, ed : Int]
    BY <1>1 DEF ArrayInv, CallsType, Answers
  <1>3. \/ ed - st = 1 /\ search' = NoSearch /\ answer' = Answer(key, FALSE, st + 1)
        \/ ed - st # 1 /\ cells[mid] < key /\ search' = [search EXCEPT !.st = mid] /\ UNCHANGED answer
        \/ ed - st # 1 /\ cells[mid] > key /\ search' = [search EXCEPT !.ed = mid] /\ UNCHANGED answer
        \/ ed - st # 1 /\ cells[mid] = key /\ search' = NoSearch /\ answer' = Answer(key, TRUE, mid)
    BY DEF Halve
  <1>4. st \in Int /\ ed \in Int /\ key \in Int
    BY <1>2
  <1>5. /\ 0 <= st /\ st < ed /\ ed < used /\ cells[st] < key /\ key < cells[ed]
        /\ \A j, k \in 1..used : j < k => contents[j] <= contents[k]
    BY <1>1 DEF ArrayInv, SearchInv
  <1>6. used \in Nat
    BY SortFacts
  <1>7. mid \in Int /\ (ed - st # 1 => st < mid /\ mid < ed /\ mid \in 0..(used - 1))
    BY <1>4, <1>5, <1>6
  <1> HIDE DEF mid
  <1>8. CASE ed - st = 1 /\ search' = NoSearch /\ answer' = Answer(key, FALSE, st + 1)
    <2> DEFINE pos == st + 1
    <2>1. pos \in 0..used /\ pos - 1 = st /\ ed = pos
      BY <1>4, <1>5, <1>6, <1>8
    <2>2. (pos > 0 => cells[pos - 1] < key) /\ (pos < used => cells[pos] > key)
      BY <1>5, <2>1
    <2>3. answer' = Answer(key, FALSE, pos)
      BY <1>8
    <2> HIDE DEF pos
    <2> QED
      BY <1>1, <1>2, <1>4, <1>5, <1>8, <2>1, <2>2, <2>3, NotFoundIs
  <1>9. CASE ed - st # 1 /\ cells[mid] < key /\ search' = [search EXCEPT !.st = mid] /\ UNCHANGED answer
    <2>1. /\ search'.at = "halve" /\ search'.key = key /\ search'.st = mid /\ search'.ed = ed
          /\ search' \in [at : {"idle", "halve"}, key : Int, st : Int, ed : Int]
      BY <1>1, <1>2, <1>7, <1>9
    <2>2. SearchInv'
      BY <1>1, <1>4, <1>5, <1>7, <1>9, <2>1 DEF SearchInv
    <2> QED
      BY <1>1, <1>2, <1>9, <2>1, <2>2, SearchKeeps
  <1>10. CASE ed - st # 1 /\ cells[mid] > key /\ search' = [search EXCEPT !.ed = mid] /\ UNCHANGED answer
    <2>1. /\ search'.at = "halve" /\ search'.key = key /\ search'.st = st /\ search'.ed = mid
          /\ search' \in [at : {"idle", "halve"}, key : Int, st : Int, ed : Int]
      BY <1>1, <1>2, <1>7, <1>10
    <2>2. cells[mid] \in Int
      BY <1>2, <1>7, <1>10, ElementsAre
    <2>3. SearchInv'
      BY <1>1, <1>4, <1>5, <1>6, <1>7, <1>10, <2>1, <2>2 DEF SearchInv
    <2> QED
      BY <1>1, <1>2, <1>10, <2>1, <2>3, SearchKeeps
  <1>11. CASE ed - st # 1 /\ cells[mid] = key /\ search' = NoSearch /\ answer' = Answer(key, TRUE, mid)
    BY <1>1, <1>2, <1>4, <1>7, <1>11, FoundIs
  <1> QED
    BY <1>3, <1>8, <1>9, <1>10, <1>11

-----------------------------------------------------------------------------
(* The theorem.                                                            *)

\* An array that was read from a stream satisfies the invariant.
LEMMA InitHolds == ArrayInit => ArrayInv
  <1> SUFFICES ASSUME ArrayInit PROVE ArrayInv
    OBVIOUS
  <1> DEFINE new == NewBlock(allocs, <<>>)
  <1>1. /\ contents \in Seq(Int) /\ Len(contents) = used /\ used \in Nat /\ used <= MaxElems
    BY ArrayAssumption, LenProperties DEF ArrayInit
  <1>2. Enough(allocs, used) /\ allocs \in Nat /\ used <= allocs /\ allocs * ElemSize \in Nat /\ allocs * ElemSize < TwoTo[Width]
    BY <1>1, EnoughIs DEF ArrayInit, Enough
  <1>3. cells = Stored(new, 0, contents)
    BY DEF ArrayInit
  <1>4. Block(new, allocs)
    <2>1. Block(<<>>, 0)
      BY DEF Block
    <2> QED
      BY <1>2, <2>1, NewBlockKeeps
  <1> HIDE DEF new
  <1>5. WithStored(cells, new, allocs, 0, contents)
    BY <1>1, <1>2, <1>3, <1>4, StoredIs
  <1>6. BlockInv
    BY <1>1, <1>2, <1>5 DEF BlockInv, WithStored
  <1>7. \A k \in 1..used : contents[k] = cells[k - 1]
    <2> SUFFICES ASSUME NEW k \in 1..used PROVE contents[k] = cells[k - 1]
      OBVIOUS
    <2>1. k - 1 \in 0..(allocs - 1) /\ 0 <= k - 1 /\ k - 1 < 0 + used /\ (k - 1) - 0 + 1 = k
      BY <1>1, <1>2
    <2> QED
      BY <1>1, <1>5, <2>1 DEF WithStored
  <1>8. sort = NoSort /\ stack = EmptyStack /\ search = NoSearch /\ answer = NoAnswer
    BY DEF ArrayInit
  <1>9. sort.at = "idle" /\ sort.top = 0 /\ search.at = "idle"
    BY <1>8 DEF NoSort, NoSearch
  <1>10. CallsType
    BY <1>8, <1>9, StacksAre, NoAnswerIs DEF CallsType, NoSearch
  <1>11. AnswerIsRight
    BY <1>8, NoAnswerIs DEF AnswerIsRight
  <1> QED
    BY <1>6, <1>7, <1>9, <1>10, <1>11 DEF ArrayInv, ContentsInv, PartsInv, Sorting, WallsInv, FrontInv, SearchInv

\* Every step of every call keeps it.
LEMMA StepHolds == ArrayInv /\ [ArrayNext]_array_vars => ArrayInv'
  <1> SUFFICES ASSUME ArrayInv, [ArrayNext]_array_vars PROVE ArrayInv'
    OBVIOUS
  <1>1. CASE \E s \in Blocks : JoinElems(s) \/ \E pos \in 0..used \cup {ArrayEnd} : InsertElems(pos, s)
    BY <1>1, JoinKeeps, InsertKeeps
  <1>2. CASE \E at \in 0..(used - 1), n \in 1..used : DeleteElems(at, n)
    BY <1>2, DeleteKeeps
  <1>3. CASE ClearArray \/ CopyArray
    BY <1>3, ClearKeeps, CopyKeeps
  <1>4. CASE SortArray \/ Median \/ CollapseWalls \/ Split \/ LeastFirst \/ InsertRun \/ EndSort
    BY <1>4, SortBegins, MedianKeeps, CollapseKeeps, SplitKeeps, LeastKeeps, InsertRunKeeps, EndKeeps
  <1>5. CASE \E key \in Keys : LinearSearch(key) \/ BinarySearch(key)
    BY <1>5, LinearKeeps, BinaryKeeps
  <1>6. CASE Halve
    BY <1>6, HalveKeeps
  <1>7. CASE UNCHANGED array_vars
    <2>1. UNCHANGED <<cells, allocs, used, sort, stack, search, contents, answer>>
      BY <1>7 DEF array_vars, sorting_vars
    <2>2. BlockInv' /\ ContentsInv' /\ CallsType' /\ AnswerIsRight'
      BY <2>1 DEF ArrayInv, BlockInv, ContentsInv, CallsType, AnswerIsRight
    <2>3. PartsInv'
      BY <2>1 DEF ArrayInv, PartsInv, Sorting, Parts, Indices
    <2>4. WallsInv' /\ FrontInv' /\ SearchInv'
      BY <2>1 DEF ArrayInv, WallsInv, FrontInv, SearchInv, Indices
    <2> QED
      BY <2>2, <2>3, <2>4 DEF ArrayInv
  <1> QED
    BY <1>1, <1>2, <1>3, <1>4, <1>5, <1>6, <1>7 DEF ArrayNext

\* It implies that the array is the sequence.
LEMMA InvIsSequence == ArrayInv => ArrayIsSequence
  <1> SUFFICES ASSUME ArrayInv PROVE ArrayIsSequence
    OBVIOUS
  <1>1. /\ used \in Nat /\ allocs \in Nat /\ used <= allocs /\ Block(cells, allocs)
        /\ contents \in Seq(Int) /\ Len(contents) = used /\ sort \in Sorts
        /\ \A k \in Indices : cells[k] \in Int
    BY SortFacts
  <1>2. allocs = MinAllocs \/ allocs < 2 * used
    BY DEF ArrayInv, BlockInv, Enough
  <1>3. ASSUME sort.at = "idle" PROVE Taken(cells, 0, used) = contents
    <2> DEFINE t == Taken(cells, 0, used)
    <2>1. IsTaken(t, cells, allocs, 0, used)
      BY <1>1, TakenIs
    <2> HIDE DEF t
    <2>2. t \in Seq(Int) /\ Len(t) = Len(contents)
      BY <1>1, <2>1 DEF IsTaken
    <2>3. ASSUME NEW k \in 1..Len(t) PROVE t[k] = contents[k]
      <3>1. k \in 1..used /\ 0 + k <= allocs /\ 0 + k - 1 = k - 1
        BY <1>1, <2>2
      <3>2. contents[k] = cells[k - 1]
        BY <1>3, <3>1 DEF ArrayInv, ContentsInv
      <3> QED
        BY <2>1, <3>1, <3>2 DEF IsTaken
    <2> QED
      BY <1>1, <2>2, <2>3, SeqEqual DEF t
  <1>4. SortStaysInside
    <2>1. ASSUME sort.at = "walls"
          PROVE  /\ \E k \in sort.left..sort.hi : ~(cells[k] < cells[sort.mid])
                 /\ \E k \in sort.lo..sort.right : ~(cells[sort.mid] < cells[k])
      <3>1. Sorting
        BY <2>1 DEF Sorting
      <3>2. sort.lo \in Nat /\ sort.hi \in Int /\ sort.hi < used
        BY <3>1, PartInHand
      <3>3. /\ sort.left \in Int /\ sort.right \in Int /\ sort.mid \in Int
            /\ sort.lo < sort.left /\ sort.left <= sort.right /\ sort.right < sort.hi
            /\ sort.lo <= sort.mid /\ sort.mid <= sort.hi
            /\ Walls(cells, sort.lo, sort.left, sort.right, sort.hi, cells[sort.mid])
        BY <1>1, <2>1 DEF ArrayInv, WallsInv, Sorts
      <3> DEFINE i == sort.right + 1
                 j == sort.left - 1
      <3>4. /\ i \in sort.left..sort.hi /\ i \in (sort.right + 1)..sort.hi /\ i \in Indices
            /\ j \in sort.lo..sort.right /\ j \in sort.lo..(sort.left - 1) /\ j \in Indices
            /\ sort.mid \in Indices
        <4>1. i \in sort.left..sort.hi /\ i \in (sort.right + 1)..sort.hi
          BY <3>2, <3>3
        <4>2. j \in sort.lo..sort.right /\ j \in sort.lo..(sort.left - 1)
          BY <3>2, <3>3
        <4>0. used \in Nat
          BY <1>1
        <4>3. i \in Indices
          <5>1. 0 <= i /\ i < used /\ i \in Int
            BY <3>2, <3>3, <4>0
          <5> QED
            BY <4>0, <5>1 DEF Indices
        <4>4. j \in Indices
          <5>1. 0 <= j /\ j < used /\ j \in Int
            BY <3>2, <3>3, <4>0
          <5> QED
            BY <4>0, <5>1 DEF Indices
        <4>5. sort.mid \in Indices
          <5>1. 0 <= sort.mid /\ sort.mid < used /\ sort.mid \in Int
            BY <3>2, <3>3, <4>0
          <5> QED
            BY <4>0, <5>1 DEF Indices
        <4> QED
          BY <4>1, <4>2, <4>3, <4>4, <4>5
      <3>5. cells[sort.mid] <= cells[i] /\ cells[j] <= cells[sort.mid]
        BY <3>3, <3>4 DEF Walls
      <3>6. cells[i] \in Int /\ cells[j] \in Int /\ cells[sort.mid] \in Int
        BY <1>1, <3>4
      <3> HIDE DEF i, j
      <3> QED
        BY <3>4, <3>5, <3>6
    <2>2. ASSUME sort.at = "insert", sort.run < used PROVE \E k \in 0..(sort.run - 1) : ~(cells[sort.run] < cells[k])
      <3>1. sort.run \in Int /\ sort.run >= 2 /\ \A k \in Indices : cells[0] <= cells[k]
        BY <1>1, <2>2 DEF ArrayInv, FrontInv, Sorts
      <3>2. sort.run \in Indices /\ 0 \in Indices /\ 0 \in 0..(sort.run - 1)
        BY <1>1, <2>2, <3>1 DEF Indices
      <3>3. cells[0] <= cells[sort.run] /\ cells[0] \in Int /\ cells[sort.run] \in Int
        BY <1>1, <3>1, <3>2
      <3> QED
        BY <3>2, <3>3
    <2>3. sort.top <= StackSize
      BY <1>1, ArrayAssumption DEF ArrayInv, PartsInv, StackSize, Sorts
    <2> QED
      BY <2>1, <2>2, <2>3 DEF SortStaysInside
  <1>5. AnswerIsRight
    BY DEF ArrayInv
  <1> QED
    BY <1>1, <1>2, <1>3, <1>4, <1>5 DEF ArrayIsSequence

\* Through any calls an array holds the sequence they describe in a block of the right size,
\* a sort stays inside its part and its stack and loses nothing, and a search finds what is
\* there: for all elements, sizes of them, widths of numbers and orders of the calls.
THEOREM ArraysAreSequences == ArraySpec => []ArrayIsSequence
  <1>1. ArraySpec => []ArrayInv
    BY InitHolds, StepHolds, PTL DEF ArraySpec
  <1> QED
    BY <1>1, InvIsSequence, PTL
==============================================================================
