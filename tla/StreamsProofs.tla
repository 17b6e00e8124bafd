----------------------------- MODULE StreamsProofs -----------------------------
(***************************************************************************)
(* Proofs about Streams for any sizes of reads, files and caches, any      *)
(* number of calls, and doublings of a buffer to any size.                 *)
(***************************************************************************)
EXTENDS Streams, PowersProofs, SequenceTheorems, FiniteSetTheorems

-----------------------------------------------------------------------------
(* Sequences.                                                              *)

\* A part of a sequence.
LEMMA PartOf ==
  ASSUME NEW s \in Seq(Nat), NEW m \in Nat, NEW n \in Nat, m <= n, n <= Len(s)
  PROVE  /\ SubSeq(s, m + 1, n) \in Seq(Nat)
         /\ Len(SubSeq(s, m + 1, n)) = n - m
         /\ \A k \in 1..(n - m) : SubSeq(s, m + 1, n)[k] = s[m + k]
  <1> DEFINE f == m + 1
  <1>1. f \in Int /\ \A k \in f..n : s[k] \in Nat
    BY ElementOfSeq
  <1> HIDE DEF f
  <1>2. /\ SubSeq(s, f, n) \in Seq(Nat)
        /\ Len(SubSeq(s, f, n)) = IF f <= n THEN n - f + 1 ELSE 0
        /\ \A k \in 1..(n - f + 1) : SubSeq(s, f, n)[k] = s[f + k - 1]
    BY <1>1, SubSeqProperties
  <1>3. n - f + 1 = n - m /\ (f <= n \/ n - m = 0)
    BY DEF f
  <1>4. \A k \in 1..(n - m) : f + k - 1 = m + k
    BY DEF f
  <1>5. SubSeq(s, f, n) \in Seq(Nat) /\ Len(SubSeq(s, f, n)) = n - m
    BY <1>2, <1>3
  <1>6. \A k \in 1..(n - m) : SubSeq(s, f, n)[k] = s[m + k]
    BY <1>2, <1>3, <1>4
  <1> QED
    BY <1>5, <1>6 DEF f

\* Sequences one behind the other, and the elements of one behind the m-th up to the n-th.
Cat(s, t) == s \o t
Part(s, m, n) == SubSeq(s, m + 1, n)

LEMMA CatSeq ==
  ASSUME NEW s \in Seq(Nat), NEW t \in Seq(Nat)
  PROVE  Cat(s, t) \in Seq(Nat) /\ Len(Cat(s, t)) = Len(s) + Len(t)
  BY ConcatProperties DEF Cat

LEMMA CatEmpty ==
  ASSUME NEW s \in Seq(Nat)
  PROVE  Cat(s, <<>>) = s /\ Cat(<<>>, s) = s
  BY ConcatEmptySeq DEF Cat

LEMMA CatAssociative ==
  ASSUME NEW s \in Seq(Nat), NEW t \in Seq(Nat), NEW u \in Seq(Nat)
  PROVE  Cat(Cat(s, t), u) = Cat(s, Cat(t, u))
  <1>1. (s \o t) \o u = s \o (t \o u)
    BY ConcatAssociative, SMTT(30)
  <1> QED
    BY <1>1 DEF Cat

LEMMA PartSeq ==
  ASSUME NEW s \in Seq(Nat), NEW m \in Nat, NEW n \in Nat, m <= n, n <= Len(s)
  PROVE  Part(s, m, n) \in Seq(Nat) /\ Len(Part(s, m, n)) = n - m
  BY PartOf DEF Part

\* A sequence is its beginning with the rest behind it.
LEMMA SplitSeq ==
  ASSUME NEW s \in Seq(Nat), NEW n \in Nat, n <= Len(s)
  PROVE  /\ Part(s, 0, n) \in Seq(Nat) /\ Len(Part(s, 0, n)) = n
         /\ Part(s, n, Len(s)) \in Seq(Nat) /\ Len(Part(s, n, Len(s))) = Len(s) - n
         /\ Cat(Part(s, 0, n), Part(s, n, Len(s))) = s
  <1>1. 1 \in 1..Len(s) + 1 /\ n \in (1 - 1)..Len(s) /\ Len(s) \in n..Len(s)
    BY LenProperties
  <1>2. SubSeq(s, 1, n) \o SubSeq(s, n + 1, Len(s)) = SubSeq(s, 1, Len(s))
    BY <1>1, ConcatAdjacentSubSeq
  <1>3. SubSeq(s, 1, Len(s)) = s /\ 0 + 1 = 1
    BY SubSeqFull
  <1>4. Cat(Part(s, 0, n), Part(s, n, Len(s))) = s
    BY <1>2, <1>3 DEF Cat, Part
  <1>5. Len(s) \in Nat /\ Len(s) <= Len(s) /\ 0 \in Nat /\ 0 <= n
    BY LenProperties
  <1>6. Part(s, 0, n) \in Seq(Nat) /\ Len(Part(s, 0, n)) = n - 0
    BY <1>5, PartSeq
  <1>7. Part(s, n, Len(s)) \in Seq(Nat) /\ Len(Part(s, n, Len(s))) = Len(s) - n
    BY <1>5, PartSeq
  <1> QED
    BY <1>4, <1>6, <1>7

-----------------------------------------------------------------------------
(* Buffers.                                                                *)

Buffer == [cells : Seq(Nat), r : Nat, w : Nat]
BufferOK(b) == b \in Buffer /\ b.r <= b.w /\ b.w <= Len(b.cells)

\* What is unread, cell by cell.
LEMMA UnreadIs ==
  ASSUME NEW b, BufferOK(b)
  PROVE  /\ Unread(b) \in Seq(Nat) /\ Len(Unread(b)) = b.w - b.r
         /\ \A k \in 1..(b.w - b.r) : Unread(b)[k] = b.cells[b.r + k]
  <1>1. /\ b.cells \in Seq(Nat) /\ b.r \in Nat /\ b.w \in Nat /\ b.r <= b.w
        /\ b.w <= Len(b.cells) /\ Len(b.cells) \in Nat
    BY LenProperties DEF BufferOK, Buffer
  <1> DEFINE c == b.cells
             r == b.r
             w == b.w
  <1>2. c \in Seq(Nat) /\ r \in Nat /\ w \in Nat /\ r <= w /\ w <= Len(c)
    BY <1>1
  <1>3. Unread(b) = SubSeq(c, r + 1, w)
    BY DEF Unread
  <1> HIDE DEF c, r, w
  <1>4. /\ SubSeq(c, r + 1, w) \in Seq(Nat) /\ Len(SubSeq(c, r + 1, w)) = w - r
        /\ \A k \in 1..(w - r) : SubSeq(c, r + 1, w)[k] = c[r + k]
    BY <1>2, PartOf
  <1>5. /\ Unread(b) \in Seq(Nat) /\ Len(Unread(b)) = w - r
        /\ \A k \in 1..(w - r) : Unread(b)[k] = c[r + k]
    BY <1>3, <1>4
  <1> QED
    BY <1>5 DEF c, r, w

\* Cells are kept one by one.
LEMMA CellsSeq ==
  ASSUME NEW n \in Nat, NEW f \in [1..n -> Nat]
  PROVE  f \in Seq(Nat) /\ Len(f) = n
  <1>1. f \in Seq(Nat)
    BY SeqDef
  <1> QED
    BY <1>1, LenProperties

LEMMA EmptyBufferOK ==
  ASSUME NEW n \in Nat
  PROVE  LET b == EmptyBuffer(n)
         IN  BufferOK(b) /\ Unread(b) = <<>> /\ b.r = 0 /\ b.w = 0 /\ Len(b.cells) = n /\ Room(b) = n
  <1> DEFINE c == [k \in 1..n |-> Garbage]
  <1>1. c \in Seq(Nat) /\ Len(c) = n
    BY CellsSeq DEF Garbage
  <1> HIDE DEF c
  <1>2. EmptyBuffer(n) = [cells |-> c, r |-> 0, w |-> 0]
    BY DEF EmptyBuffer, c
  <1>3. BufferOK(EmptyBuffer(n)) /\ Room(EmptyBuffer(n)) = n
    BY <1>1, <1>2 DEF BufferOK, Buffer, Room
  <1>4. Unread(EmptyBuffer(n)) = <<>>
    BY <1>2, SubSeqEmpty DEF Unread
  <1> QED
    BY <1>1, <1>2, <1>3, <1>4

LEMMA FilledOK ==
  ASSUME NEW s \in Seq(Nat)
  PROVE  BufferOK(Filled(s)) /\ Unread(Filled(s)) = s
  BY LenProperties, SubSeqFull DEF Filled, BufferOK, Buffer, Unread

LEMMA RoomInt ==
  ASSUME NEW b \in Buffer
  PROVE  Room(b) \in Int
  <1>1. Len(b.cells) \in Nat /\ b.w \in Nat
    BY LenProperties DEF Buffer
  <1> QED
    BY <1>1 DEF Room

\* Bytes that are added come behind what is unread.
Behind(c, d, w, s) == \A k \in 1..Len(c) : d[k] = IF k \in (w + 1)..(w + Len(s)) THEN s[k - w] ELSE c[k]

LEMMA AddedBehind ==
  ASSUME NEW c \in Seq(Nat), NEW d \in Seq(Nat), NEW s \in Seq(Nat), NEW r \in Nat, NEW w \in Nat,
         r <= w, w + Len(s) <= Len(c), Len(d) = Len(c), Behind(c, d, w, s)
  PROVE  Part(d, r, w + Len(s)) = Cat(Part(c, r, w), s)
  <1> DEFINE old == SubSeq(c, r + 1, w)
             n   == w + Len(s)
             new == SubSeq(d, r + 1, n)
  <1>1. Len(c) \in Nat /\ w <= Len(c) /\ w - r \in Nat /\ n \in Nat /\ r <= n /\ n <= Len(d)
    BY LenProperties
  <1>2. old \in Seq(Nat) /\ Len(old) = w - r /\ \A k \in 1..(w - r) : old[k] = c[r + k]
    <2>1. w <= Len(c)
      BY <1>1
    <2> HIDE DEF n, new
    <2> QED
      BY <2>1, PartOf
  <1>3. new \in Seq(Nat) /\ Len(new) = n - r /\ \A k \in 1..(n - r) : new[k] = d[r + k]
    BY <1>1, PartOf
  <1> HIDE DEF old, new
  <1>4. /\ old \o s \in Seq(Nat) /\ Len(old \o s) = Len(old) + Len(s)
        /\ \A k \in 1..Len(old) + Len(s) :
              (old \o s)[k] = IF k <= Len(old) THEN old[k] ELSE s[k - Len(old)]
    <2>1. old \in Seq(Nat)
      BY <1>2
    <2> QED
      BY <2>1, ConcatProperties
  <1>5. Len(old \o s) = n - r
    BY <1>1, <1>2, <1>4
  <1>6. ASSUME NEW k \in 1..(n - r) PROVE new[k] = (old \o s)[k]
    <2>0. Len(old) = w - r
      BY <1>2
    <2>1. r + k \in 1..Len(c) /\ new[k] = d[r + k] /\ k \in 1..Len(old) + Len(s)
      <3>1. r + k \in 1..Len(c) /\ k \in 1..Len(old) + Len(s)
        BY <1>1, <2>0
      <3>2. new[k] = d[r + k]
        BY <1>3
      <3> QED
        BY <3>1, <3>2
    <2>2. d[r + k] = IF r + k \in (w + 1)..(w + Len(s)) THEN s[r + k - w] ELSE c[r + k]
      <3> DEFINE m == r + k
      <3>1. m \in 1..Len(c)
        BY <2>1
      <3> HIDE DEF m
      <3>2. d[m] = IF m \in (w + 1)..(w + Len(s)) THEN s[m - w] ELSE c[m]
        BY <3>1 DEF Behind
      <3> QED
        BY <3>2 DEF m
    <2>3. CASE k <= w - r
      <3>1. r + k \notin (w + 1)..(w + Len(s)) /\ k \in 1..(w - r)
        BY <2>3
      <3> QED
        BY <1>2, <1>4, <2>1, <2>2, <2>3, <3>1
    <2>4. CASE ~(k <= w - r)
      <3>1. r + k \in (w + 1)..(w + Len(s)) /\ r + k - w = k - (w - r)
        BY <2>4
      <3>2. (old \o s)[k] = s[k - (w - r)]
        BY <1>2, <1>4, <2>1, <2>4
      <3>3. d[r + k] = s[r + k - w]
        BY <2>2, <3>1
      <3> QED
        BY <2>1, <3>1, <3>2, <3>3
    <2> QED
      BY <2>3, <2>4
  <1>7. new = old \o s
    BY <1>3, <1>4, <1>5, <1>6, SeqEqual
  <1> QED
    BY <1>7 DEF old, new, Cat, Part

LEMMA BufferedOK ==
  ASSUME NEW b, BufferOK(b), NEW s \in Seq(Nat), Len(s) <= Room(b)
  PROVE  /\ BufferOK(Buffered(b, s)) /\ Unread(Buffered(b, s)) = Cat(Unread(b), s)
         /\ Buffered(b, s).r = b.r /\ Len(Buffered(b, s).cells) = Len(b.cells)
  <1> DEFINE c == [k \in DOMAIN b.cells |->
                      IF k \in (b.w + 1)..(b.w + Len(s)) THEN s[k - b.w] ELSE b.cells[k]]
             t == Buffered(b, s)
  <1>1. /\ b.cells \in Seq(Nat) /\ b.r \in Nat /\ b.w \in Nat /\ b.r <= b.w
        /\ b.w + Len(s) <= Len(b.cells) /\ Len(b.cells) \in Nat /\ Len(s) \in Nat
        /\ DOMAIN b.cells = 1..Len(b.cells)
    BY LenProperties DEF BufferOK, Buffer, Room
  <1>2. c \in Seq(Nat) /\ Len(c) = Len(b.cells)
    <2>1. ASSUME NEW k \in 1..Len(b.cells) PROVE c[k] \in Nat
      <3>1. b.cells[k] \in Nat
        BY <1>1, ElementOfSeq
      <3>2. ASSUME k \in (b.w + 1)..(b.w + Len(s)) PROVE s[k - b.w] \in Nat
        <4>1. k - b.w \in 1..Len(s)
          <5>1. b.w \in Nat /\ Len(s) \in Nat
            BY <1>1
          <5> QED
            BY <3>2, <5>1
        <4> QED
          BY <4>1, ElementOfSeq
      <3> QED
        BY <1>1, <3>1, <3>2
    <2> QED
      BY <1>1, <2>1, CellsSeq
  <1>3. \A k \in 1..Len(b.cells) :
            c[k] = IF k \in (b.w + 1)..(b.w + Len(s)) THEN s[k - b.w] ELSE b.cells[k]
    BY <1>1
  <1>4. t.cells = c /\ t.r = b.r /\ t.w = b.w + Len(s) /\ t \in Buffer
    <2>1. \A d \in Seq(Nat), n \in Nat :
             LET u == [b EXCEPT !.cells = d, !.w = n]
             IN  u \in Buffer /\ u.cells = d /\ u.r = b.r /\ u.w = n
      BY DEF BufferOK, Buffer
    <2>2. t = [b EXCEPT !.cells = c, !.w = b.w + Len(s)]
      BY DEF Buffered
    <2>3. b.w + Len(s) \in Nat
      BY <1>1
    <2> HIDE DEF c, t
    <2> QED
      BY <1>2, <2>1, <2>2, <2>3
  <1> HIDE DEF c, t
  <1>5. BufferOK(t) /\ t.r = b.r /\ Len(t.cells) = Len(b.cells)
    BY <1>1, <1>2, <1>4 DEF BufferOK
  <1>6. Unread(t) = Cat(Unread(b), s)
    <2>1. Behind(b.cells, c, b.w, s)
      BY <1>3 DEF Behind
    <2>2. Part(c, b.r, b.w + Len(s)) = Cat(Part(b.cells, b.r, b.w), s)
      BY <1>1, <1>2, <2>1, AddedBehind
    <2>3. Unread(t) = Part(c, b.r, b.w + Len(s)) /\ Unread(b) = Part(b.cells, b.r, b.w)
      BY <1>4 DEF Unread, Part
    <2> QED
      BY <2>2, <2>3
  <1> QED
    BY <1>5, <1>6 DEF t

\* Bytes that are read are the first of the unread ones.
Without(c, d, n) == \A k \in 1..Len(c) : k > n => d[k] = c[k]

LEMMA TakenBefore ==
  ASSUME NEW c \in Seq(Nat), NEW d \in Seq(Nat), NEW r \in Nat, NEW w \in Nat, NEW n \in Nat,
         r + n <= w, w <= Len(c), Len(d) = Len(c), Without(c, d, r + n)
  PROVE  Part(d, r + n, w) = Part(Part(c, r, w), n, w - r)
  <1> DEFINE l == w - r
             f == r + n
             old == SubSeq(c, r + 1, w)
             rest == SubSeq(old, n + 1, l)
             new == SubSeq(d, f + 1, w)
  <1>1. Len(c) \in Nat /\ f \in Nat /\ l \in Nat /\ r <= w /\ n <= l /\ f <= w /\ w <= Len(d)
    BY LenProperties
  <1>2. old \in Seq(Nat) /\ Len(old) = l /\ \A k \in 1..l : old[k] = c[r + k]
    <2>1. r <= w /\ w <= Len(c)
      BY <1>1
    <2> HIDE DEF f, rest, new
    <2> QED
      BY <2>1, PartOf
  <1>3. new \in Seq(Nat) /\ Len(new) = w - f /\ \A k \in 1..(w - f) : new[k] = d[f + k]
    <2> HIDE DEF f
    <2> QED
      BY <1>1, PartOf
  <1> HIDE DEF old, new
  <1>4. rest \in Seq(Nat) /\ Len(rest) = l - n /\ \A k \in 1..(l - n) : rest[k] = old[n + k]
    <2>1. old \in Seq(Nat) /\ Len(old) = l
      BY <1>2
    <2> HIDE DEF l
    <2> QED
      BY <1>1, <2>1, PartOf
  <1> HIDE DEF rest
  <1>5. ASSUME NEW k \in 1..(w - f) PROVE new[k] = rest[k]
    <2>1. /\ k \in 1..(l - n) /\ n + k \in 1..l /\ f + k \in 1..Len(c)
          /\ r + (n + k) = f + k /\ f + k > r + n
      BY <1>1
    <2>2. new[k] = d[f + k]
      BY <1>3
    <2>3. rest[k] = old[n + k]
      BY <1>4, <2>1
    <2>4. old[n + k] = c[r + (n + k)]
      BY <1>2, <2>1
    <2>5. d[f + k] = c[f + k]
      BY <2>1 DEF Without
    <2> QED
      BY <2>1, <2>2, <2>3, <2>4, <2>5
  <1>6. Len(new) = w - f /\ Len(rest) = w - f
    BY <1>1, <1>3, <1>4
  <1>7. new = rest
    <2>1. new \in Seq(Nat) /\ rest \in Seq(Nat)
      BY <1>3, <1>4
    <2> QED
      BY <1>5, <1>6, <2>1, SeqEqual
  <1> QED
    BY <1>7 DEF old, new, rest, Part

LEMMA AdvancedOK ==
  ASSUME NEW b, BufferOK(b), NEW n \in Nat, n <= Len(Unread(b))
  PROVE  /\ BufferOK(Advanced(b, n)) /\ Unread(Advanced(b, n)) = Part(Unread(b), n, Len(Unread(b)))
  <1> DEFINE c == [k \in DOMAIN b.cells |-> IF k <= b.r + n THEN Garbage ELSE b.cells[k]]
             t == Advanced(b, n)
  <1>1. /\ b.cells \in Seq(Nat) /\ b.r \in Nat /\ b.w \in Nat /\ b.r + n <= b.w
        /\ b.w <= Len(b.cells) /\ Len(b.cells) \in Nat
        /\ DOMAIN b.cells = 1..Len(b.cells) /\ Len(Unread(b)) = b.w - b.r
    BY LenProperties, UnreadIs DEF BufferOK, Buffer
  <1>2. c \in Seq(Nat) /\ Len(c) = Len(b.cells)
    <2>1. \A k \in 1..Len(b.cells) : c[k] \in Nat
      BY <1>1, ElementOfSeq DEF Garbage
    <2> QED
      BY <1>1, <2>1, CellsSeq
  <1>3. \A k \in 1..Len(b.cells) : k > b.r + n => c[k] = b.cells[k]
    BY <1>1
  <1>4. t.cells = c /\ t.r = b.r + n /\ t.w = b.w /\ t \in Buffer
    <2>1. \A d \in Seq(Nat), m \in Nat :
             LET u == [b EXCEPT !.r = m, !.cells = d]
             IN  u \in Buffer /\ u.cells = d /\ u.r = m /\ u.w = b.w
      BY DEF BufferOK, Buffer
    <2>2. t = [b EXCEPT !.r = b.r + n, !.cells = c]
      BY DEF Advanced
    <2>3. b.r + n \in Nat
      BY <1>1
    <2> HIDE DEF c, t
    <2> QED
      BY <1>2, <2>1, <2>2, <2>3
  <1> HIDE DEF c, t
  <1>5. BufferOK(t)
    BY <1>1, <1>2, <1>4 DEF BufferOK
  <1>6. Unread(t) = Part(Unread(b), n, b.w - b.r)
    <2>1. Without(b.cells, c, b.r + n)
      BY <1>3 DEF Without
    <2>2. Part(c, b.r + n, b.w) = Part(Part(b.cells, b.r, b.w), n, b.w - b.r)
      BY <1>1, <1>2, <2>1, TakenBefore
    <2>3. Unread(t) = Part(c, b.r + n, b.w) /\ Unread(b) = Part(b.cells, b.r, b.w)
      BY <1>4 DEF Unread, Part
    <2> QED
      BY <2>2, <2>3
  <1> QED
    BY <1>1, <1>5, <1>6 DEF t

\* A buffer that has grown holds the same, and has room for n more bytes.
LEMMA GrownOK ==
  ASSUME NEW b, BufferOK(b), NEW n \in Nat, NEW first \in Nat \ {0}
  PROVE  /\ BufferOK(GrownBuffer(b, n, first)) /\ Unread(GrownBuffer(b, n, first)) = Unread(b)
         /\ n <= Room(GrownBuffer(b, n, first))
  <1> DEFINE need == b.w - b.r + n
             size == Len(b.cells)
             from == IF size > 0 THEN 2 * size ELSE first
             new  == IF need > size THEN Doubled(from, need) ELSE size
             e == EmptyBuffer(new)
             t == Buffered(e, Unread(b))
  <1>1. /\ b.r \in Nat /\ b.w \in Nat /\ b.r <= b.w /\ size \in Nat /\ need \in Nat
        /\ Len(Unread(b)) = b.w - b.r /\ Unread(b) \in Seq(Nat) /\ from \in Nat \ {0}
    BY LenProperties, UnreadIs DEF BufferOK, Buffer
  <1>2. new \in Nat /\ need <= new
    <2>1. Doubled(from, need) \in Nat /\ need <= Doubled(from, need)
      <3> HIDE DEF from, need
      <3> QED
        BY <1>1, DoublingsReach DEF Doubled
    <2> HIDE DEF from, need, size
    <2> QED
      BY <1>1, <2>1
  <1>3. /\ GrownBuffer(b, n, first) = t
    BY DEF GrownBuffer
  <1> HIDE DEF new, size, from
  <1>4. /\ BufferOK(e) /\ Unread(e) = <<>> /\ e.r = 0 /\ Len(e.cells) = new /\ Room(e) = new
    BY <1>2, EmptyBufferOK
  <1> HIDE DEF e
  <1>5. Len(Unread(b)) <= Room(e)
    BY <1>1, <1>2, <1>4
  <1>6. BufferOK(t) /\ Unread(t) = Cat(<<>>, Unread(b)) /\ t.r = 0 /\ Len(t.cells) = new
    BY <1>1, <1>4, <1>5, BufferedOK
  <1> HIDE DEF t
  <1>7. Unread(t) = Unread(b)
    BY <1>1, <1>6, CatEmpty
  <1>8. t.w = b.w - b.r
    <2>1. Len(Unread(t)) = t.w - t.r /\ t.w \in Nat
      BY <1>6, UnreadIs DEF BufferOK, Buffer
    <2> QED
      BY <1>1, <1>6, <1>7, <2>1
  <1>9. n <= Room(t)
    BY <1>1, <1>2, <1>6, <1>8 DEF Room
  <1> QED
    BY <1>3, <1>6, <1>7, <1>9

-----------------------------------------------------------------------------
(* Streams between two steps.                                              *)

StreamType ==
    [kind : {"memory", "block", "from_file", "to_file"}, buf : Buffer, back : Buffer,
     end : BOOLEAN, broken : BOOLEAN, file : Seq(Nat), bytes : Seq(Nat), got : Seq(Nat),
     one : BOOLEAN]

StreamOK(st) ==
    /\ st \in StreamType
    /\ BufferOK(st.buf) /\ BufferOK(st.back)
    /\ st.kind = "to_file" => st.buf.r = 0 /\ ~st.one /\ Unread(st.back) = <<>>
    /\ st.one => ~st.end /\ Unread(st.back) = <<>> /\ st.got # <<>>
    /\ Len(Unread(st.back)) <= 1
    /\ ~st.broken => st.bytes = Cat(Passed(st), Left(st)) /\ (st.end => Left(st) = <<>>)

InFile(st) == IF st.kind = "from_file" THEN st.file ELSE <<>>

\* The bytes that are left are those of three places.
LEMMA LeftIs ==
  ASSUME NEW st \in StreamType, BufferOK(st.buf), BufferOK(st.back)
  PROVE  /\ Unread(st.back) \in Seq(Nat) /\ Unread(st.buf) \in Seq(Nat) /\ InFile(st) \in Seq(Nat)
         /\ Left(st) = Cat(Cat(Unread(st.back), Unread(st.buf)), InFile(st))
         /\ Left(st) \in Seq(Nat)
         /\ Len(Left(st)) = Len(Unread(st.back)) + Len(Unread(st.buf)) + Len(InFile(st))
         /\ Passed(st) \in Seq(Nat)
  <1>1. Unread(st.back) \in Seq(Nat) /\ Unread(st.buf) \in Seq(Nat)
    BY UnreadIs
  <1>2. InFile(st) \in Seq(Nat) /\ Passed(st) \in Seq(Nat)
    BY EmptySeq DEF StreamType, InFile, Passed
  <1>3. Left(st) = Cat(Cat(Unread(st.back), Unread(st.buf)), InFile(st))
    BY Zenon DEF Left, Cat, InFile
  <1> DEFINE u == Cat(Unread(st.back), Unread(st.buf))
  <1>4. u \in Seq(Nat) /\ Len(u) = Len(Unread(st.back)) + Len(Unread(st.buf))
    BY <1>1, CatSeq
  <1> HIDE DEF u
  <1>5. Cat(u, InFile(st)) \in Seq(Nat) /\ Len(Cat(u, InFile(st))) = Len(u) + Len(InFile(st))
    BY <1>2, <1>4, CatSeq
  <1> QED
    BY <1>1, <1>2, <1>3, <1>4, <1>5 DEF u

\* A file that is written has nothing but its cache.
LEMMA ToFile ==
  ASSUME NEW st, StreamOK(st), st.kind = "to_file"
  PROVE  Left(st) = Unread(st.buf) /\ Passed(st) = st.file
  <1>1. st \in StreamType /\ BufferOK(st.buf) /\ BufferOK(st.back) /\ Unread(st.back) = <<>>
    BY DEF StreamOK
  <1>2. InFile(st) = <<>>
    BY DEF InFile
  <1>3. Left(st) = Cat(Cat(<<>>, Unread(st.buf)), <<>>) /\ Unread(st.buf) \in Seq(Nat)
    BY <1>1, <1>2, LeftIs
  <1>4. Left(st) = Unread(st.buf)
    BY <1>3, CatEmpty
  <1> QED
    BY <1>4 DEF Passed

LEMMA FlushedOK ==
  ASSUME NEW st, StreamOK(st), NEW t \in Flushed(st)
  PROVE  /\ StreamOK(t) /\ t.kind = st.kind /\ t.bytes = st.bytes /\ t.back = st.back
         /\ t.kind # "to_file" => t = st
         /\ t.kind = "to_file" => Unread(t.buf) = <<>>
         /\ st.broken => t.broken
  <1>1. /\ st \in StreamType /\ BufferOK(st.buf) /\ BufferOK(st.back)
        /\ st.buf \in Buffer /\ Len(st.buf.cells) \in Nat
    BY LenProperties DEF StreamOK, BufferOK, Buffer
  <1>2. CASE ~(st.kind = "to_file" /\ st.buf.w > 0)
    <2>1. t = st
      BY <1>2 DEF Flushed
    <2>2. ASSUME st.kind = "to_file" PROVE Unread(st.buf) = <<>>
      <3>1. st.buf.w = 0 /\ st.buf.r = 0
        <4>1. st.buf.w \in Nat /\ st.buf.r = 0
          BY <1>1, <2>2 DEF Buffer, StreamOK
        <4>2. ~(st.buf.w > 0)
          BY <1>2, <2>2
        <4>3. \A n \in Nat : ~(n > 0) => n = 0
          OBVIOUS
        <4> QED
          BY <4>1, <4>2, <4>3
      <3> QED
        BY <3>1, SubSeqEmpty DEF Unread
    <2> QED
      BY <2>1, <2>2
  <1>3. CASE st.kind = "to_file" /\ st.buf.w > 0
    <2> DEFINE u == Unread(st.buf)
               e == EmptyBuffer(Len(st.buf.cells))
    <2>1. u \in Seq(Nat) /\ Len(u) \in Nat
      BY <1>1, UnreadIs, LenProperties
    <2>2. BufferOK(e) /\ Unread(e) = <<>> /\ e.r = 0
      BY <1>1, EmptyBufferOK
    <2>3. PICK k \in 0..Len(u) :
             t = [[st EXCEPT !.file = @ \o SubSeq(u, 1, k), !.broken = @ \/ k < Len(u)]
                     EXCEPT !.buf = Emptied(@)]
      <3>1. PICK f \in FileWritten(st, u) : t = [f EXCEPT !.buf = Emptied(@)]
        BY <1>3 DEF Flushed
      <3>2. PICK k \in 0..Len(u) : f = [st EXCEPT !.file = @ \o SubSeq(u, 1, k), !.broken = @ \/ k < Len(u)]
        BY DEF FileWritten
      <3> QED
        BY <3>1, <3>2
    <2> DEFINE p == Part(u, 0, k)
               f == Cat(st.file, p)
    <2>4. p \in Seq(Nat) /\ st.file \in Seq(Nat) /\ f \in Seq(Nat)
      <3>1. k \in Nat /\ 0 \in Nat /\ 0 <= k /\ k <= Len(u)
        BY <2>1
      <3>2. p \in Seq(Nat)
        BY <2>1, <3>1, PartSeq
      <3>3. st.file \in Seq(Nat)
        BY <1>1 DEF StreamType
      <3> HIDE DEF p
      <3> QED
        BY <3>2, <3>3, CatSeq
    <2>5. SubSeq(u, 1, k) = p /\ st.file \o p = f
      <3>1. 0 + 1 = 1
        OBVIOUS
      <3> QED
        BY <3>1 DEF Part, Cat
    <2>6. t = [[st EXCEPT !.file = f, !.broken = st.broken \/ k < Len(u)] EXCEPT !.buf = e]
      BY <2>3, <2>5 DEF Emptied
    <2> HIDE DEF u, e, p, f
    <2>7. /\ t \in StreamType /\ t.kind = st.kind /\ t.buf = e /\ t.back = st.back /\ t.end = st.end
          /\ t.broken = (st.broken \/ k < Len(u)) /\ t.file = f /\ t.bytes = st.bytes
          /\ t.got = st.got /\ t.one = st.one
      BY <1>1, <2>2, <2>4, <2>6 DEF StreamType, BufferOK
    <2>8. Unread(t.back) = <<>> /\ ~t.one /\ t.kind = "to_file"
      BY <1>3, <2>7 DEF StreamOK
    <2>9. ASSUME ~t.broken PROVE t.bytes = Cat(Passed(t), Left(t)) /\ Left(t) = <<>>
      <3>1. ~st.broken /\ k = Len(u)
        <4>1. t.broken = (st.broken \/ k < Len(u))
          BY <2>7
        <4>2. ~st.broken /\ ~(k < Len(u))
          BY <2>9, <4>1
        <4> QED
          BY <2>1, <4>2
      <3>2. st.bytes = Cat(st.file, u)
        BY <1>3, <3>1, ToFile DEF StreamOK, u
      <3>3. p = u
        <4>1. SubSeq(u, 1, Len(u)) = u /\ 0 + 1 = 1
          BY <2>1, SubSeqFull
        <4> QED
          BY <3>1, <4>1 DEF p, Part
      <3>4. InFile(t) = <<>> /\ Passed(t) = f
        BY <2>7, <2>8 DEF InFile, Passed
      <3>5. Left(t) = Cat(Cat(<<>>, <<>>), <<>>)
        <4>1. BufferOK(t.buf) /\ BufferOK(t.back) /\ Unread(t.buf) = <<>>
          BY <1>1, <2>2, <2>7
        <4> QED
          BY <2>7, <2>8, <3>4, <4>1, LeftIs
      <3>6. Left(t) = <<>>
        BY <3>5, CatEmpty, EmptySeq
      <3>7. Cat(f, <<>>) = f
        BY <2>4, CatEmpty
      <3> QED
        BY <2>7, <3>2, <3>3, <3>4, <3>6, <3>7 DEF f
    <2>10. StreamOK(t)
      <3>1. Len(Unread(t.back)) <= 1
        BY <2>7 DEF StreamOK
      <3> QED
        BY <1>1, <2>2, <2>7, <2>8, <2>9, <3>1 DEF StreamOK
    <2> QED
      BY <2>2, <2>7, <2>8, <2>10
  <1> QED
    BY <1>2, <1>3

\* What a call to write leaves in any case.
LEMMA AfterWrite ==
  ASSUME NEW u \in StreamType, NEW s \in Seq(Nat)
  PROVE  LET t == [u EXCEPT !.end = FALSE, !.bytes = @ \o s, !.one = FALSE]
         IN  /\ t \in StreamType /\ ~t.end /\ ~t.one /\ t.bytes = Cat(u.bytes, s)
             /\ t.kind = u.kind /\ t.buf = u.buf /\ t.back = u.back /\ t.file = u.file
             /\ t.broken = u.broken /\ t.got = u.got
  <1> DEFINE f == Cat(u.bytes, s)
             t == [u EXCEPT !.end = FALSE, !.bytes = f, !.one = FALSE]
  <1>1. f \in Seq(Nat) /\ u.bytes \o s = f
    BY CatSeq DEF Cat, StreamType
  <1> HIDE DEF f
  <1>2. /\ t \in StreamType /\ ~t.end /\ ~t.one /\ t.bytes = f
        /\ t.kind = u.kind /\ t.buf = u.buf /\ t.back = u.back /\ t.file = u.file
        /\ t.broken = u.broken /\ t.got = u.got
    BY <1>1 DEF StreamType
  <1>3. t = [u EXCEPT !.end = FALSE, !.bytes = @ \o s, !.one = FALSE]
    BY <1>1
  <1> HIDE DEF t
  <1> QED
    BY <1>2, <1>3 DEF f

\* Bytes that are written to the buffer are behind those that are left.
LEMMA CachedOK ==
  ASSUME NEW st, StreamOK(st), st.kind \in {"memory", "to_file"}, NEW s \in Seq(Nat),
         NEW t \in StreamType, BufferOK(t.buf), Unread(t.buf) = Cat(Unread(st.buf), s),
         t.kind = "to_file" => t.buf.r = 0,
         t.kind = st.kind, t.back = st.back, t.file = st.file, t.got = st.got, ~t.end, ~t.one,
         t.broken = st.broken, t.bytes = Cat(st.bytes, s)
  PROVE  StreamOK(t)
  <1> DEFINE x == Unread(st.back)
             u == Unread(st.buf)
             p == Passed(st)
  <1>1. st \in StreamType /\ BufferOK(st.buf) /\ BufferOK(st.back)
    BY DEF StreamOK
  <1>2. x \in Seq(Nat) /\ u \in Seq(Nat) /\ p \in Seq(Nat) /\ Left(st) = Cat(Cat(x, u), InFile(st))
    BY <1>1, LeftIs
  <1>3. InFile(st) = <<>> /\ InFile(t) = <<>> /\ Passed(t) = p
    BY DEF InFile, Passed
  <1>4. Left(t) = Cat(Cat(x, Cat(u, s)), <<>>)
    BY <1>1, <1>3, LeftIs
  <1> HIDE DEF x, u, p
  <1>5. /\ Cat(x, u) \in Seq(Nat) /\ Cat(u, s) \in Seq(Nat) /\ Cat(x, Cat(u, s)) \in Seq(Nat)
    BY <1>2, CatSeq
  <1>6. Left(st) = Cat(x, u) /\ Left(t) = Cat(Cat(x, u), s)
    <2>1. Cat(Cat(x, u), <<>>) = Cat(x, u) /\ Cat(Cat(x, Cat(u, s)), <<>>) = Cat(x, Cat(u, s))
      BY <1>5, CatEmpty
    <2>2. Cat(x, Cat(u, s)) = Cat(Cat(x, u), s)
      BY <1>2, CatAssociative
    <2> QED
      BY <1>2, <1>3, <1>4, <2>1, <2>2
  <1>7. ASSUME ~t.broken PROVE t.bytes = Cat(Passed(t), Left(t))
    <2>1. st.bytes = Cat(p, Left(st))
      BY <1>7 DEF StreamOK, p
    <2>2. Cat(Cat(p, Cat(x, u)), s) = Cat(p, Cat(Cat(x, u), s))
      BY <1>2, <1>5, CatAssociative
    <2> QED
      BY <1>3, <1>6, <2>1, <2>2
  <1>8. (t.kind = "to_file" => Unread(t.back) = <<>>) /\ Len(Unread(t.back)) <= 1
    BY DEF StreamOK
  <1> QED
    BY <1>1, <1>7, <1>8 DEF StreamOK

\* Bytes that are written past the cache are behind those that were.
LEMMA PastCache ==
  ASSUME NEW st, StreamOK(st), st.kind = "to_file", Unread(st.buf) = <<>>, NEW s \in Seq(Nat),
         NEW k \in 0..Len(s), NEW t \in StreamType,
         t.file = Cat(st.file, Part(s, 0, k)), t.broken <=> (st.broken \/ k < Len(s)),
         t.kind = st.kind, t.buf = st.buf, t.back = st.back, t.got = st.got, ~t.end, ~t.one,
         t.bytes = Cat(st.bytes, s)
  PROVE  StreamOK(t)
  <1>1. st \in StreamType /\ BufferOK(st.buf) /\ BufferOK(st.back) /\ Unread(st.back) = <<>>
    BY DEF StreamOK
  <1>2. Passed(t) = t.file
    BY DEF Passed
  <1>3. Left(t) = <<>> /\ Left(st) = <<>>
    <2>1. InFile(t) = <<>> /\ InFile(st) = <<>>
      BY DEF InFile
    <2>2. Left(t) = Cat(Cat(<<>>, <<>>), <<>>) /\ Left(st) = Cat(Cat(<<>>, <<>>), <<>>)
      BY <1>1, <2>1, LeftIs
    <2> QED
      BY <2>2, CatEmpty, EmptySeq
  <1>4. ASSUME ~t.broken PROVE t.bytes = Cat(Passed(t), Left(t))
    <2>1. ~st.broken /\ ~(k < Len(s)) /\ Len(s) \in Nat
      BY <1>4, LenProperties
    <2>2. k = Len(s)
      BY <2>1
    <2>3. Part(s, 0, k) = s
      <3>1. SubSeq(s, 1, Len(s)) = s /\ 0 + 1 = 1
        BY SubSeqFull
      <3> QED
        BY <2>2, <3>1 DEF Part
    <2>4. st.file \in Seq(Nat)
      BY <1>1 DEF StreamType
    <2>5. st.bytes = Cat(st.file, <<>>)
      BY <1>3, <2>1 DEF StreamOK, Passed
    <2>6. st.bytes = st.file
      BY <2>4, <2>5, CatEmpty
    <2>7. t.bytes \in Seq(Nat)
      BY DEF StreamType
    <2>8. Cat(t.bytes, <<>>) = t.bytes
      BY <2>7, CatEmpty
    <2> QED
      BY <1>2, <1>3, <2>3, <2>6, <2>8
  <1>5. st.buf.r = 0 /\ Len(Unread(st.back)) <= 1
    BY DEF StreamOK
  <1> QED
    BY <1>1, <1>3, <1>4, <1>5 DEF StreamOK

LEMMA WrittenOK ==
  ASSUME NEW st, StreamOK(st), st.kind \in {"memory", "to_file"}, NEW s \in Seq(Nat),
         NEW t \in WrittenTo(st, s)
  PROVE  /\ StreamOK(t) /\ t.kind = st.kind
         /\ st.broken => t = st
         /\ ~st.broken => t.bytes = Cat(st.bytes, s)
  <1>1. st \in StreamType /\ BufferOK(st.buf) /\ BufferOK(st.back) /\ st.buf \in Buffer
    BY DEF StreamOK, BufferOK
  <1> DEFINE After(u) == [u EXCEPT !.end = FALSE, !.bytes = @ \o s, !.one = FALSE]
             Cached(u) == [u EXCEPT !.buf = Buffered(@, s)]
  <1>2. ASSUME NEW u, StreamOK(u), u.kind = st.kind, u.bytes = st.bytes, Len(s) <= Room(u.buf), t = After(Cached(u))
        PROVE  StreamOK(t) /\ t.kind = st.kind /\ t.bytes = Cat(st.bytes, s) /\ ~t.end
    <2> DEFINE b == Buffered(u.buf, s)
    <2>1. u \in StreamType /\ BufferOK(u.buf) /\ (u.kind = "to_file" => u.buf.r = 0)
      BY <1>2 DEF StreamOK
    <2>2. BufferOK(b) /\ Unread(b) = Cat(Unread(u.buf), s) /\ b.r = u.buf.r
      BY <1>2, <2>1, BufferedOK
    <2>3. b \in Buffer /\ Cached(u) = [u EXCEPT !.buf = b]
      BY <2>2 DEF BufferOK
    <2> DEFINE v == Cached(u)
    <2> HIDE DEF b
    <2>4. /\ v \in StreamType /\ v.kind = u.kind /\ v.buf = b /\ v.back = u.back /\ v.file = u.file
          /\ v.broken = u.broken /\ v.bytes = u.bytes /\ v.got = u.got
      BY <2>1, <2>3 DEF StreamType
    <2> HIDE DEF v, Cached
    <2>5. t = After(v)
      BY <1>2 DEF v, Cached
    <2>6. /\ t \in StreamType /\ ~t.end /\ ~t.one /\ t.bytes = Cat(v.bytes, s)
          /\ t.kind = v.kind /\ t.buf = v.buf /\ t.back = v.back /\ t.file = v.file
          /\ t.broken = v.broken /\ t.got = v.got
      BY <2>4, <2>5, AfterWrite
    <2>7. StreamOK(t)
      <3>1. t.kind = u.kind /\ t.buf = b /\ t.back = u.back /\ t.file = u.file /\ t.got = u.got
        BY <2>4, <2>6
      <3>2. t.broken = u.broken /\ t.bytes = Cat(u.bytes, s)
        BY <2>4, <2>6
      <3>3. u.kind \in {"memory", "to_file"}
        BY <1>2
      <3>4. BufferOK(t.buf) /\ Unread(t.buf) = Cat(Unread(u.buf), s) /\ (t.kind = "to_file" => t.buf.r = 0)
        BY <2>1, <2>2, <3>1
      <3> QED
        BY <1>2, <2>6, <3>1, <3>2, <3>3, <3>4, CachedOK
    <2> QED
      BY <1>2, <2>4, <2>6, <2>7
  <1>3. CASE st.broken
    <2>1. t = st
      BY <1>3 DEF WrittenTo
    <2> QED
      BY <1>3, <2>1
  <1>4. CASE ~st.broken /\ ~(Room(st.buf) < Len(s))
    <2>1. t = After(Cached(st))
      BY <1>4 DEF WrittenTo
    <2>2. Len(s) <= Room(st.buf)
      <3>1. Room(st.buf) \in Int /\ Len(s) \in Int
        BY <1>1, RoomInt, LenProperties
      <3> QED
        BY <1>4, <3>1
    <2> QED
      BY <1>4, <1>2, <2>1, <2>2
  <1>5. CASE ~st.broken /\ Room(st.buf) < Len(s) /\ st.kind = "memory"
    <2> DEFINE b == GrownBuffer(st.buf, Len(s), Cache)
               u == [st EXCEPT !.buf = b]
    <2>1. t = After(Cached([st EXCEPT !.buf = GrownBuffer(@, Len(s), Cache)]))
      BY <1>5 DEF WrittenTo
    <2>2. t = After(Cached(u))
      BY <2>1
    <2>3. BufferOK(b) /\ Unread(b) = Unread(st.buf) /\ Len(s) <= Room(b)
      BY <1>1, LenProperties, GrownOK, StreamAssumption
    <2> HIDE DEF b
    <2>4. /\ u \in StreamType /\ u.kind = st.kind /\ u.buf = b /\ u.back = st.back /\ u.end = st.end
          /\ u.broken = st.broken /\ u.file = st.file /\ u.bytes = st.bytes /\ u.got = st.got
          /\ u.one = st.one
      BY <1>1, <2>3 DEF StreamType, BufferOK
    <2> HIDE DEF u, After, Cached
    <2>5. InFile(u) = InFile(st) /\ Passed(u) = Passed(st)
      BY <2>4 DEF InFile, Passed
    <2>6. Left(u) = Left(st)
      BY <1>1, <2>3, <2>4, <2>5, LeftIs
    <2>7. StreamOK(u)
      BY <1>1, <1>5, <2>3, <2>4, <2>5, <2>6 DEF StreamOK
    <2> QED
      BY <1>5, <1>2, <2>2, <2>3, <2>4, <2>7
  <1>6. CASE ~st.broken /\ Room(st.buf) < Len(s) /\ st.kind = "to_file"
    <2> DEFINE Into(f) == IF Room(f.buf) < Len(s) THEN FileWritten(f, s) ELSE {Cached(f)}
    <2>1. PICK f \in Flushed(st) : \E u \in Into(f) : t = After(u)
      <3>1. PICK u \in UNION {Into(f) : f \in Flushed(st)} : t = After(u)
        BY <1>6 DEF WrittenTo
      <3> HIDE DEF Into
      <3> QED
        BY <3>1
    <2>11. PICK u : u \in Into(f) /\ t = After(u)
      BY <2>1
    <2> HIDE DEF Into
    <2>2. StreamOK(f) /\ f.kind = st.kind /\ f.bytes = st.bytes /\ Unread(f.buf) = <<>>
      BY <1>6, FlushedOK
    <2>3. f \in StreamType /\ f.buf \in Buffer
      BY <2>2 DEF StreamOK, StreamType
    <2>4. CASE Room(f.buf) < Len(s)
      <3>1. PICK k \in 0..Len(s) :
               u = [f EXCEPT !.file = @ \o SubSeq(s, 1, k), !.broken = @ \/ k < Len(s)]
        <4>1. u \in FileWritten(f, s)
          BY <2>11, <2>4 DEF Into
        <4> QED
          BY <4>1 DEF FileWritten
      <3> DEFINE g == Cat(f.file, Part(s, 0, k))
                 v == [f EXCEPT !.file = g, !.broken = f.broken \/ k < Len(s)]
      <3>2. u = v
        <4>1. 0 + 1 = 1
          OBVIOUS
        <4> QED
          BY <3>1, <4>1 DEF Cat, Part
      <3>3. g \in Seq(Nat)
        <4>1. k \in Nat /\ 0 \in Nat /\ 0 <= k /\ k <= Len(s)
          BY LenProperties
        <4>2. Part(s, 0, k) \in Seq(Nat)
          BY <4>1, PartSeq
        <4>3. f.file \in Seq(Nat)
          BY <2>3 DEF StreamType
        <4> QED
          BY <4>2, <4>3, CatSeq
      <3> HIDE DEF g
      <3>4. /\ v \in StreamType /\ v.kind = f.kind /\ v.buf = f.buf /\ v.back = f.back /\ v.file = g
            /\ v.broken = (f.broken \/ k < Len(s)) /\ v.bytes = f.bytes /\ v.got = f.got
        BY <2>3, <3>3 DEF StreamType
      <3> HIDE DEF v
      <3>5. /\ t \in StreamType /\ ~t.end /\ ~t.one /\ t.bytes = Cat(v.bytes, s)
            /\ t.kind = v.kind /\ t.buf = v.buf /\ t.back = v.back /\ t.file = v.file
            /\ t.broken = v.broken /\ t.got = v.got
        <4>1. t = After(v)
          BY <2>11, <3>2
        <4> QED
          BY <3>4, <4>1, AfterWrite
      <3>6. t.file = Cat(f.file, Part(s, 0, k))
        BY <3>4, <3>5 DEF g
      <3>7. t.bytes = Cat(f.bytes, s) /\ t.broken = (f.broken \/ k < Len(s)) /\ f.kind = "to_file"
        BY <1>6, <2>2, <3>4, <3>5
      <3>8. t.kind = f.kind /\ t.buf = f.buf /\ t.back = f.back /\ t.got = f.got
        BY <3>4, <3>5
      <3>9. StreamOK(t)
        BY <2>2, <3>5, <3>6, <3>7, <3>8, PastCache
      <3> QED
        BY <1>6, <2>2, <3>5, <3>7, <3>8, <3>9
    <2>5. CASE ~(Room(f.buf) < Len(s))
      <3>1. u = Cached(f)
        BY <2>11, <2>5 DEF Into
      <3>2. Len(s) <= Room(f.buf)
        <4>1. Room(f.buf) \in Int /\ Len(s) \in Int
          BY <2>3, RoomInt, LenProperties
        <4> QED
          BY <2>5, <4>1
      <3> QED
        BY <1>6, <1>2, <2>11, <2>2, <3>1, <3>2
    <2> QED
      BY <2>4, <2>5
  <1> QED
    BY <1>3, <1>4, <1>5, <1>6

-----------------------------------------------------------------------------
(* Reading.                                                                *)

LEMMA CacheFilledOK ==
  ASSUME NEW st, StreamOK(st), st.kind # "to_file", ~st.one, ~st.end, ~st.broken,
         Unread(st.back) = <<>>, Unread(st.buf) = <<>>, NEW f \in CacheFilled(st)
  PROVE  /\ StreamOK(f) /\ f.kind = st.kind /\ f.bytes = st.bytes /\ f.back = st.back /\ ~f.one
         /\ ~f.broken => Left(f) = Left(st)
         /\ Unread(f.buf) = <<>> => f.broken \/ Left(f) = <<>>
         /\ Unread(f.buf) # <<>> => ~f.end /\ ~f.broken
  <1>1. st \in StreamType /\ BufferOK(st.buf) /\ BufferOK(st.back)
    BY DEF StreamOK
  <1>2. Left(st) = InFile(st) /\ InFile(st) \in Seq(Nat)
    <2>1. Left(st) = Cat(Cat(<<>>, <<>>), InFile(st)) /\ InFile(st) \in Seq(Nat)
      BY <1>1, LeftIs
    <2>2. Cat(<<>>, <<>>) = <<>>
      BY CatEmpty, EmptySeq
    <2> QED
      BY <2>1, <2>2, CatEmpty
  <1>3. CASE f = [st EXCEPT !.end = TRUE] /\ InFile(st) = <<>>
    <2>1. /\ f \in StreamType /\ f.kind = st.kind /\ f.buf = st.buf /\ f.back = st.back /\ f.end
          /\ f.broken = st.broken /\ f.file = st.file /\ f.bytes = st.bytes /\ f.got = st.got
          /\ f.one = st.one
      BY <1>1, <1>3 DEF StreamType
    <2>2. InFile(f) = InFile(st) /\ Passed(f) = Passed(st)
      BY <2>1 DEF InFile, Passed
    <2>3. Left(f) = Left(st) /\ Left(f) = <<>>
      BY <1>1, <1>2, <1>3, <2>1, <2>2, LeftIs
    <2>4. StreamOK(f)
      BY <2>1, <2>2, <2>3 DEF StreamOK
    <2> QED
      BY <2>1, <2>3, <2>4
  <1>4. CASE f = [st EXCEPT !.broken = TRUE]
    <2>1. /\ f \in StreamType /\ f.kind = st.kind /\ f.buf = st.buf /\ f.back = st.back /\ f.broken
          /\ f.end = st.end /\ f.file = st.file /\ f.bytes = st.bytes /\ f.got = st.got
          /\ f.one = st.one
      BY <1>1, <1>4 DEF StreamType
    <2>2. StreamOK(f)
      BY <2>1 DEF StreamOK
    <2> QED
      BY <2>1, <2>2
  <1>5. ASSUME NEW k \in 1..Lesser(Cache, Len(st.file)), st.kind = "from_file",
               f = [st EXCEPT !.buf = Buffered(EmptyBuffer(Cache), SubSeq(st.file, 1, k)),
                              !.file = SubSeq(st.file, k + 1, Len(st.file))]
        PROVE  /\ StreamOK(f) /\ f.kind = st.kind /\ f.bytes = st.bytes /\ f.back = st.back /\ ~f.one
               /\ Left(f) = Left(st) /\ Unread(f.buf) # <<>> /\ ~f.end /\ ~f.broken
    <2> DEFINE left == st.file
               e == EmptyBuffer(Cache)
               p == Part(left, 0, k)
               r == Part(left, k, Len(left))
               b == Buffered(e, p)
    <2>1. left \in Seq(Nat) /\ Len(left) \in Nat /\ Cache \in Nat
      BY <1>1, LenProperties, StreamAssumption DEF StreamType
    <2>2. k \in Nat /\ 0 < k /\ k <= Len(left) /\ k <= Cache
      BY <2>1 DEF Lesser
    <2>3. p \in Seq(Nat) /\ Len(p) = k /\ r \in Seq(Nat) /\ Cat(p, r) = left
      BY <2>1, <2>2, SplitSeq
    <2>4. f = [st EXCEPT !.buf = b, !.file = r]
      <3>1. 0 + 1 = 1
        OBVIOUS
      <3> QED
        BY <1>5, <3>1 DEF Part
    <2>5. BufferOK(b) /\ Unread(b) = p
      <3>1. BufferOK(e) /\ Unread(e) = <<>> /\ Len(p) <= Room(e)
        BY <2>1, <2>2, <2>3, EmptyBufferOK
      <3>2. BufferOK(b) /\ Unread(b) = Cat(<<>>, p)
        BY <2>3, <3>1, BufferedOK
      <3> QED
        BY <2>3, <3>2, CatEmpty
    <2> HIDE DEF e, p, r, b, left
    <2>6. /\ f \in StreamType /\ f.kind = st.kind /\ f.buf = b /\ f.back = st.back
          /\ f.end = st.end /\ f.broken = st.broken /\ f.file = r /\ f.bytes = st.bytes
          /\ f.got = st.got /\ f.one = st.one
      BY <1>1, <2>3, <2>4, <2>5 DEF StreamType, BufferOK
    <2>7. InFile(f) = r /\ InFile(st) = left /\ Passed(f) = Passed(st)
      BY <1>5, <2>6 DEF InFile, Passed, left
    <2>8. Left(f) = Left(st)
      <3>1. Left(f) = Cat(Cat(<<>>, p), r)
        BY <1>1, <2>5, <2>6, <2>7, LeftIs
      <3> QED
        BY <1>2, <2>3, <2>7, <3>1, CatEmpty
    <2>9. p # <<>>
      BY <2>2, <2>3, EmptySeq
    <2>10. StreamOK(f)
      BY <1>1, <2>5, <2>6, <2>7, <2>8 DEF StreamOK
    <2> QED
      BY <2>5, <2>6, <2>8, <2>9, <2>10
  <1>6. \/ f = [st EXCEPT !.end = TRUE] /\ InFile(st) = <<>>
        \/ f = [st EXCEPT !.broken = TRUE]
        \/ /\ st.kind = "from_file"
           /\ \E k \in 1..Lesser(Cache, Len(st.file)) :
                 f = [st EXCEPT !.buf = Buffered(EmptyBuffer(Cache), SubSeq(st.file, 1, k)),
                                !.file = SubSeq(st.file, k + 1, Len(st.file))]
    <2>1. CASE st.kind # "from_file"
      <3>1. f = [st EXCEPT !.end = TRUE]
        BY <2>1 DEF CacheFilled
      <3> QED
        BY <2>1, <3>1 DEF InFile
    <2>2. CASE st.kind = "from_file" /\ st.file = <<>>
      <3>1. f \in {[st EXCEPT !.broken = TRUE]} \cup {[st EXCEPT !.end = TRUE]}
        BY <2>2, Zenon DEF CacheFilled
      <3> QED
        BY <2>2, <3>1 DEF InFile
    <2>3. CASE st.kind = "from_file" /\ st.file # <<>>
      <3>1. f \in {[st EXCEPT !.broken = TRUE]} \cup
                    {[st EXCEPT !.buf = Buffered(EmptyBuffer(Cache), SubSeq(st.file, 1, k)),
                                !.file = SubSeq(st.file, k + 1, Len(st.file))] :
                        k \in 1..Lesser(Cache, Len(st.file))}
        BY <2>3, Zenon DEF CacheFilled
      <3> QED
        BY <2>3, <3>1, Zenon
    <2> QED
      BY <2>1, <2>2, <2>3
  <1> QED
    BY <1>3, <1>4, <1>5, <1>6

\* The bytes that are read are the next ones, and those behind them are left.
LEMMA ConsumedOK ==
  ASSUME NEW st, StreamOK(st), st.kind # "to_file", ~st.one, ~st.end, Unread(st.back) = <<>>,
         NEW n \in Nat, n <= Len(Unread(st.buf))
  PROVE  LET t == Consumed(st, n)
         IN  /\ StreamOK(t) /\ t.kind = st.kind /\ t.bytes = st.bytes /\ t.back = st.back
             /\ ~t.end /\ ~t.one /\ t.broken = st.broken
             /\ t.got = Cat(st.got, Part(Unread(st.buf), 0, n))
             /\ Len(Left(t)) = Len(Left(st)) - n
  <1> DEFINE u == Unread(st.buf)
             p == Part(u, 0, n)
             r == Part(u, n, Len(u))
             b == Advanced(st.buf, n)
             g == Cat(st.got, p)
             t == Consumed(st, n)
             z == InFile(st)
  <1>1. st \in StreamType /\ BufferOK(st.buf) /\ BufferOK(st.back) /\ st.got \in Seq(Nat)
    BY DEF StreamOK, StreamType
  <1>2. /\ u \in Seq(Nat) /\ z \in Seq(Nat) /\ Len(u) \in Nat /\ Len(z) \in Nat
        /\ Left(st) = Cat(Cat(<<>>, u), z)
    BY <1>1, LeftIs, LenProperties
  <1>3. p \in Seq(Nat) /\ Len(p) = n /\ r \in Seq(Nat) /\ Len(r) = Len(u) - n /\ Cat(p, r) = u
    BY <1>2, SplitSeq
  <1>4. BufferOK(b) /\ Unread(b) = r
    BY <1>1, AdvancedOK
  <1>5. g \in Seq(Nat)
    BY <1>1, <1>3, CatSeq
  <1>6. t = [st EXCEPT !.buf = b, !.got = g]
    <2>1. 0 + 1 = 1
      OBVIOUS
    <2> QED
      BY <2>1 DEF Consumed, Cat, Part
  <1> HIDE DEF u, p, r, b, g, t, z
  <1>7. /\ t \in StreamType /\ t.kind = st.kind /\ t.buf = b /\ t.back = st.back
        /\ t.end = st.end /\ t.broken = st.broken /\ t.file = st.file /\ t.bytes = st.bytes
        /\ t.got = g /\ t.one = st.one
    BY <1>1, <1>4, <1>5, <1>6 DEF StreamType, BufferOK
  <1>8. InFile(t) = z /\ Passed(t) = g /\ Passed(st) = st.got
    BY <1>7 DEF InFile, Passed, z
  <1>9. Left(t) = Cat(r, z) /\ Left(st) = Cat(p, Left(t))
    <2>1. Left(t) = Cat(Cat(<<>>, r), z)
      BY <1>1, <1>4, <1>7, <1>8, LeftIs
    <2>2. Cat(<<>>, r) = r /\ Cat(<<>>, u) = u
      BY <1>2, <1>3, CatEmpty
    <2>3. Cat(Cat(p, r), z) = Cat(p, Cat(r, z))
      BY <1>2, <1>3, CatAssociative
    <2> QED
      BY <1>2, <1>3, <2>1, <2>2, <2>3
  <1>10. Left(t) \in Seq(Nat) /\ Len(Left(t)) = Len(r) + Len(z) /\ Len(Left(st)) = n + Len(Left(t))
    <2>1. Left(t) \in Seq(Nat) /\ Len(Left(t)) = Len(r) + Len(z)
      <3>1. Cat(r, z) \in Seq(Nat) /\ Len(Cat(r, z)) = Len(r) + Len(z)
        BY <1>2, <1>3, CatSeq
      <3> QED
        BY <1>9, <3>1
    <2>2. Len(Left(st)) = Len(p) + Len(Left(t))
      BY <1>3, <1>9, <2>1, CatSeq
    <2> QED
      BY <1>3, <2>1, <2>2
  <1>11. ASSUME ~t.broken PROVE t.bytes = Cat(Passed(t), Left(t))
    <2>1. st.bytes = Cat(st.got, Cat(p, Left(t)))
      BY <1>7, <1>8, <1>9, <1>11 DEF StreamOK
    <2>2. Cat(Cat(st.got, p), Left(t)) = Cat(st.got, Cat(p, Left(t)))
      BY <1>1, <1>3, <1>10, CatAssociative
    <2> QED
      BY <1>7, <1>8, <2>1, <2>2 DEF g
  <1>12. StreamOK(t)
    BY <1>1, <1>4, <1>7, <1>11 DEF StreamOK
  <1>13. Len(Left(t)) = Len(Left(st)) - n
    BY <1>2, <1>3, <1>10
  <1> QED
    BY <1>7, <1>12, <1>13 DEF g, p, u, t

\* The same of the characters that were put back.
LEMMA TakenBackOK ==
  ASSUME NEW st, StreamOK(st), st.kind # "to_file", ~st.end,
         NEW n \in Nat, n <= Len(Unread(st.back))
  PROVE  LET t == TakenBack(st, n)
         IN  /\ StreamOK(t) /\ t.kind = st.kind /\ t.bytes = st.bytes
             /\ Len(Unread(t.back)) = Len(Unread(st.back)) - n
             /\ ~t.end /\ ~t.one /\ t.broken = st.broken
             /\ t.got = Cat(st.got, Part(Unread(st.back), 0, n))
             /\ Len(Left(t)) = Len(Left(st)) - n
  <1> DEFINE u == Unread(st.back)
             p == Part(u, 0, n)
             r == Part(u, n, Len(u))
             b == Advanced(st.back, n)
             g == Cat(st.got, p)
             t == TakenBack(st, n)
             y == Unread(st.buf)
             z == InFile(st)
  <1>1. st \in StreamType /\ BufferOK(st.buf) /\ BufferOK(st.back) /\ st.got \in Seq(Nat)
    BY DEF StreamOK, StreamType
  <1>2. /\ u \in Seq(Nat) /\ y \in Seq(Nat) /\ z \in Seq(Nat)
        /\ Len(u) \in Nat /\ Len(y) \in Nat /\ Len(z) \in Nat
        /\ Left(st) = Cat(Cat(u, y), z)
    BY <1>1, LeftIs, LenProperties
  <1>3. p \in Seq(Nat) /\ Len(p) = n /\ r \in Seq(Nat) /\ Len(r) = Len(u) - n /\ Cat(p, r) = u
    BY <1>2, SplitSeq
  <1>4. BufferOK(b) /\ Unread(b) = r
    BY <1>1, AdvancedOK
  <1>5. g \in Seq(Nat)
    BY <1>1, <1>3, CatSeq
  <1>6. t = [st EXCEPT !.back = b, !.got = g, !.one = FALSE]
    <2>1. 0 + 1 = 1
      OBVIOUS
    <2> QED
      BY <2>1 DEF TakenBack, Cat, Part
  <1> HIDE DEF u, p, r, b, g, t, y, z
  <1>7. /\ t \in StreamType /\ t.kind = st.kind /\ t.buf = st.buf /\ t.back = b
        /\ t.end = st.end /\ t.broken = st.broken /\ t.file = st.file /\ t.bytes = st.bytes
        /\ t.got = g /\ ~t.one
    BY <1>1, <1>4, <1>5, <1>6 DEF StreamType, BufferOK
  <1>8. InFile(t) = z /\ Passed(t) = g /\ Passed(st) = st.got
    BY <1>7 DEF InFile, Passed, z
  <1>9. Left(t) = Cat(Cat(r, y), z) /\ Left(st) = Cat(p, Left(t)) /\ Left(t) \in Seq(Nat)
    <2>1. Left(t) = Cat(Cat(r, y), z) /\ Left(t) \in Seq(Nat)
      BY <1>1, <1>4, <1>7, <1>8, LeftIs DEF y
    <2>2. Cat(Cat(p, r), y) = Cat(p, Cat(r, y)) /\ Cat(r, y) \in Seq(Nat)
      BY <1>2, <1>3, CatAssociative, CatSeq
    <2>3. Cat(Cat(p, Cat(r, y)), z) = Cat(p, Cat(Cat(r, y), z))
      BY <1>2, <1>3, <2>2, CatAssociative
    <2> QED
      BY <1>2, <1>3, <2>1, <2>2, <2>3
  <1>10. Len(Left(t)) \in Nat /\ Len(Left(st)) = n + Len(Left(t))
    <2>1. Len(Left(t)) \in Nat
      BY <1>9, LenProperties
    <2>2. Len(Cat(p, Left(t))) = Len(p) + Len(Left(t))
      BY <1>3, <1>9, CatSeq
    <2> QED
      BY <1>3, <1>9, <2>1, <2>2
  <1>11. ASSUME ~t.broken PROVE t.bytes = Cat(Passed(t), Left(t))
    <2>1. st.bytes = Cat(st.got, Cat(p, Left(t)))
      BY <1>7, <1>8, <1>9, <1>11 DEF StreamOK
    <2>2. Cat(Cat(st.got, p), Left(t)) = Cat(st.got, Cat(p, Left(t)))
      BY <1>1, <1>3, <1>9, CatAssociative
    <2> QED
      BY <1>7, <1>8, <2>1, <2>2 DEF g
  <1>12. Len(Unread(t.back)) = Len(u) - n /\ Len(u) <= 1
    BY <1>3, <1>4, <1>7 DEF StreamOK, u
  <1>13. Len(Unread(t.back)) <= 1
    BY <1>2, <1>12
  <1>14. StreamOK(t)
    BY <1>1, <1>4, <1>7, <1>11, <1>13 DEF StreamOK
  <1>15. Len(Left(t)) = Len(Left(st)) - n
    BY <1>10
  <1> QED
    BY <1>7, <1>12, <1>14, <1>15 DEF g, p, u, t

\* Whether a character can be put back is noted.
LEMMA NotedOK ==
  ASSUME NEW st, StreamOK(st), NEW one \in BOOLEAN,
         one => ~st.end /\ st.kind # "to_file" /\ Unread(st.back) = <<>> /\ st.got # <<>>
  PROVE  LET t == [st EXCEPT !.one = one]
         IN  /\ StreamOK(t) /\ t.kind = st.kind /\ t.bytes = st.bytes /\ t.back = st.back
             /\ t.end = st.end /\ t.broken = st.broken /\ t.one = one /\ t.got = st.got
             /\ Left(t) = Left(st)
  <1> DEFINE t == [st EXCEPT !.one = one]
  <1>1. st \in StreamType /\ BufferOK(st.buf) /\ BufferOK(st.back)
    BY DEF StreamOK
  <1>2. /\ t \in StreamType /\ t.kind = st.kind /\ t.buf = st.buf /\ t.back = st.back
        /\ t.end = st.end /\ t.broken = st.broken /\ t.file = st.file /\ t.bytes = st.bytes
        /\ t.got = st.got /\ t.one = one
    BY <1>1 DEF StreamType
  <1> HIDE DEF t
  <1>3. InFile(t) = InFile(st) /\ Passed(t) = Passed(st)
    BY <1>2 DEF InFile, Passed
  <1>4. Left(t) = Left(st)
    BY <1>1, <1>2, <1>3, LeftIs
  <1>5. StreamOK(t)
    BY <1>1, <1>2, <1>3, <1>4 DEF StreamOK
  <1> QED
    BY <1>2, <1>4, <1>5 DEF t

\* The character that was read last is put back.
LEMMA RestoredOK ==
  ASSUME NEW st, StreamOK(st), st.one
  PROVE  LET last == Len(st.got)
             back == IF Room(st.back) < 1 THEN GrownBuffer(st.back, 1, 1) ELSE st.back
             t == [st EXCEPT !.back = Buffered(back, <<st.got[last]>>),
                             !.got = SubSeq(@, 1, last - 1), !.one = FALSE]
         IN  /\ StreamOK(t) /\ t.kind = st.kind /\ t.bytes = st.bytes /\ t.broken = st.broken
  <1> DEFINE last == Len(st.got)
             back == IF Room(st.back) < 1 THEN GrownBuffer(st.back, 1, 1) ELSE st.back
             c == <<st.got[last]>>
             b == Buffered(back, c)
             g == Part(st.got, 0, last - 1)
             t == [st EXCEPT !.back = b, !.got = g, !.one = FALSE]
             y == Unread(st.buf)
             z == InFile(st)
  <1>1. /\ st \in StreamType /\ BufferOK(st.buf) /\ BufferOK(st.back) /\ st.got \in Seq(Nat)
        /\ Unread(st.back) = <<>> /\ st.got # <<>> /\ ~st.end /\ st.kind # "to_file"
    BY DEF StreamOK, StreamType
  <1>2. last \in Nat \ {0} /\ st.got[last] \in Nat
    <2>1. last \in Nat \ {0}
      BY <1>1, EmptySeq
    <2> QED
      BY <1>1, <2>1, ElementOfSeq
  <1>3. c \in Seq(Nat) /\ Len(c) = 1
    BY <1>2
  <1>4. BufferOK(back) /\ Unread(back) = <<>> /\ Len(c) <= Room(back)
    <2>1. CASE Room(st.back) < 1
      <3>1. 1 \in Nat /\ 1 \in Nat \ {0}
        OBVIOUS
      <3>2. /\ BufferOK(GrownBuffer(st.back, 1, 1)) /\ 1 <= Room(GrownBuffer(st.back, 1, 1))
            /\ Unread(GrownBuffer(st.back, 1, 1)) = Unread(st.back)
        BY <1>1, <3>1, GrownOK
      <3> QED
        BY <1>1, <1>3, <2>1, <3>2
    <2>2. CASE ~(Room(st.back) < 1)
      <3>1. st.back \in Buffer
        BY <1>1 DEF BufferOK
      <3>2. Room(st.back) \in Int
        BY <3>1, RoomInt
      <3>3. 1 <= Room(st.back)
        BY <2>2, <3>2
      <3> QED
        BY <1>1, <1>3, <2>2, <3>3
    <2> QED
      BY <2>1, <2>2
  <1> HIDE DEF back
  <1>5. BufferOK(b) /\ Unread(b) = c
    <2>1. BufferOK(b) /\ Unread(b) = Cat(<<>>, c)
      BY <1>3, <1>4, BufferedOK
    <2> QED
      BY <1>3, <2>1, CatEmpty
  <1>6. g \in Seq(Nat) /\ Cat(g, c) = st.got
    <2>1. last - 1 \in Nat /\ last - 1 <= Len(st.got) /\ last - 1 < last
      BY <1>2
    <2>2. g \in Seq(Nat) /\ Cat(g, Part(st.got, last - 1, Len(st.got))) = st.got
      BY <1>1, <2>1, SplitSeq
    <2>3. Part(st.got, last - 1, last) = c
      <3> DEFINE p == Part(st.got, last - 1, last)
      <3>1. p = SubSeq(st.got, (last - 1) + 1, last)
        BY DEF Part
      <3>2. p \in Seq(Nat) /\ Len(p) = last - (last - 1)
            /\ \A k \in 1..(last - (last - 1)) : p[k] = st.got[(last - 1) + k]
        <4> DEFINE m == last - 1
                   s == st.got
        <4>1. m \in Nat /\ last \in Nat /\ m <= last /\ last <= Len(s) /\ s \in Seq(Nat)
          BY <1>1, <1>2
        <4> HIDE DEF m, last, s
        <4>2. /\ SubSeq(s, m + 1, last) \in Seq(Nat) /\ Len(SubSeq(s, m + 1, last)) = last - m
              /\ \A k \in 1..(last - m) : SubSeq(s, m + 1, last)[k] = s[m + k]
          BY <4>1, PartOf
        <4> QED
          BY <4>2 DEF m, s, Part
      <3>3. last - (last - 1) = 1 /\ (last - 1) + 1 = last
        BY <1>2
      <3>4. Len(p) = 1 /\ p[1] = st.got[last] /\ p \in Seq(Nat)
        BY <3>2, <3>3
      <3> HIDE DEF p
      <3>5. \A k \in 1..Len(p) : p[k] = c[k]
        BY <3>4
      <3>6. p = c
        BY <1>3, <3>4, <3>5, SeqEqual
      <3> QED
        BY <3>6 DEF p
    <2> QED
      BY <2>2, <2>3
  <1>7. [st EXCEPT !.back = Buffered(back, <<st.got[last]>>), !.got = SubSeq(@, 1, last - 1),
                   !.one = FALSE] = t
    <2>1. 0 + 1 = 1
      OBVIOUS
    <2> QED
      BY <2>1 DEF Part
  <1> HIDE DEF b, c, g, t, y, z
  <1>8. /\ t \in StreamType /\ t.kind = st.kind /\ t.buf = st.buf /\ t.back = b
        /\ t.end = st.end /\ t.broken = st.broken /\ t.file = st.file /\ t.bytes = st.bytes
        /\ t.got = g /\ ~t.one
    BY <1>1, <1>5, <1>6 DEF StreamType, BufferOK, t
  <1>9. InFile(t) = z /\ Passed(t) = g /\ Passed(st) = st.got
    BY <1>1, <1>8 DEF InFile, Passed, z
  <1>10. Left(t) = Cat(c, Left(st)) /\ Left(st) \in Seq(Nat)
    <2>1. /\ Left(st) = Cat(Cat(<<>>, y), z) /\ Left(st) \in Seq(Nat)
          /\ y \in Seq(Nat) /\ z \in Seq(Nat)
      BY <1>1, LeftIs DEF y, z
    <2>2. Left(t) = Cat(Cat(c, y), z)
      BY <1>1, <1>5, <1>8, <1>9, LeftIs DEF y
    <2>3. Cat(<<>>, y) = y /\ Cat(Cat(c, y), z) = Cat(c, Cat(y, z))
      BY <1>3, <2>1, CatEmpty, CatAssociative
    <2> QED
      BY <2>1, <2>2, <2>3
  <1>11. ASSUME ~t.broken PROVE t.bytes = Cat(Passed(t), Left(t))
    <2>1. st.bytes = Cat(st.got, Left(st))
      BY <1>8, <1>9, <1>11 DEF StreamOK
    <2>2. Cat(Cat(g, c), Left(st)) = Cat(g, Cat(c, Left(st)))
      BY <1>3, <1>6, <1>10, CatAssociative
    <2> QED
      BY <1>6, <1>8, <1>9, <1>10, <2>1, <2>2
  <1>12. Len(Unread(t.back)) = 1
    BY <1>3, <1>5, <1>8
  <1>13. StreamOK(t)
    <2>1. Len(Unread(t.back)) <= 1
      BY <1>12
    <2> QED
      BY <1>1, <1>5, <1>8, <1>11, <2>1 DEF StreamOK
  <1>14. /\ StreamOK(t) /\ t.kind = st.kind /\ t.bytes = st.bytes /\ t.broken = st.broken
    BY <1>8, <1>13
  <1> QED
    BY <1>7, <1>14, Zenon DEF back

-----------------------------------------------------------------------------
(* The invariant of the streams and of the call under way.                 *)

Clean(s) == \A k \in 1..Len(s) : s[k] # Garbage

LEMMA CleanCat ==
  ASSUME NEW s \in Seq(Nat), NEW t \in Seq(Nat)
  PROVE  Clean(Cat(s, t)) <=> Clean(s) /\ Clean(t)
  <1> DEFINE u == Cat(s, t)
  <1>1. /\ u \in Seq(Nat) /\ Len(u) = Len(s) + Len(t) /\ Len(s) \in Nat /\ Len(t) \in Nat
        /\ \A k \in 1..Len(s) + Len(t) : u[k] = IF k <= Len(s) THEN s[k] ELSE t[k - Len(s)]
    BY ConcatProperties, LenProperties DEF Cat
  <1> HIDE DEF u
  <1>2. ASSUME Clean(u), NEW k \in 1..Len(s) PROVE s[k] # Garbage
    <2>1. k \in 1..Len(s) + Len(t) /\ k <= Len(s)
      BY <1>1
    <2> QED
      BY <1>1, <1>2, <2>1 DEF Clean
  <1>3. ASSUME Clean(u), NEW k \in 1..Len(t) PROVE t[k] # Garbage
    <2>1. /\ Len(s) + k \in 1..Len(s) + Len(t) /\ ~(Len(s) + k <= Len(s))
          /\ (Len(s) + k) - Len(s) = k
      BY <1>1
    <2>2. u[Len(s) + k] = t[k]
      BY <1>1, <2>1
    <2>3. u[Len(s) + k] # Garbage
      BY <1>1, <1>3, <2>1 DEF Clean
    <2> QED
      BY <2>2, <2>3
  <1>4. ASSUME Clean(s), Clean(t), NEW k \in 1..Len(u) PROVE u[k] # Garbage
    <2>1. k \in 1..Len(s) + Len(t)
      BY <1>1
    <2>2. CASE k <= Len(s)
      <3>1. k \in 1..Len(s)
        BY <1>1, <2>1, <2>2
      <3> QED
        BY <1>1, <1>4, <2>1, <2>2, <3>1 DEF Clean
    <2>3. CASE ~(k <= Len(s))
      <3>1. k - Len(s) \in 1..Len(t)
        BY <1>1, <2>1, <2>3
      <3> QED
        BY <1>1, <1>4, <2>1, <2>3, <3>1 DEF Clean
    <2> QED
      BY <2>2, <2>3
  <1> QED
    BY <1>2, <1>3, <1>4 DEF Clean, u

Call == [at : {"idle", "read", "pipe", "piece", "write"}, of : {"from", "to"}, size : Nat,
         data : Seq(Nat), rest : Nat]

\* Each stream is right, and no byte is invented while the stream that is read is not broken.
StreamsOK ==
    /\ stm \in [{"from", "to"} -> StreamType]
    /\ \A x \in {"from", "to"} : StreamOK(stm[x])
    /\ stm["from"].kind # "to_file" /\ stm["to"].kind \in {"memory", "to_file"}
    /\ Clean(stm["from"].bytes)
    /\ ~stm["from"].broken => Clean(stm["to"].bytes)

\* In its loop i_read has something to read, from a stream that has not ended.
ReadingOK ==
    /\ reading \in Call
    /\ reading.at \in {"read", "pipe"} =>
          /\ Len(reading.data) < reading.size
          /\ stm[reading.of].kind # "to_file" /\ ~stm[reading.of].one
          /\ ~stm[reading.of].end /\ ~stm[reading.of].broken
          /\ Unread(stm[reading.of].back) = <<>>
    /\ reading.at \in {"pipe", "write"} => reading.of = "from" /\ Len(reading.data) <= reading.size
    /\ reading.at = "piece" => reading.rest > 0

\* What a pipe still has to read is left in its stream.
PipeOK ==
    ~stm["from"].broken =>
        /\ reading.at \in {"pipe", "write"} => Clean(reading.data)
        /\ reading.at = "pipe" =>
              reading.size + reading.rest <= Len(reading.data) + Len(Left(stm["from"]))
        /\ reading.at = "write" => Len(reading.data) = reading.size
        /\ reading.at \in {"write", "piece"} => reading.rest <= Len(Left(stm["from"]))

StreamsInv == StreamsOK /\ ReadingOK /\ PipeOK

\* One of the streams is exchanged for its successor.
LEMMA ExchangedOK ==
  ASSUME StreamsOK, NEW x \in {"from", "to"}, NEW st, StreamOK(st), st.kind = stm[x].kind,
         st.bytes = stm[x].bytes \/ (x = "from" => Clean(st.bytes)),
         stm[x].broken /\ x = "from" => st.broken,
         x = "to" /\ ~stm["from"].broken => Clean(st.bytes),
         stm' = [stm EXCEPT ![x] = st]
  PROVE  StreamsOK' /\ stm'[x] = st /\ \A y \in {"from", "to"} : y # x => stm'[y] = stm[y]
  <1>1. st \in StreamType
    BY DEF StreamOK
  <1>2. stm' \in [{"from", "to"} -> StreamType] /\ stm'[x] = st
        /\ \A y \in {"from", "to"} : y # x => stm'[y] = stm[y]
    BY <1>1 DEF StreamsOK
  <1>3. \A y \in {"from", "to"} : StreamOK(stm'[y])
    BY <1>2 DEF StreamsOK
  <1>4. stm'["from"].kind # "to_file" /\ stm'["to"].kind \in {"memory", "to_file"}
    BY <1>2 DEF StreamsOK
  <1>5. Clean(stm'["from"].bytes)
    BY <1>2 DEF StreamsOK
  <1>6. ~stm'["from"].broken => Clean(stm'["to"].bytes)
    BY <1>2 DEF StreamsOK
  <1> QED
    BY <1>2, <1>3, <1>4, <1>5, <1>6 DEF StreamsOK

\* Where i_read goes on, or ends.
LEMMA GoOnKeeps ==
  ASSUME StreamsOK, NEW call \in Call, call.at \in {"read", "pipe"},
         call.at = "pipe" => call.of = "from", call.size > 0,
         NEW st, StreamOK(st), st.kind # "to_file", st.kind = stm[call.of].kind,
         st.bytes = stm[call.of].bytes, stm[call.of].broken => st.broken,
         NEW d \in Seq(Nat), Len(d) <= call.size, NEW more \in BOOLEAN,
         call.size = 1 /\ d # <<>> => ~st.end /\ Unread(st.back) = <<>> /\ st.got # <<>>,
         more => ~st.end /\ ~st.broken /\ (Len(d) = call.size \/ Unread(st.back) = <<>>),
         call.at = "pipe" /\ ~st.broken =>
             /\ Clean(d) /\ call.size + call.rest <= Len(d) + Len(Left(st))
             /\ more \/ Len(d) = call.size,
         GoOn(call, st, d, more)
  PROVE  StreamsInv'
  <1> DEFINE ends == ~more \/ Len(d) = call.size
             one == ends /\ call.size = 1 /\ d # <<>>
             t == [st EXCEPT !.one = one]
  <1>1. /\ call.of \in {"from", "to"} /\ call.size \in Nat /\ call.rest \in Nat /\ Len(d) \in Nat
        /\ Left(st) \in Seq(Nat) /\ Len(Left(st)) \in Nat
    <2>1. st \in StreamType /\ BufferOK(st.buf) /\ BufferOK(st.back)
      BY DEF StreamOK
    <2> QED
      BY <2>1, LeftIs, LenProperties DEF Call
  <1>2. /\ StreamOK(t) /\ t.kind = st.kind /\ t.bytes = st.bytes /\ t.back = st.back
        /\ t.end = st.end /\ t.broken = st.broken /\ t.one = one /\ Left(t) = Left(st)
    <2>1. one \in BOOLEAN /\ (one => ~st.end /\ st.kind # "to_file" /\ Unread(st.back) = <<>> /\ st.got # <<>>)
      OBVIOUS
    <2> HIDE DEF one
    <2> QED
      BY <2>1, NotedOK
  <1>3. /\ stm' = [stm EXCEPT ![call.of] = t]
        /\ reading' = IF ends /\ call.at = "read" THEN NoRead
                      ELSE [call EXCEPT !.data = d, !.at = IF ends THEN "write" ELSE @]
    BY DEF GoOn
  <1> HIDE DEF t, one
  <1>4. StreamsOK' /\ stm'[call.of] = t
    BY <1>1, <1>2, <1>3, ExchangedOK DEF StreamsOK
  <1>5. CASE ends /\ call.at = "read"
    <2>1. reading' \in Call /\ reading'.at = "idle"
      BY <1>3, <1>5, EmptySeq DEF NoRead, Call
    <2> QED
      BY <1>4, <2>1 DEF StreamsInv, ReadingOK, PipeOK
  <1>6. CASE ends /\ call.at = "pipe"
    <2>1. /\ reading' \in Call /\ reading'.at = "write" /\ reading'.data = d
          /\ reading'.of = "from" /\ reading'.size = call.size /\ reading'.rest = call.rest
      BY <1>3, <1>6 DEF Call
    <2>2. stm'["from"] = t /\ Left(stm'["from"]) = Left(st) /\ stm'["from"].broken = st.broken
      BY <1>2, <1>4, <1>6
    <2>3. ASSUME ~st.broken PROVE Clean(d) /\ Len(d) = call.size /\ call.rest <= Len(Left(st))
      <3>1. Clean(d) /\ Len(d) = call.size /\ call.size + call.rest <= Len(d) + Len(Left(st))
        BY <1>6, <2>3
      <3> QED
        BY <1>1, <3>1
    <2>4. ReadingOK'
      BY <2>1 DEF ReadingOK
    <2>5. PipeOK'
      BY <2>1, <2>2, <2>3 DEF PipeOK
    <2> QED
      BY <1>4, <2>4, <2>5 DEF StreamsInv
  <1>7. CASE ~ends
    <2>1. /\ reading' \in Call /\ reading'.at = call.at /\ reading'.data = d
          /\ reading'.of = call.of /\ reading'.size = call.size /\ reading'.rest = call.rest
      BY <1>3, <1>7 DEF Call
    <2>2. /\ Len(d) < call.size /\ t.kind # "to_file" /\ ~t.one /\ ~t.end /\ ~t.broken
          /\ Unread(t.back) = <<>>
      <3>1. more /\ Len(d) # call.size
        BY <1>7
      <3>2. Len(d) < call.size
        BY <1>1, <3>1
      <3>3. ~st.end /\ ~st.broken /\ Unread(st.back) = <<>>
        BY <3>1
      <3>4. ~one
        BY <1>7 DEF one
      <3> QED
        BY <1>2, <3>2, <3>3, <3>4
    <2>3. ReadingOK'
      BY <1>4, <2>1, <2>2 DEF ReadingOK
    <2>4. ASSUME call.at = "pipe"
          PROVE  /\ stm'["from"] = t /\ Clean(d)
                 /\ call.size + call.rest <= Len(d) + Len(Left(stm'["from"]))
      BY <1>2, <1>4, <2>2, <2>4
    <2>5. PipeOK'
      BY <2>1, <2>4 DEF PipeOK
    <2> QED
      BY <1>4, <2>3, <2>5 DEF StreamsInv
  <1> QED
    BY <1>5, <1>6, <1>7

\* The bytes that are left of a clean stream are clean.
LEMMA LeftClean ==
  ASSUME NEW st, StreamOK(st), ~st.broken, Clean(st.bytes)
  PROVE  Clean(Left(st)) /\ Clean(Unread(st.back)) /\ Clean(Unread(st.buf))
  <1>1. st \in StreamType /\ BufferOK(st.buf) /\ BufferOK(st.back)
    BY DEF StreamOK
  <1>2. /\ Unread(st.back) \in Seq(Nat) /\ Unread(st.buf) \in Seq(Nat) /\ InFile(st) \in Seq(Nat)
        /\ Left(st) = Cat(Cat(Unread(st.back), Unread(st.buf)), InFile(st))
        /\ Left(st) \in Seq(Nat) /\ Passed(st) \in Seq(Nat)
    BY <1>1, LeftIs
  <1>3. st.bytes = Cat(Passed(st), Left(st))
    BY DEF StreamOK
  <1>4. Clean(Left(st))
    BY <1>2, <1>3, CleanCat
  <1>5. Cat(Unread(st.back), Unread(st.buf)) \in Seq(Nat)
    BY <1>2, CatSeq
  <1>6. Clean(Cat(Unread(st.back), Unread(st.buf)))
    BY <1>2, <1>4, <1>5, CleanCat
  <1> QED
    BY <1>2, <1>4, <1>6, CleanCat

LEMMA CleanPart ==
  ASSUME NEW s \in Seq(Nat), Clean(s), NEW n \in Nat, n <= Len(s)
  PROVE  Clean(Part(s, 0, n))
  BY SplitSeq, CleanCat

LEMMA LesserIs ==
  ASSUME NEW m \in Nat, NEW n \in Nat
  PROVE  /\ Lesser(m, n) \in Nat /\ Lesser(m, n) <= m /\ Lesser(m, n) <= n
         /\ Lesser(m, n) = m \/ Lesser(m, n) = n
  BY DEF Lesser

\* A call to read or a piece of a pipe begins.
LEMMA BeginKeeps ==
  ASSUME StreamsOK, NEW call \in Call, call.at \in {"read", "pipe"}, call.data = <<>>,
         call.size > 0, stm[call.of].kind # "to_file",
         call.at = "pipe" => call.of = "from",
         call.at = "pipe" /\ ~stm["from"].broken => call.size + call.rest <= Len(Left(stm["from"])),
         BeginRead(call)
  PROVE  StreamsInv'
  <1> DEFINE st   == stm[call.of]
             back == Unread(st.back)
             take == Lesser(call.size, Len(back))
  <1>1. /\ StreamOK(st) /\ st \in StreamType /\ BufferOK(st.buf) /\ BufferOK(st.back)
        /\ call.of \in {"from", "to"} /\ call.size \in Nat /\ call.rest \in Nat
    BY DEF StreamsOK, StreamOK, Call
  <1>2. /\ back \in Seq(Nat) /\ Len(back) \in Nat /\ Len(back) <= 1
        /\ Left(st) \in Seq(Nat) /\ Len(Left(st)) \in Nat /\ Len(back) <= Len(Left(st))
    <2>1. /\ back \in Seq(Nat) /\ Unread(st.buf) \in Seq(Nat) /\ InFile(st) \in Seq(Nat)
          /\ Left(st) \in Seq(Nat)
          /\ Len(Left(st)) = Len(back) + Len(Unread(st.buf)) + Len(InFile(st))
      BY <1>1, LeftIs
    <2>2. /\ Len(back) \in Nat /\ Len(Unread(st.buf)) \in Nat /\ Len(InFile(st)) \in Nat
          /\ Len(Left(st)) \in Nat
      BY <2>1, LenProperties
    <2>3. Len(back) <= 1
      BY <1>1 DEF StreamOK
    <2>4. Len(back) <= Len(Left(st))
      BY <2>1, <2>2
    <2> QED
      BY <2>1, <2>2, <2>3, <2>4
  <1>3. CASE st.end \/ st.broken
    <2>1. GoOn(call, st, <<>>, FALSE)
      BY <1>3 DEF BeginRead
    <2>2. <<>> \in Seq(Nat) /\ Len(<<>>) = 0 /\ FALSE \in BOOLEAN
      BY EmptySeq
    <2>3. ASSUME call.at = "pipe", ~st.broken
          PROVE  Clean(<<>>) /\ call.size + call.rest <= Len(<<>>) + Len(Left(st)) /\ (FALSE \/ Len(<<>>) = call.size)
      <3>1. st.end /\ Left(st) = <<>>
        BY <1>1, <1>3, <2>3 DEF StreamOK
      <3>2. call.size + call.rest <= Len(Left(st))
        BY <2>3
      <3> QED
        BY <1>1, <2>2, <3>1, <3>2
    <2> DEFINE none == <<>>
    <2>4. /\ none \in Seq(Nat) /\ Len(none) <= call.size /\ GoOn(call, st, none, FALSE)
          /\ ~(call.size = 1 /\ none # <<>>)
      <3>1. GoOn(call, st, none, FALSE)
        BY <2>1
      <3>2. none \in Seq(Nat) /\ Len(none) <= call.size
        BY <1>1, <2>2
      <3> QED
        BY <3>1, <3>2
    <2>5. call.at = "pipe" /\ ~st.broken =>
             Clean(none) /\ call.size + call.rest <= Len(none) + Len(Left(st)) /\ (FALSE \/ Len(none) = call.size)
      BY <2>3
    <2>6. st.kind # "to_file" /\ st.kind = stm[call.of].kind /\ st.bytes = stm[call.of].bytes
          /\ (stm[call.of].broken => st.broken)
      OBVIOUS
    <2> HIDE DEF st, none
    <2> QED
      BY <1>1, <2>2, <2>4, <2>5, <2>6, GoOnKeeps
  <1>4. CASE ~st.end /\ ~st.broken
    <2> DEFINE t == TakenBack(st, take)
               d == Part(back, 0, take)
    <2>1. GoOn(call, t, d, TRUE)
      <3>1. GoOn(call, t, SubSeq(back, 1, take), TRUE)
        BY <1>4 DEF BeginRead
      <3>2. 0 + 1 = 1
        OBVIOUS
      <3> QED
        BY <3>1, <3>2 DEF Part
    <2>2. /\ take \in Nat /\ take <= call.size /\ take <= Len(back)
          /\ take = call.size \/ take = Len(back)
      BY <1>1, <1>2, LesserIs
    <2>3. d \in Seq(Nat) /\ Len(d) = take
      BY <1>2, <2>2, SplitSeq
    <2> HIDE DEF take
    <2>4. /\ StreamOK(t) /\ t.kind = st.kind /\ t.bytes = st.bytes
          /\ Len(Unread(t.back)) = Len(back) - take
          /\ ~t.end /\ ~t.one /\ t.broken = st.broken /\ t.got = Cat(st.got, d)
          /\ Len(Left(t)) = Len(Left(st)) - take
      BY <1>1, <1>4, <2>2, TakenBackOK
    <2>5. t \in StreamType /\ BufferOK(t.back)
      BY <2>4 DEF StreamOK
    <2> HIDE DEF t, d, back, st
    <2>6. Unread(t.back) \in Seq(Nat)
      BY <2>5, UnreadIs
    <2>7. take = Len(back) => Unread(t.back) = <<>>
      BY <1>2, <2>2, <2>4, <2>6, EmptySeq
    <2>8. ASSUME call.size = 1, d # <<>>
          PROVE  ~t.end /\ Unread(t.back) = <<>> /\ t.got # <<>>
      <3>1. take # 0
        BY <2>3, <2>8, EmptySeq
      <3>2. take = Len(back)
        BY <1>2, <2>2, <3>1
      <3>3. st.got \in Seq(Nat)
        BY <1>1 DEF StreamType
      <3>4. t.got # <<>>
        BY <2>3, <2>4, <2>8, <3>3, ConcatEqualIffEmpty DEF Cat
      <3> QED
        BY <2>4, <2>7, <3>2, <3>4
    <2>9. ASSUME call.at = "pipe", ~t.broken
          PROVE  Clean(d) /\ call.size + call.rest <= Len(d) + Len(Left(t))
      <3>1. ~st.broken /\ st = stm["from"]
        BY <2>4, <2>9 DEF st
      <3>2. Clean(st.bytes)
        BY <3>1 DEF StreamsOK
      <3>3. Clean(back)
        BY <1>1, <3>1, <3>2, LeftClean DEF back
      <3>4. Clean(d)
        BY <1>2, <2>2, <3>3, CleanPart DEF d
      <3>5. call.size + call.rest <= Len(Left(st))
        BY <2>9, <3>1
      <3> QED
        BY <1>1, <1>2, <2>2, <2>3, <2>4, <3>4, <3>5
    <2>10. Len(d) = call.size \/ Unread(t.back) = <<>>
      BY <2>2, <2>3, <2>7
    <2>11. t.kind # "to_file" /\ t.kind = stm[call.of].kind /\ t.bytes = stm[call.of].bytes
           /\ (stm[call.of].broken => t.broken)
      BY <2>4 DEF st
    <2>12. ~t.end /\ ~t.broken
      BY <1>4, <2>4
    <2> QED
      BY <2>1, <2>2, <2>3, <2>4, <2>8, <2>9, <2>10, <2>11, <2>12, GoOnKeeps
  <1> QED
    BY <1>3, <1>4

LEMMA TurnKeeps ==
  ASSUME StreamsInv, Turn
  PROVE  StreamsInv'
  <1> DEFINE st == stm[reading.of]
  <1>1. /\ reading \in Call /\ reading.at \in {"read", "pipe"} /\ reading.of \in {"from", "to"}
        /\ reading.data \in Seq(Nat) /\ reading.size \in Nat /\ reading.rest \in Nat
        /\ Len(reading.data) \in Nat /\ Len(reading.data) < reading.size
    BY LenProperties DEF Turn, StreamsInv, ReadingOK, Call
  <1>2. /\ StreamOK(st) /\ st.kind # "to_file" /\ ~st.one /\ ~st.end /\ ~st.broken
        /\ Unread(st.back) = <<>>
    BY <1>1 DEF StreamsInv, StreamsOK, ReadingOK
  <1>3. ASSUME reading.at = "pipe"
        PROVE  /\ st = stm["from"] /\ Clean(reading.data) /\ Clean(st.bytes)
               /\ reading.size + reading.rest <= Len(reading.data) + Len(Left(st))
    BY <1>2, <1>3 DEF StreamsInv, StreamsOK, ReadingOK, PipeOK
  <1>4. PICK f \in (IF Unread(st.buf) = <<>> THEN CacheFilled(st) ELSE {st}) :
           LET next == Unread(f.buf)
               take == Lesser(reading.size - Len(reading.data), Len(next))
           IN  IF next = <<>> THEN GoOn(reading, f, reading.data, FALSE)
               ELSE GoOn(reading, Consumed(f, take), reading.data \o SubSeq(next, 1, take), TRUE)
    BY DEF Turn
  <1>5. /\ StreamOK(f) /\ f.kind = st.kind /\ f.bytes = st.bytes /\ Unread(f.back) = <<>> /\ ~f.one
        /\ ~f.broken => Left(f) = Left(st)
        /\ Unread(f.buf) = <<>> => f.broken \/ Left(f) = <<>>
        /\ Unread(f.buf) # <<>> => ~f.end /\ ~f.broken
    <2>1. CASE Unread(st.buf) = <<>>
      <3>1. f \in CacheFilled(st)
        BY <2>1
      <3> HIDE DEF st
      <3>2. /\ StreamOK(f) /\ f.kind = st.kind /\ f.bytes = st.bytes /\ f.back = st.back /\ ~f.one
            /\ ~f.broken => Left(f) = Left(st)
            /\ Unread(f.buf) = <<>> => f.broken \/ Left(f) = <<>>
            /\ Unread(f.buf) # <<>> => ~f.end /\ ~f.broken
        BY <1>2, <2>1, <3>1, CacheFilledOK
      <3> QED
        BY <1>2, <3>2
    <2>2. CASE Unread(st.buf) # <<>>
      <3>1. f = st
        BY <2>2
      <3> HIDE DEF st
      <3> QED
        BY <1>2, <2>2, <3>1
    <2> QED
      BY <2>1, <2>2
  <1> DEFINE next == Unread(f.buf)
             take == Lesser(reading.size - Len(reading.data), Len(next))
             t    == Consumed(f, take)
             p    == Part(next, 0, take)
             d    == Cat(reading.data, p)
  <1>6. next \in Seq(Nat) /\ Len(next) \in Nat
    BY <1>5, UnreadIs, LenProperties DEF StreamOK
  <1>7. StreamsOK /\ f.kind # "to_file" /\ f.kind = stm[reading.of].kind
        /\ f.bytes = stm[reading.of].bytes /\ ~stm[reading.of].broken
    BY <1>2, <1>5 DEF StreamsInv
  <1>8. CASE next = <<>>
    <2>1. GoOn(reading, f, reading.data, FALSE)
      BY <1>4, <1>8
    <2>2. ASSUME reading.at = "pipe", ~f.broken PROVE FALSE
      <3>1. Left(st) = <<>>
        BY <1>5, <1>8, <2>2
      <3>2. Len(Left(st)) = 0
        BY <3>1, EmptySeq
      <3>3. reading.size + reading.rest <= Len(reading.data) + 0
        BY <1>3, <2>2, <3>2
      <3> QED
        BY <1>1, <3>3
    <2>3. ~(reading.size = 1 /\ reading.data # <<>>)
      BY <1>1, EmptySeq
    <2>4. /\ Len(reading.data) <= reading.size /\ FALSE \in BOOLEAN /\ reading.size > 0
          /\ reading.at = "pipe" => reading.of = "from"
      BY <1>1 DEF StreamsInv, ReadingOK
    <2> HIDE DEF st
    <2> QED
      BY <1>1, <1>5, <1>7, <2>1, <2>2, <2>3, <2>4, GoOnKeeps
  <1>9. CASE next # <<>>
    <2>1. GoOn(reading, t, d, TRUE)
      <3>1. GoOn(reading, Consumed(f, take), reading.data \o SubSeq(next, 1, take), TRUE)
        BY <1>4, <1>9
      <3>2. 0 + 1 = 1
        OBVIOUS
      <3> QED
        BY <3>1, <3>2 DEF Part, Cat
    <2>2. /\ take \in Nat /\ take > 0 /\ take <= reading.size - Len(reading.data) /\ take <= Len(next)
      <3>1. reading.size - Len(reading.data) \in Nat /\ reading.size - Len(reading.data) > 0
        BY <1>1
      <3>2. Len(next) > 0
        BY <1>6, <1>9, EmptySeq
      <3> QED
        BY <1>6, <3>1, <3>2, LesserIs
    <2>3. p \in Seq(Nat) /\ Len(p) = take
      BY <1>6, <2>2, SplitSeq
    <2> HIDE DEF take
    <2>4. /\ StreamOK(t) /\ t.kind = f.kind /\ t.bytes = f.bytes /\ t.back = f.back
          /\ ~t.end /\ ~t.one /\ t.broken = f.broken /\ t.got = Cat(f.got, p)
          /\ Len(Left(t)) = Len(Left(f)) - take
      BY <1>5, <1>7, <1>9, <2>2, ConsumedOK
    <2> HIDE DEF t, p, next, st
    <2>5. d \in Seq(Nat) /\ Len(d) = Len(reading.data) + take
      BY <1>1, <2>3, CatSeq
    <2>6. t.got # <<>>
      <3>1. f.got \in Seq(Nat)
        BY <1>5 DEF StreamOK, StreamType
      <3>2. p # <<>>
        BY <2>2, <2>3, EmptySeq
      <3> QED
        BY <2>3, <2>4, <3>1, <3>2, ConcatEqualIffEmpty DEF Cat
    <2>7. ASSUME reading.at = "pipe"
          PROVE  Clean(d) /\ reading.size + reading.rest <= Len(d) + Len(Left(t))
      <3>1. ~f.broken /\ Left(f) = Left(st) /\ Clean(f.bytes) /\ Clean(reading.data)
        BY <1>3, <1>5, <1>9, <2>7 DEF next
      <3>2. Clean(next)
        BY <1>5, <3>1, LeftClean DEF next
      <3>3. Clean(p)
        BY <1>6, <2>2, <3>2, CleanPart DEF p
      <3>4. Clean(d)
        BY <1>1, <2>3, <3>1, <3>3, CleanCat
      <3>5. reading.size + reading.rest <= Len(reading.data) + Len(Left(f))
        BY <1>3, <2>7, <3>1
      <3>6. Len(Left(f)) \in Nat
        <4>1. f \in StreamType /\ BufferOK(f.buf) /\ BufferOK(f.back)
          BY <1>5 DEF StreamOK
        <4> QED
          BY <4>1, LeftIs, LenProperties
      <3> QED
        BY <1>1, <2>2, <2>4, <2>5, <3>4, <3>5, <3>6
    <2>8. Unread(t.back) = <<>> /\ ~t.broken
      BY <1>5, <1>9, <2>4 DEF next
    <2>9. /\ Len(d) <= reading.size /\ TRUE \in BOOLEAN /\ reading.size > 0
          /\ reading.at = "pipe" => reading.of = "from"
      BY <1>1, <2>2, <2>5 DEF StreamsInv, ReadingOK
    <2>10. t.kind # "to_file" /\ t.kind = stm[reading.of].kind /\ t.bytes = stm[reading.of].bytes
      BY <1>7, <2>4
    <2> HIDE DEF d
    <2> QED
      BY <1>1, <1>7, <2>1, <2>4, <2>5, <2>6, <2>7, <2>8, <2>9, <2>10, GoOnKeeps
  <1> QED
    BY <1>8, <1>9

-----------------------------------------------------------------------------
(* The other steps.                                                        *)

\* The streams to begin with.
LEMMA BytesClean ==
  ASSUME NEW n \in Nat
  PROVE  FirstBytes(n) \in Seq(Nat) /\ Clean(FirstBytes(n))
  <1>1. FirstBytes(n) \in [1..n -> Nat]
    BY DEF FirstBytes
  <1>2. FirstBytes(n) \in Seq(Nat) /\ Len(FirstBytes(n)) = n
    BY <1>1, CellsSeq
  <1>3. \A k \in 1..n : FirstBytes(n)[k] = k /\ k # 0
    BY DEF FirstBytes
  <1> QED
    BY <1>2, <1>3 DEF Clean, Garbage

LEMMA NewStreamOK ==
  ASSUME NEW kind \in {"memory", "block", "from_file", "to_file"}, NEW buf, BufferOK(buf), buf.r = 0,
         NEW file \in Seq(Nat), NEW bytes \in Seq(Nat),
         kind = "from_file" => bytes = Cat(Unread(buf), file),
         kind # "from_file" => bytes = Unread(buf),
         kind = "to_file" => file = <<>> /\ Unread(buf) = <<>>
  PROVE  LET st == Stream(kind, buf, file, bytes)
         IN  StreamOK(st) /\ st.kind = kind /\ st.bytes = bytes /\ ~st.broken
  <1> DEFINE st == Stream(kind, buf, file, bytes)
             e  == EmptyBuffer(0)
  <1>1. BufferOK(e) /\ Unread(e) = <<>>
    BY EmptyBufferOK
  <1>2. st = [kind |-> kind, buf |-> buf, back |-> e, end |-> FALSE, broken |-> FALSE,
              file |-> file, bytes |-> bytes, got |-> <<>>, one |-> FALSE]
    BY DEF Stream
  <1> HIDE DEF st, e
  <1>3. /\ st \in StreamType /\ st.kind = kind /\ st.buf = buf /\ st.back = e /\ ~st.end /\ ~st.broken
        /\ st.file = file /\ st.bytes = bytes /\ st.got = <<>> /\ ~st.one
    BY <1>1, <1>2, EmptySeq DEF StreamType, BufferOK
  <1>4. Passed(st) = <<>>
    BY <1>3 DEF Passed
  <1>5. Left(st) = bytes /\ Left(st) \in Seq(Nat)
    <2>1. /\ Left(st) = Cat(Cat(<<>>, Unread(buf)), InFile(st)) /\ Unread(buf) \in Seq(Nat)
          /\ Left(st) \in Seq(Nat)
      BY <1>1, <1>3, LeftIs
    <2>2. InFile(st) = IF kind = "from_file" THEN file ELSE <<>>
      BY <1>3 DEF InFile
    <2>3. Cat(<<>>, Unread(buf)) = Unread(buf) /\ Cat(Unread(buf), <<>>) = Unread(buf)
      BY <2>1, CatEmpty
    <2>4. CASE kind = "from_file"
      BY <2>1, <2>2, <2>3, <2>4
    <2>5. CASE kind # "from_file"
      BY <2>1, <2>2, <2>3, <2>5
    <2> QED
      BY <2>4, <2>5
  <1>6. st.bytes = Cat(Passed(st), Left(st))
    BY <1>3, <1>4, <1>5, CatEmpty
  <1>7. Len(Unread(st.back)) <= 1
    BY <1>1, <1>3, EmptySeq
  <1>8. StreamOK(st)
    BY <1>1, <1>3, <1>6, <1>7 DEF StreamOK
  <1> QED
    BY <1>3, <1>8 DEF st

LEMMA MemoryOK ==
  ASSUME NEW st \in Memories
  PROVE  StreamOK(st) /\ st.kind = "memory" /\ st.bytes = <<>> /\ ~st.broken
  <1>1. PICK n \in FirstSizes : st = Stream("memory", EmptyBuffer(Pow2(n)), <<>>, <<>>)
    BY DEF Memories
  <1>2. Pow2(n) \in Nat
    <2>1. n \in Nat
      BY StreamAssumption
    <2>2. CASE n = 0
      BY <2>2 DEF Pow2
    <2>3. CASE n # 0
      <3>1. Doublings(1, n) \in Nat
        BY <2>1, DoublingsReach
      <3> QED
        BY <2>3, <3>1, TwoToDef DEF Pow2
    <2> QED
      BY <2>2, <2>3
  <1> DEFINE b == EmptyBuffer(Pow2(n))
  <1>3. BufferOK(b) /\ Unread(b) = <<>> /\ b.r = 0
    BY <1>2, EmptyBufferOK
  <1> DEFINE none == <<>>
  <1>4. none \in Seq(Nat) /\ Unread(b) = none /\ st = Stream("memory", b, none, none)
    BY <1>1, <1>3, EmptySeq
  <1>5. SUFFICES st.bytes = none /\ StreamOK(st) /\ st.kind = "memory" /\ ~st.broken
    OBVIOUS
  <1> HIDE DEF b, none
  <1> QED
    BY <1>3, <1>4, NewStreamOK

LEMMA ReadableOK ==
  ASSUME NEW st \in Readables
  PROVE  StreamOK(st) /\ st.kind \in {"block", "from_file"} /\ Clean(st.bytes) /\ ~st.broken
  <1>1. CASE \E n \in FileSizes \ {0} : st = Stream("block", Filled(FirstBytes(n)), <<>>, FirstBytes(n))
    <2>1. PICK n \in FileSizes \ {0} : st = Stream("block", Filled(FirstBytes(n)), <<>>, FirstBytes(n))
      BY <1>1
    <2> DEFINE f == FirstBytes(n)
               b == Filled(f)
    <2>2. f \in Seq(Nat) /\ Clean(f)
      BY BytesClean, StreamAssumption
    <2>3. BufferOK(b) /\ Unread(b) = f /\ b.r = 0
      BY <2>2, FilledOK DEF Filled
    <2> DEFINE none == <<>>
    <2>4. none \in Seq(Nat) /\ st = Stream("block", b, none, f)
      BY <2>1, EmptySeq
    <2> HIDE DEF b, f, none
    <2>5. StreamOK(st) /\ st.kind = "block" /\ st.bytes = f /\ ~st.broken
      BY <2>2, <2>3, <2>4, NewStreamOK
    <2> QED
      BY <2>2, <2>5
  <1>2. CASE \E n \in FileSizes : st = Stream("from_file", EmptyBuffer(Cache), FirstBytes(n), FirstBytes(n))
    <2>1. PICK n \in FileSizes : st = Stream("from_file", EmptyBuffer(Cache), FirstBytes(n), FirstBytes(n))
      BY <1>2
    <2> DEFINE f == FirstBytes(n)
               b == EmptyBuffer(Cache)
    <2>2. f \in Seq(Nat) /\ Clean(f)
      BY BytesClean, StreamAssumption
    <2>3. BufferOK(b) /\ Unread(b) = <<>> /\ b.r = 0
      BY EmptyBufferOK, StreamAssumption
    <2>4. f = Cat(Unread(b), f)
      BY <2>2, <2>3, CatEmpty
    <2> HIDE DEF b, f
    <2>5. /\ StreamOK(Stream("from_file", b, f, f)) /\ Stream("from_file", b, f, f).kind = "from_file"
          /\ Stream("from_file", b, f, f).bytes = f /\ ~Stream("from_file", b, f, f).broken
      BY <2>2, <2>3, <2>4, NewStreamOK
    <2> QED
      BY <2>1, <2>2, <2>5 DEF b, f
  <1> QED
    BY <1>1, <1>2 DEF Readables

LEMMA WritableOK ==
  ASSUME NEW st \in Writables
  PROVE  StreamOK(st) /\ st.kind = "to_file" /\ st.bytes = <<>> /\ ~st.broken
  <1> DEFINE b == EmptyBuffer(Cache)
  <1>1. BufferOK(b) /\ Unread(b) = <<>> /\ b.r = 0
    BY EmptyBufferOK, StreamAssumption
  <1> DEFINE none == <<>>
  <1>2. none \in Seq(Nat) /\ Unread(b) = none
    BY <1>1, EmptySeq
  <1>3. st = Stream("to_file", b, none, none)
    BY DEF Writables
  <1>4. SUFFICES st.bytes = none /\ StreamOK(st) /\ st.kind = "to_file" /\ ~st.broken
    OBVIOUS
  <1> HIDE DEF b, none
  <1> QED
    BY <1>1, <1>2, <1>3, NewStreamOK

LEMMA InitInv == StreamsInit => StreamsInv
  <1> SUFFICES ASSUME StreamsInit PROVE StreamsInv
    OBVIOUS
  <1>1. PICK from \in Memories \cup Readables, to \in Memories \cup Writables :
           /\ stm = [x \in {"from", "to"} |-> IF x = "from" THEN from ELSE to]
           /\ reading = NoRead
    BY DEF StreamsInit
  <1>2. Clean(<<>>)
    BY EmptySeq DEF Clean
  <1>3. /\ StreamOK(from) /\ from.kind # "to_file" /\ Clean(from.bytes)
    BY <1>2, MemoryOK, ReadableOK
  <1>4. /\ StreamOK(to) /\ to.kind \in {"memory", "to_file"} /\ Clean(to.bytes)
    BY <1>2, MemoryOK, WritableOK
  <1>5. stm["from"] = from /\ stm["to"] = to /\ DOMAIN stm = {"from", "to"}
    BY <1>1
  <1>6. stm \in [{"from", "to"} -> StreamType]
    BY <1>1, <1>3, <1>4 DEF StreamOK
  <1>7. StreamsOK
    BY <1>3, <1>4, <1>5, <1>6 DEF StreamsOK
  <1>8. reading \in Call /\ reading.at = "idle"
    BY <1>1, EmptySeq DEF NoRead, Call
  <1> QED
    BY <1>7, <1>8 DEF StreamsInv, ReadingOK, PipeOK

\* A call in one step leaves the streams right and none under way.
LEMMA IdleKeeps ==
  ASSUME StreamsOK', ReadingOK, Quiescent, UNCHANGED reading
  PROVE  StreamsInv'
  BY DEF StreamsInv, ReadingOK, PipeOK, Quiescent

LEMMA WriteKeeps ==
  ASSUME StreamsInv, NEW x \in {"from", "to"}, NEW n \in Nat, WriteStream(x, n)
  PROVE  StreamsInv'
  <1> DEFINE s == [k \in 1..n |-> Len(stm[x].bytes) + k]
  <1>1. PICK st \in WrittenTo(stm[x], s) : stm' = [stm EXCEPT ![x] = st]
    BY DEF WriteStream
  <1>2. StreamOK(stm[x]) /\ stm[x].kind \in {"memory", "to_file"} /\ stm[x].bytes \in Seq(Nat)
    BY DEF WriteStream, StreamsInv, StreamsOK, StreamOK, StreamType
  <1>3. s \in Seq(Nat) /\ Clean(s)
    <2>1. Len(stm[x].bytes) \in Nat
      BY <1>2, LenProperties
    <2>2. s \in [1..n -> Nat] /\ \A k \in 1..n : s[k] # 0
      BY <2>1
    <2> HIDE DEF s
    <2>3. s \in Seq(Nat) /\ Len(s) = n
      BY <2>2, CellsSeq
    <2> QED
      BY <2>2, <2>3 DEF Clean, Garbage
  <1> HIDE DEF s
  <1>4. /\ StreamOK(st) /\ st.kind = stm[x].kind
        /\ stm[x].broken => st = stm[x]
        /\ ~stm[x].broken => st.bytes = Cat(stm[x].bytes, s)
    BY <1>2, <1>3, WrittenOK
  <1>5. Clean(stm[x].bytes) => Clean(st.bytes)
    BY <1>2, <1>3, <1>4, CleanCat
  <1>6. StreamsOK /\ (x = "from" => Clean(stm[x].bytes)) /\ (x = "to" /\ ~stm["from"].broken => Clean(stm[x].bytes))
    BY DEF StreamsInv, StreamsOK
  <1>7. StreamsOK'
    BY <1>1, <1>4, <1>5, <1>6, ExchangedOK
  <1> QED
    BY <1>7, IdleKeeps DEF WriteStream, StreamsInv

LEMMA FlushKeeps ==
  ASSUME StreamsInv, NEW x \in {"from", "to"}, FlushStream(x)
  PROVE  StreamsInv'
  <1>1. PICK st \in Flushed(stm[x]) : stm' = [stm EXCEPT ![x] = st]
    BY DEF FlushStream
  <1>2. StreamsOK /\ StreamOK(stm[x])
    BY DEF StreamsInv, StreamsOK
  <1>3. StreamOK(st) /\ st.kind = stm[x].kind /\ st.bytes = stm[x].bytes /\ (stm[x].broken => st.broken)
    BY <1>2, FlushedOK
  <1>4. x = "to" /\ ~stm["from"].broken => Clean(st.bytes)
    BY <1>2, <1>3 DEF StreamsOK
  <1>5. StreamsOK'
    BY <1>1, <1>2, <1>3, <1>4, ExchangedOK
  <1> QED
    BY <1>5, IdleKeeps DEF FlushStream, StreamsInv

LEMMA RestoreKeeps ==
  ASSUME StreamsInv, NEW x \in {"from", "to"}, Restore(x)
  PROVE  StreamsInv'
  <1> DEFINE old == stm[x]
             last == Len(old.got)
             back == IF Room(old.back) < 1 THEN GrownBuffer(old.back, 1, 1) ELSE old.back
             st == [old EXCEPT !.back = Buffered(back, <<old.got[last]>>),
                               !.got = SubSeq(@, 1, last - 1), !.one = FALSE]
  <1>1. stm' = [stm EXCEPT ![x] = st]
    BY DEF Restore
  <1>2. StreamsOK /\ StreamOK(old) /\ old.one
    BY DEF StreamsInv, StreamsOK, Restore
  <1>3. StreamOK(st) /\ st.kind = old.kind /\ st.bytes = old.bytes /\ st.broken = old.broken
    <2> HIDE DEF old
    <2> QED
      BY <1>2, RestoredOK
  <1> HIDE DEF st
  <1>4. x = "to" /\ ~stm["from"].broken => Clean(st.bytes)
    BY <1>2, <1>3 DEF StreamsOK
  <1>5. StreamsOK'
    BY <1>1, <1>2, <1>3, <1>4, ExchangedOK
  <1> QED
    BY <1>5, IdleKeeps DEF Restore, StreamsInv

LEMMA ReadKeeps ==
  ASSUME StreamsInv, NEW x \in {"from", "to"}, NEW n \in Nat \ {0}, ReadStream(x, n)
  PROVE  StreamsInv'
  <1> DEFINE call == [at |-> "read", of |-> x, size |-> n, data |-> <<>>, rest |-> 0]
  <1>1. /\ call \in Call /\ call.at = "read" /\ call.data = <<>> /\ call.size > 0 /\ call.of = x
    BY EmptySeq DEF Call
  <1>2. BeginRead(call) /\ stm[x].kind # "to_file" /\ StreamsOK
    BY DEF ReadStream, StreamsInv
  <1> HIDE DEF call
  <1> QED
    BY <1>1, <1>2, BeginKeeps

\* A piece of a pipe.
LEMMA PieceKeeps ==
  ASSUME StreamsInv, NEW n \in Nat \ {0}, PipePiece(n),
         ~stm["from"].broken => n <= Len(Left(stm["from"]))
  PROVE  StreamsInv'
  <1> DEFINE piece == Lesser(n, PipeCache)
             call == [at |-> "pipe", of |-> "from", size |-> piece, data |-> <<>>, rest |-> n - piece]
  <1>1. piece \in Nat /\ piece > 0 /\ n - piece \in Nat /\ piece + (n - piece) = n
    <2>1. n \in Nat /\ PipeCache \in Nat /\ n > 0 /\ PipeCache > 0
      BY StreamAssumption
    <2>2. piece <= n /\ (piece = n \/ piece = PipeCache)
      BY <2>1, LesserIs
    <2> HIDE DEF piece
    <2> QED
      BY <2>1, <2>2
  <1>2. BeginRead(call)
    BY DEF PipePiece
  <1> HIDE DEF piece
  <1>3. /\ call \in Call /\ call.at = "pipe" /\ call.data = <<>> /\ call.size = piece
        /\ call.of = "from" /\ call.rest = n - piece
    BY <1>1, EmptySeq DEF Call
  <1> HIDE DEF call
  <1>4. StreamsOK /\ stm[call.of].kind # "to_file" /\ call.size > 0
        /\ (~stm["from"].broken => call.size + call.rest <= Len(Left(stm["from"])))
    BY <1>1, <1>3 DEF StreamsInv, StreamsOK
  <1> QED
    BY <1>2, <1>3, <1>4, BeginKeeps

LEMMA BeginPipeKeeps ==
  ASSUME StreamsInv, NEW n \in Nat \ {0}, BeginPipe(n)
  PROVE  StreamsInv'
  <1> DEFINE st == stm["from"]
  <1>1. StreamOK(st) /\ st \in StreamType /\ st.kind # "to_file" /\ BufferOK(st.buf) /\ BufferOK(st.back)
    BY DEF StreamsInv, StreamsOK, StreamOK
  <1>2. n <= Len(st.bytes) - Len(st.got) /\ PipePiece(n)
    BY DEF BeginPipe
  <1> HIDE DEF st
  <1>3. ASSUME ~st.broken PROVE n <= Len(Left(st))
    <2>1. st.bytes = Cat(st.got, Left(st))
      BY <1>1, <1>3 DEF StreamOK, Passed
    <2>2. st.got \in Seq(Nat) /\ Left(st) \in Seq(Nat)
      BY <1>1, LeftIs DEF StreamType
    <2>3. Len(st.bytes) = Len(st.got) + Len(Left(st)) /\ Len(st.got) \in Nat /\ Len(Left(st)) \in Nat
      BY <2>1, <2>2, CatSeq, LenProperties
    <2> QED
      BY <1>2, <2>3
  <1> QED
    BY <1>2, <1>3, PieceKeeps DEF st

LEMMA NextPieceKeeps ==
  ASSUME StreamsInv, NextPiece
  PROVE  StreamsInv'
  <1>1. reading.rest \in Nat \ {0} /\ PipePiece(reading.rest)
    BY DEF NextPiece, StreamsInv, ReadingOK, Call
  <1>2. ~stm["from"].broken => reading.rest <= Len(Left(stm["from"]))
    BY DEF NextPiece, StreamsInv, PipeOK
  <1> QED
    BY <1>1, <1>2, PieceKeeps

LEMMA WritePieceKeeps ==
  ASSUME StreamsInv, WritePiece
  PROVE  StreamsInv'
  <1> DEFINE short == reading.size - Len(reading.data)
             pad == [k \in 1..short |-> Garbage]
             s == Cat(reading.data, pad)
  <1>1. /\ reading \in Call /\ reading.at = "write" /\ reading.data \in Seq(Nat)
        /\ reading.size \in Nat /\ reading.rest \in Nat /\ Len(reading.data) \in Nat
        /\ short \in Nat
    <2>1. /\ reading \in Call /\ reading.at = "write" /\ reading.data \in Seq(Nat)
          /\ reading.size \in Nat /\ reading.rest \in Nat /\ Len(reading.data) <= reading.size
      BY DEF WritePiece, StreamsInv, ReadingOK, Call
    <2>2. Len(reading.data) \in Nat
      BY <2>1, LenProperties
    <2> QED
      BY <2>1, <2>2
  <1>2. pad \in Seq(Nat) /\ Len(pad) = short
    <2> HIDE DEF short
    <2>1. pad \in [1..short -> Nat]
      BY DEF Garbage
    <2> QED
      BY <1>1, <2>1, CellsSeq
  <1>3. s \in Seq(Nat)
    BY <1>1, <1>2, CatSeq
  <1>4. PICK st \in WrittenTo(stm["to"], s) : stm' = [stm EXCEPT !["to"] = st]
    BY DEF WritePiece, Cat
  <1>5. ASSUME ~stm["from"].broken PROVE Clean(s)
    <2>1. Len(reading.data) = reading.size /\ Clean(reading.data)
      BY <1>1, <1>5 DEF StreamsInv, PipeOK
    <2>2. Len(pad) = 0
      BY <1>1, <1>2, <2>1
    <2> HIDE DEF pad
    <2>3. Clean(pad)
      BY <2>2 DEF Clean
    <2> QED
      BY <1>1, <1>2, <2>1, <2>3, CleanCat
  <1> HIDE DEF s
  <1>6. /\ StreamsOK /\ StreamOK(stm["to"]) /\ stm["to"].kind \in {"memory", "to_file"}
        /\ stm["to"].bytes \in Seq(Nat)
    BY DEF StreamsInv, StreamsOK, StreamOK, StreamType
  <1>7. /\ StreamOK(st) /\ st.kind = stm["to"].kind
        /\ stm["to"].broken => st = stm["to"]
        /\ ~stm["to"].broken => st.bytes = Cat(stm["to"].bytes, s)
    BY <1>3, <1>6, WrittenOK
  <1>8. ~stm["from"].broken => Clean(st.bytes)
    BY <1>3, <1>5, <1>6, <1>7, CleanCat DEF StreamsOK
  <1>9. StreamsOK' /\ stm'["from"] = stm["from"]
    BY <1>4, <1>6, <1>7, <1>8, ExchangedOK
  <1>10. CASE reading.rest = 0
    <2>1. reading' \in Call /\ reading'.at = "idle"
      BY <1>10, EmptySeq DEF WritePiece, NoRead, Call
    <2> QED
      BY <1>9, <2>1 DEF StreamsInv, ReadingOK, PipeOK
  <1>11. CASE reading.rest # 0
    <2>1. reading' = [NoRead EXCEPT !.at = "piece", !.rest = reading.rest]
      BY <1>11 DEF WritePiece
    <2>2. reading' \in Call /\ reading'.at = "piece" /\ reading'.rest = reading.rest
      BY <1>1, <2>1, EmptySeq DEF NoRead, Call
    <2>3. reading'.rest > 0
      BY <1>1, <1>11, <2>2
    <2>4. ReadingOK'
      BY <2>2, <2>3 DEF ReadingOK
    <2>5. PipeOK'
      BY <1>1, <1>9, <2>2 DEF StreamsInv, PipeOK
    <2> QED
      BY <1>9, <2>4, <2>5 DEF StreamsInv
  <1> QED
    BY <1>10, <1>11

-----------------------------------------------------------------------------
(* The theorem.                                                            *)

LEMMA StepInv == StreamsInv /\ [StreamsNext]_stream_vars => StreamsInv'
  <1> SUFFICES ASSUME StreamsInv, [StreamsNext]_stream_vars PROVE StreamsInv'
    OBVIOUS
  <1>1. MaxTransfer \in Nat /\ MaxBytes \in Nat
    BY StreamAssumption
  <1>2. ASSUME NEW x \in {"from", "to"}, NEW n \in 1..MaxTransfer, WriteStream(x, n) PROVE StreamsInv'
    BY <1>1, <1>2, WriteKeeps
  <1>3. ASSUME NEW x \in {"from", "to"}, NEW n \in 1..MaxTransfer, ReadStream(x, n) PROVE StreamsInv'
    BY <1>1, <1>3, ReadKeeps
  <1>4. ASSUME NEW x \in {"from", "to"}, FlushStream(x) PROVE StreamsInv'
    BY <1>4, FlushKeeps
  <1>5. ASSUME NEW x \in {"from", "to"}, Restore(x) PROVE StreamsInv'
    BY <1>5, RestoreKeeps
  <1>6. ASSUME NEW n \in 1..MaxBytes, BeginPipe(n) PROVE StreamsInv'
    BY <1>1, <1>6, BeginPipeKeeps
  <1>7. CASE Turn
    BY <1>7, TurnKeeps
  <1>8. CASE NextPiece
    BY <1>8, NextPieceKeeps
  <1>9. CASE WritePiece
    BY <1>9, WritePieceKeeps
  <1>10. CASE UNCHANGED stream_vars
    BY <1>10 DEF stream_vars, StreamsInv, StreamsOK, ReadingOK, PipeOK
  <1> QED
    BY <1>2, <1>3, <1>4, <1>5, <1>6, <1>7, <1>8, <1>9, <1>10 DEF StreamsNext

LEMMA InvIsQueue == StreamsInv => StreamIsQueue
  <1> SUFFICES ASSUME StreamsInv PROVE StreamIsQueue
    OBVIOUS
  <1>1. DOMAIN stm = {"from", "to"}
    BY DEF StreamsInv, StreamsOK
  <1>2. ASSUME NEW x \in {"from", "to"}
        PROVE  LET st == stm[x]
               IN  /\ st.buf.r <= st.buf.w /\ st.buf.w <= Len(st.buf.cells)
                   /\ ~st.broken =>
                         /\ st.bytes = Passed(st) \o Left(st)
                         /\ st.end => Left(st) = <<>>
    <2>1. StreamOK(stm[x])
      BY DEF StreamsInv, StreamsOK
    <2>2. stm[x].buf.r <= stm[x].buf.w /\ stm[x].buf.w <= Len(stm[x].buf.cells)
      BY <2>1 DEF StreamOK, BufferOK
    <2>3. ~stm[x].broken => stm[x].bytes = Passed(stm[x]) \o Left(stm[x])
      BY <2>1, Zenon DEF StreamOK, Cat
    <2>4. ~stm[x].broken => (stm[x].end => Left(stm[x]) = <<>>)
      BY <2>1, Zenon DEF StreamOK
    <2> QED
      BY <2>2, <2>3, <2>4
  <1>3. (\E k \in DOMAIN stm["to"].bytes : stm["to"].bytes[k] = Garbage) => stm["from"].broken
    <2>1. stm["to"].bytes \in Seq(Nat) /\ (~stm["from"].broken => Clean(stm["to"].bytes))
      BY DEF StreamsInv, StreamsOK, StreamType
    <2>2. DOMAIN stm["to"].bytes = 1..Len(stm["to"].bytes)
      BY <2>1, LenProperties
    <2> QED
      BY <2>1, <2>2 DEF Clean
  <1> QED
    BY <1>1, <1>2, <1>3, Zenon DEF StreamIsQueue

\* However writes, reads, characters put back and pipes alternate and however the system
\* cuts them, for any sizes of caches, files and calls, a stream that is not broken gives
\* its bytes once and in order.
THEOREM StreamsAreQueues == StreamsSpec => []StreamIsQueue
  <1>1. StreamsInit => StreamsInv
    BY InitInv
  <1>2. StreamsInv /\ [StreamsNext]_stream_vars => StreamsInv'
    BY StepInv
  <1>3. StreamsInv => StreamIsQueue
    BY InvIsQueue
  <1> QED
    BY <1>1, <1>2, <1>3, PTL DEF StreamsSpec

===============================================================================
