------------------------------ MODULE HeapProofs ------------------------------
(***************************************************************************)
(* Proofs about Heap for any number of threads, blocks and pages, any size *)
(* of a page and any sizes of blocks: with heap_start_mt before threads    *)
(* are created, or with one thread only, which needs no mutex.             *)
(***************************************************************************)
EXTENDS Heap, FiniteSetTheorems, TLAPS

-----------------------------------------------------------------------------
(* The types of the heap.                                                  *)

\* mtcount counts the calls of heap_start_mt, one at most.
MtInv == mtcount = IF threads /\ CallsStartMt THEN 1 ELSE 0

LEMMA Blanks == NoBlock \in BlockRecord /\ NoCall \in Call /\ FreshPage \in PageRecord
<1>1. NoBlock \in BlockRecord
  BY DEF NoBlock, BlockRecord, NoPage
<1>2. NoCall \in Call
  BY <1>1 DEF NoCall, Call, BlockRecord, NoId
<1>3. FreshPage \in PageRecord
  BY HeapAssumption DEF FreshPage, PageRecord
<1> QED BY <1>1, <1>2, <1>3

LEMMA PlacedCall ==
  ASSUME NEW c \in Call, NEW a \in Nat
  PROVE  [c EXCEPT !.at = a] \in Call
BY DEF Call

LEMMA InitTypes == HeapInit => HeapTypeOK /\ MtInv
<1> SUFFICES ASSUME HeapInit PROVE HeapTypeOK /\ MtInv
  OBVIOUS
<1>1. page \in [Page -> PageRecord] /\ block \in [Block -> BlockRecord] /\ call \in [Thread -> Call]
  BY Blanks DEF HeapInit
<1>2. pages \subseteq Page /\ current_page \in pages
  BY HeapAssumption DEF HeapInit, Page
<1>3. threads \in BOOLEAN
  BY Zenon DEF HeapInit
<1> QED BY <1>1, <1>2, <1>3 DEF HeapInit, HeapTypeOK, MtInv, Nobody

LEMMA NextTypes == HeapTypeOK /\ MtInv /\ [HeapNext]_heap_vars => HeapTypeOK' /\ MtInv'
<1> SUFFICES ASSUME HeapTypeOK, MtInv, [HeapNext]_heap_vars PROVE HeapTypeOK' /\ MtInv'
  OBVIOUS
<1> USE HeapAssumption DEF HeapTypeOK, MtInv
<1>c. ASSUME NEW t \in Thread, NEW c \in Call, call' = [call EXCEPT ![t] = c]
      PROVE  call' \in [Thread -> Call]
  BY <1>c
<1>1. CASE StartThreads
  <2>1. threads' \in BOOLEAN
    BY <1>1, Zenon DEF StartThreads
  <2> QED BY <1>1, <2>1 DEF StartThreads
<1>2. CASE JoinThreads
  <2>1. threads' \in BOOLEAN
    BY <1>2, Zenon DEF JoinThreads
  <2> QED BY <1>2, <2>1 DEF JoinThreads
<1>3. ASSUME NEW t \in Thread, NEW b \in Block, NEW s \in Sizes, Malloc(t, b, s)
      PROVE  HeapTypeOK' /\ MtInv'
  <2>1. [NoCall EXCEPT !.op = "malloc", !.size = s, !.id = b] \in Call
    BY Blanks DEF Call
  <2>2. call' \in [Thread -> Call]
    BY <1>3, <1>c, <2>1 DEF Malloc
  <2> QED BY <1>3, <2>2 DEF Malloc, Takes, Lock
<1>4. ASSUME NEW t \in Thread, NEW b \in Block, NEW s \in Sizes, Realloc(t, b, s)
      PROVE  HeapTypeOK' /\ MtInv'
  <2>1. block' \in [Block -> BlockRecord]
    <3>1. [block[b] EXCEPT !.size = s] \in BlockRecord
      BY DEF BlockRecord
    <3> QED BY <1>4, <3>1 DEF Realloc
  <2>2. call' \in [Thread -> Call]
    <3>1. [NoCall EXCEPT !.op = "realloc", !.size = s, !.id = b, !.old = block[b]] \in Call
      BY Blanks DEF Call
    <3> QED BY <1>4, <1>c, <3>1 DEF Realloc
  <2> QED BY <1>4, <2>1, <2>2 DEF Realloc, LockIfMt, Lock, Takes
<1>5. ASSUME NEW t \in Thread, NEW b \in Block, Free(t, b)
      PROVE  HeapTypeOK' /\ MtInv'
  <2>1. block' \in [Block -> BlockRecord]
    BY <1>5, Blanks DEF Free
  <2>2. call' \in [Thread -> Call]
    <3>1. [NoCall EXCEPT !.op = "free", !.old = block[b]] \in Call
      BY Blanks DEF Call
    <3> QED BY <1>5, <1>c, <3>1 DEF Free
  <2> QED BY <1>5, <2>1, <2>2 DEF Free, LockIfMt, Lock, Takes
<1>6. ASSUME NEW t \in Thread, Place(t)
      PROVE  HeapTypeOK' /\ MtInv'
  <2>1. call' \in [Thread -> Call]
    <3>1. page[current_page].offset \in Nat
      BY DEF PageRecord
    <3>2. \A a \in Nat : [call[t] EXCEPT !.at = a] \in Call
      BY PlacedCall
    <3>3. \E a \in Nat : call' = [call EXCEPT ![t].at = a]
      BY <1>6, <3>1 DEF Place
    <3> QED BY <3>2, <3>3
  <2>2. page' \in [Page -> PageRecord]
    BY <1>6, Blanks DEF Place
  <2>3. pages' \subseteq Page /\ current_page' \in pages'
    BY <1>6 DEF Place
  <2> QED BY <1>6, <2>1, <2>2, <2>3 DEF Place, Takes
<1>7. ASSUME NEW t \in Thread, Put(t)
      PROVE  HeapTypeOK' /\ MtInv'
  <2>1. call' \in [Thread -> Call]
    BY <1>7, Blanks DEF Put
  <2>2. call[t].size \in Nat /\ call[t].at \in Nat /\ current_page \in Page
    BY DEF Call, BlockRecord
  <2>3. page' \in [Page -> PageRecord]
    BY <1>7, <2>2 DEF Put, PageRecord
  <2>4. block' \in [Block -> BlockRecord]
    BY <1>7, <2>2 DEF Put, BlockRecord, NoBlock, NoPage
  <2>5. mutex' \in Thread \cup {Nobody}
    BY <1>7 DEF Put, Unlock
  <2> QED BY <1>7, <2>1, <2>3, <2>4, <2>5 DEF Put, Takes
<1>8. ASSUME NEW t \in Thread, Drop(t)
      PROVE  HeapTypeOK' /\ MtInv'
  <2>1. call[t].old.size \in Nat
    BY DEF Call, BlockRecord
  <2>2. page' \in [Page -> PageRecord]
    <3>1. CASE page' = page
      BY <3>1
    <3>2. CASE page' # page
      <4> DEFINE p == call[t].old.page
      <4>1. page' = [page EXCEPT ![p].allocs = page[p].allocs - 1,
                                 ![p].used = page[p].used - call[t].old.size]
        BY <1>8, <3>2 DEF Drop
      <4>2. CASE p \in Page
        BY <4>1, <4>2, <2>1 DEF PageRecord
      <4>3. CASE p \notin Page
        BY <4>1, <4>3
      <4> QED BY <4>2, <4>3
    <3> QED BY <3>1, <3>2
  <2> QED BY <1>8, <2>2 DEF Drop, Takes
<1>9. ASSUME NEW t \in Thread, Destroy(t)
      PROVE  HeapTypeOK' /\ MtInv'
  <2>1. page' \in [Page -> PageRecord]
    BY <1>9, Blanks DEF Destroy
  <2> QED BY <1>9, <2>1 DEF Destroy, Takes
<1>10. ASSUME NEW t \in Thread, Stats(t)
       PROVE  HeapTypeOK' /\ MtInv'
  <2>1. call[t].old.size \in Nat /\ call[t].size \in Nat
    BY DEF Call, BlockRecord
  <2>2. call' \in [Thread -> Call]
    BY <1>10, Blanks DEF Stats
  <2> QED BY <1>10, <2>1, <2>2 DEF Stats, Unlock, Takes
<1>11. CASE UNCHANGED heap_vars
  BY <1>11 DEF heap_vars, Call
<1> QED
  BY <1>1, <1>2, <1>3, <1>4, <1>5, <1>6, <1>7, <1>8, <1>9, <1>10, <1>11 DEF HeapNext

\* The types of the heap are kept, whether heap_start_mt is called or not.
THEOREM TypeCorrect == HeapSpec => [](HeapTypeOK /\ MtInv)
BY InitTypes, NextTypes, PTL DEF HeapSpec

-----------------------------------------------------------------------------
(* What changing one block does to the words of all blocks.                *)

WordsIn(f, b) == {b} \X (1..f[b].size)
WordsOf(f)    == UNION {WordsIn(f, b) : b \in Block}

LEMMA RowCount ==
  ASSUME NEW b, NEW n \in Nat
  PROVE  IsFiniteSet({b} \X (1..n)) /\ Cardinality({b} \X (1..n)) = n
<1>1. IsFiniteSet(1..n)
  BY FS_Interval
<1>2. Cardinality(1..n) = n
  <2>1. Cardinality(1..n) = IF 1 > n THEN 0 ELSE n - 1 + 1
    BY FS_Interval
  <2> QED BY <2>1
<1>3. IsFiniteSet({b}) /\ Cardinality({b}) = 1
  BY FS_Singleton
<1>4. IsFiniteSet({b} \X (1..n))
  BY <1>1, <1>3, FS_Product
<1>5. Cardinality({b} \X (1..n)) = Cardinality({b}) * Cardinality(1..n)
  BY <1>1, <1>3, FS_Product
<1> QED BY <1>2, <1>3, <1>4, <1>5

LEMMA WordsCount ==
  ASSUME NEW f, NEW b, f[b].size \in Nat
  PROVE  IsFiniteSet(WordsIn(f, b)) /\ Cardinality(WordsIn(f, b)) = f[b].size
BY RowCount DEF WordsIn

\* The cardinality of two sets without a common element.
LEMMA DisjointUnion ==
  ASSUME NEW S, NEW T, IsFiniteSet(S), IsFiniteSet(T), S \cap T = {}
  PROVE  /\ IsFiniteSet(S \cup T)
         /\ Cardinality(S \cup T) = Cardinality(S) + Cardinality(T)
<1>1. Cardinality(S \cup T) = Cardinality(S) + Cardinality(T) - Cardinality(S \cap T)
  BY FS_Union
<1>2. Cardinality(S \cap T) = 0
  BY FS_EmptySet
<1>3. Cardinality(S) \in Nat /\ Cardinality(T) \in Nat
  BY FS_CardinalityType
<1> QED BY <1>1, <1>2, <1>3, FS_Union

LEMMA WordsChange ==
  ASSUME NEW f, NEW g, NEW b \in Block, IsFiniteSet(WordsOf(f)),
         f[b].size \in Nat, g[b].size \in Nat,
         \A c \in Block : c # b => f[c].size = g[c].size
  PROVE  /\ IsFiniteSet(WordsOf(g))
         /\ Cardinality(WordsOf(g)) = Cardinality(WordsOf(f)) - f[b].size + g[b].size
<1> DEFINE A == WordsOf(f) \ WordsIn(f, b)
<1>1. \A c \in Block : c # b => WordsIn(f, c) = WordsIn(g, c)
  BY DEF WordsIn
<1>2. \A c \in Block : c # b => WordsIn(f, c) \cap WordsIn(f, b) = {} /\ WordsIn(f, c) \cap WordsIn(g, b) = {}
  BY DEF WordsIn
<1>3. A = UNION {WordsIn(f, c) : c \in Block \ {b}}
  BY <1>2 DEF WordsOf
<1>4. WordsOf(f) = A \cup WordsIn(f, b) /\ A \cap WordsIn(f, b) = {}
  BY DEF WordsOf
<1>5. WordsOf(g) = A \cup WordsIn(g, b) /\ A \cap WordsIn(g, b) = {}
  BY <1>1, <1>2, <1>3 DEF WordsOf
<1>6. IsFiniteSet(A)
  BY FS_Subset
<1>7. Cardinality(WordsOf(f)) = Cardinality(A) + f[b].size
  <2>1. IsFiniteSet(WordsIn(f, b)) /\ Cardinality(WordsIn(f, b)) = f[b].size
    BY WordsCount
  <2>2. Cardinality(A \cup WordsIn(f, b)) = Cardinality(A) + Cardinality(WordsIn(f, b))
    BY <1>4, <1>6, <2>1, DisjointUnion
  <2> QED BY <1>4, <2>1, <2>2
<1>8. IsFiniteSet(WordsOf(g)) /\ Cardinality(WordsOf(g)) = Cardinality(A) + g[b].size
  <2>1. IsFiniteSet(WordsIn(g, b)) /\ Cardinality(WordsIn(g, b)) = g[b].size
    BY WordsCount
  <2>2. /\ IsFiniteSet(A \cup WordsIn(g, b))
        /\ Cardinality(A \cup WordsIn(g, b)) = Cardinality(A) + Cardinality(WordsIn(g, b))
    BY <1>5, <1>6, <2>1, DisjointUnion
  <2> QED BY <1>5, <2>1, <2>2
<1> QED
  BY <1>6, <1>7, <1>8, FS_CardinalityType

LEMMA WordsFollow ==
  ASSUME HeapTypeOK, NEW b \in Block, IsFiniteSet(Words), block'[b].size \in Nat,
         \A c \in Block : c # b => block'[c] = block[c]
  PROVE  /\ IsFiniteSet(Words') /\ Cardinality(Words) \in Nat
         /\ Cardinality(Words') = Cardinality(Words) - block[b].size + block'[b].size
<1>1. Words = WordsOf(block) /\ Words' = WordsOf(block')
  BY DEF Words, WordsOf, WordsIn
<1>2. block[b].size \in Nat
  BY DEF HeapTypeOK, BlockRecord
<1>3. \A c \in Block : c # b => block[c].size = block'[c].size
  OBVIOUS
<1>4. /\ IsFiniteSet(WordsOf(block'))
      /\ Cardinality(WordsOf(block')) = Cardinality(WordsOf(block)) - block[b].size + block'[b].size
  BY <1>1, <1>2, <1>3, WordsChange
<1> QED BY <1>1, <1>4, FS_CardinalityType

-----------------------------------------------------------------------------
(* The inductive invariant, as a conjunction of named parts.               *)

\* Several threads can call the heap.
Many == threads /\ NThreads > 1

\* A thread in a call is the only one: it holds the mutex or is alone.
AloneInv ==
    /\ Many => mtcount > 0
    /\ ~Many => \A t \in Thread : t # 1 => hpc[t] = "idle"
    /\ Many => \A t \in Thread : hpc[t] # "idle" => mutex = t
    /\ \A t \in Thread : mutex = t => hpc[t] # "idle"

Solo(t) == \A u \in Thread : u # t => hpc[u] = "idle"

\* What a call knows of its block and of its page.
CallKnown(t) ==
    /\ hpc[t] = "idle" => call[t] = NoCall
    /\ hpc[t] \in {"place", "put"} =>
          /\ call[t].id \in Block /\ call[t].size > 0
          /\ \/ call[t].op = "malloc" /\ block[call[t].id].size = 0
             \/ call[t].op = "realloc" /\ block[call[t].id] = call[t].old /\ call[t].old.size > 0
    /\ hpc[t] = "put" /\ IsPaged(call[t].size) =>
          call[t].at = page[current_page].offset /\ call[t].at + call[t].size < PageSize
    /\ hpc[t] = "drop" =>
          call[t].old.size > 0 /\ (IsPaged(call[t].old.size) => call[t].old.page \in pages)
    /\ hpc[t] = "destroy" => /\ call[t].old.page \in pages
                             /\ page[call[t].old.page].allocs = 0
CallsKnown == \A t \in Thread : CallKnown(t)

\* A paged block lies in a page of the heap, below the place of the next one.
BlockKnown(b) ==
    /\ block[b].page # NoPage =>
          /\ block[b].page \in pages
          /\ block[b].offset >= Header
          /\ block[b].offset + block[b].size < PageSize
          /\ block[b].offset + block[b].size < page[block[b].page].offset
    /\ block[b].page # NoPage <=> block[b].size > 0 /\ IsPaged(block[b].size)
BlockInv ==
    /\ \A b \in Block : BlockKnown(b)
    /\ \A b, c \in Block : b # c /\ block[b].page # NoPage => Disjoint(b, c)

\* A page counts its blocks, and the one the call of t has still to take off.
Live(p)        == {b \in Block : block[b].page = p}
Drops(t, p)    == hpc[t] = "drop" /\ IsPaged(call[t].old.size) /\ call[t].old.page = p
Destroys(t, p) == hpc[t] = "destroy" /\ call[t].old.page = p
PageKnown(t, p) ==
    /\ page[p].offset >= Header
    /\ page[p].allocs = Cardinality(Live(p)) + (IF Drops(t, p) THEN 1 ELSE 0)
    /\ page[p].allocs = 0 /\ ~Destroys(t, p) => p = current_page /\ page[p] = FreshPage
PageInv == \A t \in Thread : Solo(t) => \A p \in pages : PageKnown(t, p)

\* bytes_allocated is the size of all blocks, but for what the call of t has still to
\* add or to take off.
Owed(t) == CASE hpc[t] = "idle" -> 0
             [] hpc[t] \in {"place", "put"} -> IF call[t].op = "malloc" THEN call[t].size ELSE 0
             [] OTHER -> call[t].old.size - call[t].size
BytesInv ==
    /\ IsFiniteSet(Words)
    /\ \A t \in Thread : Solo(t) => bytes = Cardinality(Words) + Owed(t)

HeapInv == AloneInv /\ CallsKnown /\ BlockInv /\ PageInv /\ BytesInv

-----------------------------------------------------------------------------
(* One call at a time.                                                     *)

LEMMA SoloHolds ==
  ASSUME AloneInv, NEW t \in Thread, hpc[t] # "idle"
  PROVE  Solo(t)
BY DEF AloneInv, Solo, Thread

LEMMA SoloStarts ==
  ASSUME AloneInv, NEW t \in Thread, Runs(t), Lock(t) \/ LockIfMt(t)
  PROVE  Solo(t) /\ (Many => mutex' = t) /\ mutex' \in {mutex, t}
<1>1. Many => mutex = Nobody /\ mutex' = t
  BY DEF AloneInv, LockIfMt, Lock
<1>2. mutex' \in {mutex, t}
  BY DEF LockIfMt, Lock
<1>3. Solo(t)
  BY <1>1, HeapAssumption DEF AloneInv, Solo, Thread, Runs, Nobody, Many
<1> QED BY <1>1, <1>2, <1>3

\* What is known of the thread in the call is known of all threads.
LEMMA CallsFollow ==
  ASSUME CallsKnown, NEW t \in Thread, Solo(t)', CallKnown(t)',
         \A u \in Thread : u # t => hpc'[u] = hpc[u] /\ call'[u] = call[u]
  PROVE  CallsKnown'
<1> SUFFICES ASSUME NEW u \in Thread, u # t PROVE CallKnown(u)'
  BY DEF CallsKnown
<1>1. hpc'[u] = "idle" /\ hpc[u] = "idle"
  BY DEF Solo
<1>2. call'[u] = NoCall
  BY <1>1 DEF CallsKnown, CallKnown
<1> QED BY <1>1, <1>2 DEF CallKnown

LEMMA PagesFollow ==
  ASSUME NEW t \in Thread, Solo(t)', \A p \in pages' : PageKnown(t, p)'
  PROVE  PageInv'
<1> SUFFICES ASSUME NEW u \in Thread, Solo(u)', NEW p \in pages' PROVE PageKnown(u, p)'
  BY DEF PageInv
<1>1. CASE u = t
  BY <1>1
<1>2. CASE u # t
  <2>1. hpc'[u] = "idle" /\ hpc'[t] = "idle"
    BY <1>2 DEF Solo
  <2>2. ~Drops(u, p)' /\ ~Drops(t, p)' /\ ~Destroys(u, p)' /\ ~Destroys(t, p)'
    BY <2>1 DEF Drops, Destroys
  <2> QED BY <2>2 DEF PageKnown
<1> QED BY <1>1, <1>2

LEMMA BytesFollow ==
  ASSUME NEW t \in Thread, Solo(t)', IsFiniteSet(Words)', bytes' = Cardinality(Words') + Owed(t)'
  PROVE  BytesInv'
<1> SUFFICES ASSUME NEW u \in Thread, Solo(u)' PROVE bytes' = Cardinality(Words') + Owed(u)'
  BY DEF BytesInv
<1>1. CASE u = t
  BY <1>1
<1>2. CASE u # t
  <2>1. hpc'[u] = "idle" /\ hpc'[t] = "idle"
    BY <1>2 DEF Solo
  <2> QED BY <2>1 DEF Owed
<1> QED BY <1>1, <1>2

LEMMA LivePages ==
  ASSUME HeapTypeOK, HeapAssumption
  PROVE  \A p \in Page : IsFiniteSet(Live(p)) /\ Cardinality(Live(p)) \in Nat
<1>1. IsFiniteSet(Block)
  BY HeapAssumption, FS_Interval DEF Block
<1> QED BY <1>1, FS_Subset, FS_CardinalityType DEF Live

-----------------------------------------------------------------------------
(* Every step keeps the invariant.                                         *)

LEMMA MallocKeeps ==
  ASSUME HeapTypeOK, HeapInv, NEW t \in Thread, NEW b \in Block, NEW s \in Sizes, Malloc(t, b, s)
  PROVE  HeapInv'
<1> USE HeapAssumption
<1>1. Solo(t) /\ (Many => mutex' = t) /\ mutex' = t
  BY SoloStarts DEF Malloc, HeapInv, Lock
<1>2. /\ hpc[t] = "idle" /\ hpc'[t] = "place"
      /\ \A u \in Thread : u # t => hpc'[u] = hpc[u] /\ call'[u] = call[u]
      /\ call'[t].op = "malloc" /\ call'[t].size = s /\ call'[t].id = b
      /\ bytes' = bytes + s
      /\ UNCHANGED <<pages, current_page, page, block, mtcount, threads>>
  BY DEF Malloc, Takes, HeapTypeOK, NoCall
<1>3. Solo(t)'
  BY <1>1, <1>2 DEF Solo
<1>4. AloneInv'
  BY <1>1, <1>2, <1>3 DEF AloneInv, Many, HeapInv, Solo, Malloc, Runs, Thread
<1>5. block[b].size = 0 /\ s > 0
  BY DEF Malloc, InUse, Held, HeapTypeOK, BlockRecord
<1>6. CallKnown(t)'
  BY <1>2, <1>5 DEF CallKnown
<1>7. CallsKnown'
  BY <1>2, <1>3, <1>6, CallsFollow DEF HeapInv
<1>8. BlockInv'
  BY <1>2 DEF HeapInv, BlockInv, BlockKnown, Disjoint
<1>9. ASSUME NEW p \in pages' PROVE PageKnown(t, p)'
  <2>1. PageKnown(t, p)
    BY <1>1, <1>2, <1>9 DEF HeapInv, PageInv
  <2>2. Live(p)' = Live(p) /\ ~Drops(t, p) /\ ~Drops(t, p)' /\ ~Destroys(t, p)
    BY <1>2 DEF Live, Drops, Destroys
  <2> QED BY <1>2, <2>1, <2>2 DEF PageKnown
<1>10. PageInv'
  BY <1>3, <1>9, PagesFollow
<1>11. BytesInv'
  <2>1. Words' = Words /\ Owed(t) = 0 /\ Owed(t)' = s
    BY <1>2 DEF Words, Owed
  <2>2. IsFiniteSet(Words) /\ bytes = Cardinality(Words)
    BY <1>1, <2>1, FS_CardinalityType DEF HeapInv, BytesInv
  <2> QED BY <1>2, <1>3, <2>1, <2>2, BytesFollow
<1> QED
  BY <1>4, <1>7, <1>8, <1>10, <1>11 DEF HeapInv

LEMMA FreeKeeps ==
  ASSUME HeapTypeOK, HeapInv, NEW t \in Thread, NEW b \in Block, Free(t, b)
  PROVE  HeapInv'
<1> USE HeapAssumption
<1> DEFINE old == block[b]
<1>1. Solo(t) /\ (Many => mutex' = t) /\ mutex' \in {mutex, t}
  BY SoloStarts DEF Free, HeapInv
<1>2. /\ hpc[t] = "idle" /\ hpc'[t] = "drop"
      /\ \A u \in Thread : u # t => hpc'[u] = hpc[u] /\ call'[u] = call[u]
      /\ call'[t].old = old /\ call'[t].size = 0
      /\ block'[b] = NoBlock /\ \A c \in Block : c # b => block'[c] = block[c]
      /\ UNCHANGED <<pages, current_page, page, bytes, mtcount, threads>>
  BY DEF Free, Takes, HeapTypeOK, NoCall
<1>3. Solo(t)'
  BY <1>1, <1>2 DEF Solo
<1>4. AloneInv'
  BY <1>1, <1>2, <1>3 DEF AloneInv, Many, HeapInv, Solo, Free, Runs, Thread
<1>5. BlockKnown(b) /\ old.size > 0 /\ old.size \in Nat /\ old.page \in Page \cup {NoPage}
  BY DEF Free, Held, HeapInv, BlockInv, HeapTypeOK, BlockRecord
<1>6. CallKnown(t)'
  BY <1>2, <1>5 DEF CallKnown, BlockKnown
<1>7. CallsKnown'
  BY <1>2, <1>3, <1>6, CallsFollow DEF HeapInv
<1>8. BlockInv'
  <2>1. ASSUME NEW c \in Block PROVE BlockKnown(c)'
    BY <1>2 DEF HeapInv, BlockInv, BlockKnown, NoBlock
  <2>2. ASSUME NEW c \in Block, NEW d \in Block, c # d, block'[c].page # NoPage PROVE Disjoint(c, d)'
    BY <1>2, <2>2 DEF HeapInv, BlockInv, Disjoint, NoBlock
  <2> QED BY <2>1, <2>2 DEF BlockInv
<1>9. ASSUME NEW p \in pages' PROVE PageKnown(t, p)'
  <2>1. PageKnown(t, p) /\ p \in Page /\ p # NoPage
    BY <1>1, <1>2, <1>9 DEF HeapInv, PageInv, HeapTypeOK, Page, NoPage
  <2>2. ~Drops(t, p) /\ ~Destroys(t, p) /\ ~Destroys(t, p)'
    BY <1>2 DEF Drops, Destroys
  <2>3. Live(p)' = Live(p) \ {b}
    BY <1>2, <2>1 DEF Live, NoBlock
  <2>4. b \in Live(p) <=> old.page = p
    BY DEF Live
  <2>5. Drops(t, p)' <=> old.page = p
    BY <1>2, <1>5, <2>1 DEF Drops, BlockKnown
  <2>6. IsFiniteSet(Live(p)) /\ Cardinality(Live(p)) \in Nat
    BY <2>1, LivePages
  <2>7. Cardinality(Live(p)) = Cardinality(Live(p)') + (IF Drops(t, p)' THEN 1 ELSE 0)
    <3>1. Cardinality(Live(p) \ {b}) =
             IF b \in Live(p) THEN Cardinality(Live(p)) - 1 ELSE Cardinality(Live(p))
      BY <2>6, FS_RemoveElement
    <3> QED BY <3>1, <2>3, <2>4, <2>5, <2>6
  <2> QED BY <1>2, <2>1, <2>2, <2>6, <2>7 DEF PageKnown
<1>10. PageInv'
  BY <1>3, <1>9, PagesFollow
<1>11. BytesInv'
  <2>1. Owed(t) = 0 /\ Owed(t)' = old.size
    BY <1>2, <1>5 DEF Owed
  <2>2. IsFiniteSet(Words) /\ bytes = Cardinality(Words)
    BY <1>1, <2>1, FS_CardinalityType DEF HeapInv, BytesInv
  <2>3. block'[b].size = 0 /\ \A c \in Block : c # b => block'[c] = block[c]
    BY <1>2 DEF NoBlock
  <2>4. /\ IsFiniteSet(Words') /\ Cardinality(Words) \in Nat
        /\ Cardinality(Words') = Cardinality(Words) - old.size + block'[b].size
    BY <1>5, <2>2, <2>3, WordsFollow
  <2>5. bytes' = Cardinality(Words') + Owed(t)'
    BY <1>2, <1>5, <2>1, <2>2, <2>3, <2>4
  <2> QED BY <1>3, <2>4, <2>5, BytesFollow
<1> QED
  BY <1>4, <1>7, <1>8, <1>10, <1>11 DEF HeapInv

LEMMA ReallocKeeps ==
  ASSUME HeapTypeOK, HeapTypeOK', HeapInv,
         NEW t \in Thread, NEW b \in Block, NEW s \in Sizes, Realloc(t, b, s)
  PROVE  HeapInv'
<1> USE HeapAssumption
<1> DEFINE old == block[b]
<1>1. Solo(t) /\ (Many => mutex' = t) /\ mutex' \in {mutex, t}
  BY SoloStarts DEF Realloc, HeapInv
<1>2. /\ hpc[t] = "idle"
      /\ \A u \in Thread : u # t => hpc'[u] = hpc[u] /\ call'[u] = call[u]
      /\ call'[t].op = "realloc" /\ call'[t].id = b
      /\ call'[t].old = old /\ call'[t].size = s
      /\ \A c \in Block : c # b => block'[c] = block[c]
      /\ block'[b].page = old.page /\ block'[b].offset = old.offset
      /\ UNCHANGED <<pages, current_page, page, bytes, mtcount, threads>>
  BY DEF Realloc, Takes, HeapTypeOK, NoCall, BlockRecord
<1>3. \/ hpc'[t] = "place" /\ block' = block
      \/ hpc'[t] = "stats" /\ block'[b].size = s /\ ~IsPaged(s) /\ ~IsPaged(old.size)
  BY DEF Realloc, Takes, HeapTypeOK, BlockRecord
<1>4. Solo(t)'
  BY <1>1, <1>2 DEF Solo
<1>5. AloneInv'
  BY <1>1, <1>2, <1>3, <1>4 DEF AloneInv, Many, HeapInv, Solo, Realloc, Runs, Thread
<1>6. /\ BlockKnown(b) /\ old.size > 0 /\ old.size \in Nat /\ s > 0 /\ s \in Nat
      /\ block'[b].size \in Nat
  BY DEF Realloc, Held, HeapInv, BlockInv, HeapTypeOK, BlockRecord
<1>7. CallKnown(t)'
  BY <1>2, <1>3, <1>6 DEF CallKnown
<1>8. CallsKnown'
  BY <1>2, <1>4, <1>7, CallsFollow DEF HeapInv
<1>9. BlockInv'
  <2>1. ASSUME NEW c \in Block PROVE BlockKnown(c)'
    BY <1>2, <1>3, <1>6 DEF HeapInv, BlockInv, BlockKnown
  <2>2. \A c \in Block : /\ block'[c].page = block[c].page /\ block'[c].offset = block[c].offset
                         /\ c # b => block'[c] = block[c]
    BY <1>2
  <2>3. block' = block \/ block[b].page = NoPage
    BY <1>3, <1>6 DEF BlockKnown
  <2>4. ASSUME NEW c \in Block, NEW d \in Block, c # d, block'[c].page # NoPage PROVE Disjoint(c, d)'
    BY <2>2, <2>3, <2>4 DEF HeapInv, BlockInv, Disjoint
  <2> QED BY <2>1, <2>4 DEF BlockInv
<1>10. ASSUME NEW p \in pages' PROVE PageKnown(t, p)'
  <2>1. PageKnown(t, p)
    BY <1>1, <1>2, <1>10 DEF HeapInv, PageInv
  <2>2. \A c \in Block : block'[c].page = block[c].page
    BY <1>2
  <2>3. Live(p)' = Live(p) /\ ~Drops(t, p) /\ ~Drops(t, p)' /\ ~Destroys(t, p)
    BY <1>2, <1>3, <2>2 DEF Live, Drops, Destroys
  <2> QED BY <1>2, <2>1, <2>3 DEF PageKnown
<1>11. PageInv'
  BY <1>4, <1>10, PagesFollow
<1>12. BytesInv'
  <2>1. Owed(t) = 0 /\ Owed(t)' = old.size - block'[b].size
    BY <1>2, <1>3, <1>6 DEF Owed
  <2>2. IsFiniteSet(Words) /\ bytes = Cardinality(Words)
    BY <1>1, <2>1, FS_CardinalityType DEF HeapInv, BytesInv
  <2>3. /\ IsFiniteSet(Words') /\ Cardinality(Words) \in Nat
        /\ Cardinality(Words') = Cardinality(Words) - old.size + block'[b].size
    BY <1>2, <1>6, <2>2, WordsFollow
  <2>4. bytes' = Cardinality(Words') + Owed(t)'
    BY <1>2, <1>6, <2>1, <2>2, <2>3
  <2> QED BY <1>4, <2>3, <2>4, BytesFollow
<1> QED
  BY <1>5, <1>8, <1>9, <1>11, <1>12 DEF HeapInv

LEMMA StatsKeeps ==
  ASSUME HeapTypeOK, HeapInv, NEW t \in Thread, Stats(t)
  PROVE  HeapInv'
<1> USE HeapAssumption
<1>1. /\ hpc[t] = "stats" /\ hpc'[t] = "idle" /\ call'[t] = NoCall
      /\ \A u \in Thread : u # t => hpc'[u] = hpc[u] /\ call'[u] = call[u]
      /\ bytes' = bytes - call[t].old.size + call[t].size
      /\ mutex' = IF mutex = t THEN Nobody ELSE mutex
      /\ UNCHANGED <<pages, current_page, page, block, mtcount, threads>>
  BY DEF Stats, Takes, Unlock, HeapTypeOK
<1>2. Solo(t) /\ Solo(t)'
  BY <1>1, SoloHolds DEF HeapInv, Solo
<1>3. AloneInv'
  BY <1>1, <1>2 DEF AloneInv, Many, HeapInv, Solo, Thread, Nobody
<1>4. CallKnown(t)'
  BY <1>1 DEF CallKnown
<1>5. CallsKnown'
  BY <1>1, <1>2, <1>4, CallsFollow DEF HeapInv
<1>6. BlockInv'
  BY <1>1 DEF HeapInv, BlockInv, BlockKnown, Disjoint
<1>7. ASSUME NEW p \in pages' PROVE PageKnown(t, p)'
  <2>1. PageKnown(t, p)
    BY <1>1, <1>2, <1>7 DEF HeapInv, PageInv
  <2>2. Live(p)' = Live(p) /\ ~Drops(t, p) /\ ~Drops(t, p)' /\ ~Destroys(t, p)
    BY <1>1 DEF Live, Drops, Destroys
  <2> QED BY <1>1, <2>1, <2>2 DEF PageKnown
<1>8. PageInv'
  BY <1>2, <1>7, PagesFollow
<1>9. BytesInv'
  <2>1. Words' = Words /\ Owed(t) = call[t].old.size - call[t].size /\ Owed(t)' = 0
    BY <1>1 DEF Words, Owed
  <2>2. IsFiniteSet(Words) /\ bytes = Cardinality(Words) + Owed(t)
    BY <1>2 DEF HeapInv, BytesInv
  <2>3. Cardinality(Words) \in Nat /\ call[t].old.size \in Nat /\ call[t].size \in Nat
    BY <2>2, FS_CardinalityType DEF HeapTypeOK, Call, BlockRecord
  <2> QED BY <1>1, <1>2, <2>1, <2>2, <2>3, BytesFollow
<1> QED
  BY <1>3, <1>5, <1>6, <1>8, <1>9 DEF HeapInv

LEMMA DropKeeps ==
  ASSUME HeapTypeOK, HeapInv, NEW t \in Thread, Drop(t)
  PROVE  HeapInv'
<1> USE HeapAssumption
<1> DEFINE old == call[t].old
           q   == old.page
<1>1. /\ hpc[t] = "drop"
      /\ hpc'[t] = IF IsPaged(old.size) /\ page[q].allocs = 1 THEN "destroy" ELSE "stats"
      /\ \A u \in Thread : u # t => hpc'[u] = hpc[u]
      /\ UNCHANGED <<pages, current_page, block, bytes, mutex, mtcount, threads, call>>
  BY DEF Drop, Takes, HeapTypeOK
<1>2. Solo(t) /\ Solo(t)'
  BY <1>1, SoloHolds DEF HeapInv, Solo
<1>3. AloneInv'
  BY <1>1, <1>2 DEF AloneInv, Many, HeapInv, Solo
<1>4. IsPaged(old.size) => q \in pages
  BY <1>1 DEF HeapInv, CallsKnown, CallKnown
<1>5. /\ \A p \in pages : page'[p].offset = page[p].offset
      /\ \A p \in pages : ~Drops(t, p) => page'[p] = page[p]
      /\ IsPaged(old.size) => page'[q].allocs = page[q].allocs - 1
  BY <1>1, <1>4 DEF Drop, HeapTypeOK, Drops, PageRecord
<1>6. CallKnown(t)'
  BY <1>1, <1>4, <1>5 DEF CallKnown
<1>7. CallsKnown'
  BY <1>1, <1>2, <1>6, CallsFollow DEF HeapInv
<1>8. BlockInv'
  BY <1>1, <1>5 DEF HeapInv, BlockInv, BlockKnown, Disjoint
<1>9. ASSUME NEW p \in pages' PROVE PageKnown(t, p)'
  <2>1. PageKnown(t, p) /\ p \in Page
    BY <1>1, <1>2, <1>9 DEF HeapInv, PageInv, HeapTypeOK
  <2>2. Live(p)' = Live(p) /\ ~Drops(t, p)' /\ ~Destroys(t, p)
    BY <1>1 DEF Live, Drops, Destroys
  <2>3. Cardinality(Live(p)) \in Nat
    BY <2>1, LivePages
  <2>4. CASE Drops(t, p)
    <3>1. p = q /\ IsPaged(old.size)
      BY <2>4 DEF Drops
    <3>2. page'[p].allocs = Cardinality(Live(p)) /\ page[p].allocs = Cardinality(Live(p)) + 1
      BY <3>1, <2>1, <2>3, <2>4, <1>5 DEF PageKnown
    <3>3. page'[p].allocs = 0 => Destroys(t, p)'
      BY <3>1, <3>2, <2>3, <1>1 DEF Destroys
    <3> QED BY <3>2, <3>3, <2>1, <2>2, <2>3, <1>1, <1>5, <1>9 DEF PageKnown
  <2>5. CASE ~Drops(t, p)
    BY <1>1, <1>5, <1>9, <2>1, <2>2, <2>3, <2>5 DEF PageKnown
  <2> QED BY <2>4, <2>5
<1>10. PageInv'
  BY <1>2, <1>9, PagesFollow
<1>11. BytesInv'
  <2>1. Words' = Words /\ Owed(t) = Owed(t)'
    BY <1>1 DEF Words, Owed
  <2> QED BY <1>1, <1>2, <2>1, BytesFollow DEF HeapInv, BytesInv
<1> QED
  BY <1>3, <1>7, <1>8, <1>10, <1>11 DEF HeapInv

LEMMA DestroyKeeps ==
  ASSUME HeapTypeOK, HeapInv, NEW t \in Thread, Destroy(t)
  PROVE  HeapInv'
<1> USE HeapAssumption
<1> DEFINE q == call[t].old.page
<1>1. /\ hpc[t] = "destroy" /\ hpc'[t] = "stats"
      /\ \A u \in Thread : u # t => hpc'[u] = hpc[u]
      /\ pages' = IF q # current_page THEN pages \ {q} ELSE pages
      /\ UNCHANGED <<current_page, block, bytes, mutex, mtcount, threads, call>>
  BY DEF Destroy, Takes, HeapTypeOK
<1>2. Solo(t) /\ Solo(t)'
  BY <1>1, SoloHolds DEF HeapInv, Solo
<1>3. AloneInv'
  BY <1>1, <1>2 DEF AloneInv, Many, HeapInv, Solo
<1>4. q \in pages /\ q \in Page /\ page[q].allocs = 0
  BY <1>1 DEF HeapInv, CallsKnown, CallKnown, HeapTypeOK
<1>5. page'[q] = FreshPage /\ \A p \in pages : p # q => page'[p] = page[p]
  BY <1>4 DEF Destroy, HeapTypeOK
<1>6. Live(q) = {}
  <2>1. PageKnown(t, q) /\ ~Drops(t, q)
    BY <1>1, <1>2, <1>4 DEF HeapInv, PageInv, Drops
  <2>2. IsFiniteSet(Live(q)) /\ Cardinality(Live(q)) = 0
    BY <1>4, <2>1, LivePages DEF PageKnown
  <2> QED BY <2>2, FS_EmptySet
<1>7. CallKnown(t)'
  BY <1>1 DEF CallKnown
<1>8. CallsKnown'
  BY <1>1, <1>2, <1>7, CallsFollow DEF HeapInv
<1>9. BlockInv'
  <2>1. \A c \in Block : block[c].page # q
    BY <1>6 DEF Live
  <2>2. ASSUME NEW c \in Block PROVE BlockKnown(c)'
    BY <1>1, <1>5, <2>1 DEF HeapInv, BlockInv, BlockKnown
  <2> QED BY <1>1, <2>2 DEF HeapInv, BlockInv, Disjoint
<1>10. ASSUME NEW p \in pages' PROVE PageKnown(t, p)'
  <2>1. p \in pages /\ PageKnown(t, p) /\ (p = q => p = current_page)
    BY <1>1, <1>2, <1>10 DEF HeapInv, PageInv
  <2>2. Live(p)' = Live(p) /\ ~Drops(t, p) /\ ~Drops(t, p)'
    BY <1>1 DEF Live, Drops
  <2>3. CASE p = q
    <3>1. page'[p].allocs = 0 /\ page'[p].offset = Header /\ page'[p] = FreshPage
      BY <1>5, <2>3 DEF FreshPage
    <3>2. Cardinality(Live(p)') = 0
      BY <1>6, <2>2, <2>3, FS_EmptySet
    <3> HIDE DEF q
    <3> QED BY <1>1, <2>1, <2>2, <2>3, <3>1, <3>2 DEF PageKnown, FreshPage
  <2>4. CASE p # q
    <3>1. page'[p] = page[p] /\ ~Destroys(t, p)
      BY <1>5, <2>1, <2>4 DEF Destroys
    <3> QED BY <1>1, <2>1, <2>2, <3>1 DEF PageKnown
  <2> QED BY <2>3, <2>4
<1>11. PageInv'
  BY <1>2, <1>10, PagesFollow
<1>12. BytesInv'
  <2>1. Words' = Words /\ Owed(t) = Owed(t)'
    BY <1>1 DEF Words, Owed
  <2> QED BY <1>1, <1>2, <2>1, BytesFollow DEF HeapInv, BytesInv
<1> QED
  BY <1>3, <1>8, <1>9, <1>11, <1>12 DEF HeapInv

LEMMA PlaceKeeps ==
  ASSUME HeapTypeOK, HeapInv, NEW t \in Thread, Place(t)
  PROVE  HeapInv'
<1> USE HeapAssumption
<1> DEFINE s == call[t].size
           full == IsPaged(s) /\ ~Fits(page[current_page].offset, s)
<1>1. /\ hpc[t] = "place" /\ hpc'[t] = "put"
      /\ \A u \in Thread : u # t => hpc'[u] = hpc[u] /\ call'[u] = call[u]
      /\ call'[t].op = call[t].op /\ call'[t].id = call[t].id
      /\ call'[t].size = s /\ call'[t].old = call[t].old
      /\ UNCHANGED <<block, bytes, mutex, mtcount, threads>>
  BY DEF Place, Takes, HeapTypeOK, Call
<1>2. Solo(t) /\ Solo(t)'
  BY <1>1, SoloHolds DEF HeapInv, Solo
<1>3. AloneInv'
  BY <1>1, <1>2 DEF AloneInv, Many, HeapInv, Solo
<1>4. /\ current_page \in pages /\ current_page \in Page /\ page[current_page].offset \in Nat
      /\ s \in Nat /\ pages \subseteq Page
  BY DEF HeapTypeOK, PageRecord, Call
<1>5. \A p \in pages : PageKnown(t, p) /\ ~Drops(t, p) /\ ~Destroys(t, p)
  BY <1>1, <1>2 DEF HeapInv, PageInv, Drops, Destroys
<1>6. \A p \in Page : Live(p)' = Live(p) /\ ~Drops(t, p)' /\ ~Destroys(t, p)'
  BY <1>1 DEF Live, Drops, Destroys
<1>7. ASSUME ~full PROVE CallKnown(t)' /\ BlockInv' /\ \A p \in pages' : PageKnown(t, p)'
  <2>1. /\ call'[t].at = IF IsPaged(s) THEN page[current_page].offset ELSE 0
        /\ UNCHANGED <<pages, current_page, page>>
    BY <1>7 DEF Place, HeapTypeOK, Call
  <2>2. CallKnown(t)'
    BY <1>1, <1>4, <1>7, <2>1 DEF HeapInv, CallsKnown, CallKnown, Fits
  <2>3. BlockInv'
    BY <1>1, <2>1 DEF HeapInv, BlockInv, BlockKnown, Disjoint
  <2>4. \A p \in pages' : PageKnown(t, p)'
    BY <1>1, <1>4, <1>5, <1>6, <2>1 DEF PageKnown
  <2> QED BY <2>2, <2>3, <2>4, Zenon
<1>8. ASSUME full PROVE CallKnown(t)' /\ BlockInv' /\ \A p \in pages' : PageKnown(t, p)'
  <2>1. PICK p \in Page \ pages :
          /\ pages' = pages \cup {p} /\ current_page' = p
          /\ page' = [page EXCEPT ![p] = FreshPage]
          /\ call' = [call EXCEPT ![t].at = Header]
    BY <1>8 DEF Place
  <2>2. page'[p] = FreshPage /\ \A q \in pages : page'[q] = page[q]
    BY <1>4, <2>1 DEF HeapTypeOK
  <2>3. call'[t].at = Header
    BY <2>1 DEF HeapTypeOK, Call
  <2>4. CallKnown(t)'
    BY <1>1, <1>4, <1>8, <2>1, <2>2, <2>3 DEF HeapInv, CallsKnown, CallKnown, FreshPage, IsPaged
  <2>5. \A b \in Block : block[b].page # p
    BY <2>1 DEF HeapInv, BlockInv, BlockKnown, Page, NoPage
  <2>6. BlockInv'
    <3>1. ASSUME NEW c \in Block PROVE BlockKnown(c)'
      BY <1>1, <2>1, <2>2 DEF HeapInv, BlockInv, BlockKnown
    <3> QED BY <1>1, <3>1 DEF HeapInv, BlockInv, Disjoint
  <2>7. PageKnown(t, p)'
    <3>1. Live(p)' = {}
      BY <1>1, <2>5 DEF Live
    <3> QED BY <1>6, <2>1, <2>2, <3>1, FS_EmptySet DEF PageKnown, FreshPage
  <2>8. ASSUME NEW q \in pages PROVE PageKnown(t, q)'
    <3>1. page[q].allocs # 0
      <4>1. SUFFICES ASSUME page[q].allocs = 0 PROVE FALSE
        OBVIOUS
      <4>2. q = current_page /\ page[q] = FreshPage
        BY <1>5, <4>1 DEF PageKnown
      <4>3. Fits(Header, s)
        BY <1>4, <1>8 DEF Fits, IsPaged
      <4> QED BY <1>8, <4>2, <4>3 DEF FreshPage
    <3> QED BY <1>4, <1>5, <1>6, <2>2, <3>1 DEF PageKnown
  <2>9. \A q \in pages' : PageKnown(t, q)'
    BY <2>1, <2>7, <2>8, Zenon
  <2> QED BY <2>4, <2>6, <2>9, Zenon
<1>9. CallsKnown'
  BY <1>1, <1>2, <1>7, <1>8, CallsFollow DEF HeapInv
<1>10. PageInv'
  BY <1>2, <1>7, <1>8, PagesFollow
<1>11. BytesInv'
  <2>1. Words' = Words /\ Owed(t) = Owed(t)'
    BY <1>1 DEF Words, Owed
  <2> QED BY <1>1, <1>2, <2>1, BytesFollow DEF HeapInv, BytesInv
<1> QED
  BY <1>3, <1>7, <1>8, <1>9, <1>10, <1>11 DEF HeapInv

LEMMA PutKeeps ==
  ASSUME HeapTypeOK, HeapTypeOK', HeapInv, NEW t \in Thread, Put(t)
  PROVE  HeapInv'
<1> USE HeapAssumption
<1>0. PICK b \in Block : b = call[t].id
  BY DEF HeapInv, CallsKnown, CallKnown, Put, Takes
<1> DEFINE c == call[t]
           old == block[b]
           new == block'[b]
<1>1. /\ hpc[t] = "put" /\ hpc'[t] = IF c.op = "malloc" THEN "idle" ELSE "drop"
      /\ call'[t] = IF c.op = "malloc" THEN NoCall ELSE c
      /\ mutex' = IF c.op = "malloc" /\ mutex = t THEN Nobody ELSE mutex
      /\ \A u \in Thread : u # t => hpc'[u] = hpc[u] /\ call'[u] = call[u]
      /\ UNCHANGED <<pages, current_page, bytes, mtcount, threads>>
  BY DEF Put, Takes, Unlock, HeapTypeOK
<1>2. Solo(t) /\ Solo(t)'
  BY <1>1, SoloHolds DEF HeapInv, Solo
<1>3. AloneInv'
  BY <1>1, <1>2 DEF AloneInv, Many, HeapInv, Solo, Thread, Nobody
<1>4. /\ b \in Block /\ c.size > 0 /\ BlockKnown(b)
      /\ \/ c.op = "malloc" /\ old.size = 0
         \/ c.op = "realloc" /\ old = c.old /\ old.size > 0
      /\ IsPaged(c.size) => c.at = page[current_page].offset /\ c.at + c.size < PageSize
  BY <1>0, <1>1 DEF HeapInv, CallsKnown, CallKnown, BlockInv
<1>5. /\ current_page \in pages /\ current_page \in Page /\ pages \subseteq Page
      /\ c.size \in Nat /\ c.at \in Nat /\ old.size \in Nat /\ old.page \in Page \cup {NoPage}
  BY <1>4 DEF HeapTypeOK, Call, BlockRecord
<1>6. /\ \A d \in Block : d # b => block'[d] = block[d]
      /\ new.size = c.size
      /\ new.page = IF IsPaged(c.size) THEN current_page ELSE NoPage
      /\ IsPaged(c.size) => new.offset = c.at
  BY <1>0, <1>4 DEF Put, HeapTypeOK, NoBlock
<1>7. /\ \A p \in Page : p # current_page => page'[p] = page[p]
      /\ ~IsPaged(c.size) => page' = page
      /\ IsPaged(c.size) => /\ page'[current_page].allocs = page[current_page].allocs + 1
                            /\ page'[current_page].offset = c.at + c.size + 1
  BY <1>5 DEF Put, HeapTypeOK
<1>8. \A p \in pages : /\ page[p].offset \in Nat /\ page'[p].offset \in Nat /\ page[p].allocs \in Int
                       /\ page'[p].offset >= page[p].offset
  <2>1. \A p \in pages : page[p].offset \in Nat /\ page'[p].offset \in Nat /\ page[p].allocs \in Int
    BY <1>1, <1>5 DEF HeapTypeOK, PageRecord
  <2>2. page'[current_page].offset >= page[current_page].offset
    BY <1>4, <1>5, <1>7, <2>1
  <2> QED BY <1>5, <1>7, <2>1, <2>2
<1>9. CallKnown(t)'
  BY <1>0, <1>1, <1>4 DEF CallKnown, BlockKnown
<1>10. CallsKnown'
  BY <1>1, <1>2, <1>9, CallsFollow DEF HeapInv
<1>11. BlockInv'
  <2>1. BlockKnown(b)'
    <3>1. page[current_page].offset >= Header
      BY <1>2, <1>5 DEF HeapInv, PageInv, PageKnown
    <3>2. current_page # NoPage
      BY <1>5 DEF NoPage, Page
    <3>3. CASE ~IsPaged(c.size)
      BY <1>6, <3>3 DEF BlockKnown, NoPage
    <3>4. CASE IsPaged(c.size)
      <4>1. /\ new.page = current_page /\ new.offset = c.at /\ new.size = c.size
            /\ c.at >= Header /\ c.at + c.size < PageSize
            /\ page'[current_page].offset = c.at + c.size + 1
        BY <1>4, <1>6, <1>7, <3>1, <3>4
      <4>2. current_page \in pages'
        BY <1>1, <1>5
      <4> QED BY <1>4, <1>5, <3>2, <3>4, <4>1, <4>2 DEF BlockKnown
    <3> QED BY <3>3, <3>4
  <2>2. ASSUME NEW d \in Block, d # b PROVE BlockKnown(d)'
    <3>1. BlockKnown(d) /\ block[d].offset \in Nat /\ block[d].size \in Nat
      BY DEF HeapInv, BlockInv, HeapTypeOK, BlockRecord
    <3> QED BY <1>1, <1>6, <1>8, <2>2, <3>1 DEF BlockKnown
  <2>3. ASSUME NEW d \in Block, d # b, new.page # NoPage
        PROVE  /\ block'[d].page = new.page => block'[d].offset + block'[d].size < new.offset
               /\ IsPaged(c.size)
    <3>1. BlockKnown(d) /\ block[d].offset \in Nat /\ block[d].size \in Nat
      BY DEF HeapInv, BlockInv, HeapTypeOK, BlockRecord
    <3>2. IsPaged(c.size) /\ new.page = current_page /\ new.offset = page[current_page].offset
      BY <1>4, <1>6, <2>3
    <3>3. block'[d] = block[d] /\ current_page # NoPage
      BY <1>5, <1>6, <2>3 DEF NoPage, Page
    <3> HIDE DEF new, c
    <3> QED BY <3>1, <3>2, <3>3 DEF BlockKnown
  <2>4. ASSUME NEW d \in Block, NEW e \in Block, d # e, block'[d].page # NoPage
        PROVE  Disjoint(d, e)'
    <3>1. CASE d = b
      <4>1. e # b /\ new.page # NoPage
        BY <2>4, <3>1
      <4> QED BY <2>3, <3>1, <4>1 DEF Disjoint
    <3>2. CASE d # b /\ e = b /\ new.page # NoPage
      BY <2>3, <3>2 DEF Disjoint
    <3>3. CASE d # b /\ e = b /\ new.page = NoPage
      BY <2>4, <3>3 DEF Disjoint
    <3>4. CASE d # b /\ e # b
      BY <1>6, <2>4, <3>4 DEF HeapInv, BlockInv, Disjoint
    <3> QED BY <3>1, <3>2, <3>3, <3>4
  <2>5. ASSUME NEW d \in Block PROVE BlockKnown(d)'
    <3>1. CASE d = b
      BY <2>1, <3>1 DEF BlockKnown
    <3> QED BY <2>2, <3>1
  <2> QED BY <2>4, <2>5 DEF BlockInv
<1>12. ASSUME NEW p \in pages' PROVE PageKnown(t, p)'
  <2>a. p \in pages /\ p \in Page /\ p # NoPage
    BY <1>1, <1>5, <1>12 DEF Page, NoPage
  <2>b. PageKnown(t, p)
    BY <1>2, <2>a DEF HeapInv, PageInv
  <2>c. ~Drops(t, p) /\ ~Destroys(t, p) /\ ~Destroys(t, p)'
    BY <1>1 DEF Drops, Destroys
  <2>1. /\ p \in pages /\ p \in Page /\ p # NoPage /\ PageKnown(t, p)
        /\ ~Drops(t, p) /\ ~Destroys(t, p) /\ ~Destroys(t, p)'
    BY <2>a, <2>b, <2>c
  <2>2. IsFiniteSet(Live(p)) /\ Cardinality(Live(p)) \in Nat
    BY <2>1, LivePages
  <2>3. Drops(t, p)' <=> old.page = p
    BY <1>1, <1>4, <2>1 DEF Drops, BlockKnown, NoCall
  <2>4. b \in Live(p) <=> old.page = p
    BY <1>4 DEF Live
  <2>5. CASE new.page = p
    <3>1. p = current_page /\ IsPaged(c.size)
      BY <1>6, <2>1, <2>5
    <3>2. Live(p)' = Live(p) \cup {b}
      BY <1>4, <1>6, <2>5 DEF Live
    <3>3. Cardinality(Live(p) \cup {b}) =
             IF b \in Live(p) THEN Cardinality(Live(p)) ELSE Cardinality(Live(p)) + 1
      BY <2>2, FS_AddElement
    <3>4. page'[p].allocs = Cardinality(Live(p)') + (IF Drops(t, p)' THEN 1 ELSE 0)
      BY <1>7, <2>1, <2>2, <2>3, <2>4, <3>1, <3>2, <3>3 DEF PageKnown
    <3>5. page'[p].allocs # 0
      BY <1>7, <2>1, <2>2, <3>1 DEF PageKnown
    <3>6. page'[p].offset >= Header
      BY <1>8, <2>1 DEF PageKnown
    <3> QED BY <3>4, <3>5, <3>6 DEF PageKnown
  <2>6. CASE new.page # p
    <3>1. page'[p] = page[p]
      BY <1>5, <1>6, <1>7, <2>1, <2>6
    <3>2. Live(p)' = Live(p) \ {b}
      BY <1>4, <1>6, <2>6 DEF Live
    <3>3. Cardinality(Live(p) \ {b}) =
             IF b \in Live(p) THEN Cardinality(Live(p)) - 1 ELSE Cardinality(Live(p))
      BY <2>2, FS_RemoveElement
    <3>4. page'[p].allocs = Cardinality(Live(p)') + (IF Drops(t, p)' THEN 1 ELSE 0)
      BY <2>1, <2>2, <2>3, <2>4, <3>1, <3>2, <3>3 DEF PageKnown
    <3> QED BY <1>1, <2>1, <3>1, <3>4 DEF PageKnown
  <2> QED BY <2>5, <2>6
<1>13. PageInv'
  BY <1>2, <1>12, PagesFollow
<1>14. BytesInv'
  <2>1. /\ Owed(t) = IF c.op = "malloc" THEN c.size ELSE 0
        /\ Owed(t)' = IF c.op = "malloc" THEN 0 ELSE c.old.size - c.size
    BY <1>1 DEF Owed
  <2>2. IsFiniteSet(Words) /\ bytes = Cardinality(Words) + Owed(t)
    BY <1>2 DEF HeapInv, BytesInv
  <2>3. /\ IsFiniteSet(Words') /\ Cardinality(Words) \in Nat
        /\ Cardinality(Words') = Cardinality(Words) - old.size + c.size
    BY <1>4, <1>5, <1>6, <2>2, WordsFollow
  <2>4. bytes' = Cardinality(Words') + Owed(t)'
    BY <1>1, <1>4, <1>5, <2>1, <2>2, <2>3
  <2> QED BY <1>2, <2>3, <2>4, BytesFollow
<1> QED
  BY <1>3, <1>10, <1>11, <1>13, <1>14 DEF HeapInv

-----------------------------------------------------------------------------
(* The theorems.                                                           *)

LEMMA InitHeapInv == HeapInit => HeapInv
<1> USE HeapAssumption
<1> SUFFICES ASSUME HeapInit PROVE HeapInv
  OBVIOUS
<1>1. AloneInv
  BY DEF HeapInit, AloneInv, Many, Thread, Nobody
<1>2. CallsKnown
  BY DEF HeapInit, CallsKnown, CallKnown
<1>3. BlockInv
  BY DEF HeapInit, BlockInv, BlockKnown, NoBlock, NoPage
<1>4. PageInv
  <2>1. Live(1) = {}
    BY DEF HeapInit, Live, NoBlock, NoPage
  <2>2. 1 \in Page
    BY DEF Page
  <2>3. page[1].allocs = 0 /\ page[1].offset = Header /\ page[1] = FreshPage
    BY <2>2 DEF HeapInit, FreshPage
  <2>4. ASSUME NEW t \in Thread PROVE PageKnown(t, 1)
    BY <2>1, <2>3, FS_EmptySet DEF HeapInit, PageKnown, Drops
  <2> QED BY <2>4 DEF HeapInit, PageInv
<1>5. BytesInv
  <2>1. Words = {}
    BY DEF HeapInit, Words, NoBlock
  <2> QED BY <2>1, FS_EmptySet DEF HeapInit, BytesInv, Owed
<1> QED BY <1>1, <1>2, <1>3, <1>4, <1>5 DEF HeapInv

LEMMA NextHeapInv ==
  ASSUME CallsStartMt \/ NThreads = 1, HeapTypeOK, HeapTypeOK', MtInv', HeapInv, [HeapNext]_heap_vars
  PROVE  HeapInv'
<1>1. ASSUME UNCHANGED <<pages, current_page, page, block, bytes, mutex, hpc, call>>, AloneInv'
      PROVE  HeapInv'
  <2>1. CallsKnown' /\ BlockInv'
    BY <1>1 DEF HeapInv, CallsKnown, CallKnown, BlockInv, BlockKnown, Disjoint
  <2>2. PageInv'
    BY <1>1 DEF HeapInv, PageInv, PageKnown, Solo, Live, Drops, Destroys
  <2>3. BytesInv'
    BY <1>1 DEF HeapInv, BytesInv, Words, Solo, Owed
  <2> QED BY <1>1, <2>1, <2>2, <2>3 DEF HeapInv
<1>2. CASE StartThreads
  BY <1>1, <1>2 DEF StartThreads, HeapInv, AloneInv, MtInv, Many, Thread
<1>3. CASE JoinThreads
  BY <1>1, <1>3 DEF JoinThreads, HeapInv, AloneInv, MtInv, Many, Thread
<1>4. CASE UNCHANGED heap_vars
  BY <1>1, <1>4 DEF heap_vars, HeapInv, AloneInv, Many
<1> QED
  BY <1>2, <1>3, <1>4, MallocKeeps, FreeKeeps, ReallocKeeps, PlaceKeeps, PutKeeps, DropKeeps,
     DestroyKeeps, StatsKeeps DEF HeapNext

LEMMA HeapInvHolds ==
  ASSUME CallsStartMt \/ NThreads = 1
  PROVE  HeapSpec => [](HeapTypeOK /\ HeapInv)
<1>1. HeapTypeOK /\ HeapTypeOK' /\ MtInv' /\ HeapInv /\ [HeapNext]_heap_vars => HeapInv'
  BY NextHeapInv
<1> QED
  BY <1>1, InitHeapInv, TypeCorrect, PTL DEF HeapSpec

\* When heap_start_mt is called before threads are created, or there is one thread, no
\* two blocks ever share memory and every paged block stays inside a page the heap still
\* has (heap.c:185, heap.c:228), for any number of blocks and pages and any sizes.
THEOREM BlocksAreSafeHolds ==
  ASSUME CallsStartMt \/ NThreads = 1
  PROVE  HeapSpec => []BlocksAreSafe
<1>1. HeapTypeOK /\ HeapInv => BlocksAreSafe
  BY DEF HeapInv, BlockInv, BlockKnown, BlocksAreSafe, Held
<1> QED BY <1>1, HeapInvHolds, PTL

\* Then, too, every page but the current one holds a block whenever no call runs, and
\* bytes_allocated is the size of the blocks the program holds (heap.c:249, heap.c:520).
THEOREM MemoryIsAccountedHolds ==
  ASSUME CallsStartMt \/ NThreads = 1
  PROVE  HeapSpec => []MemoryIsAccounted
<1>1. ASSUME HeapTypeOK, HeapInv, Quiet PROVE bytes = Cardinality(Words)
  <2>1. 1 \in Thread /\ Solo(1) /\ Owed(1) = 0
    BY <1>1, HeapAssumption DEF Quiet, Thread, Solo, Owed
  <2> QED BY <1>1, <2>1, FS_CardinalityType DEF HeapInv, BytesInv
<1>2. ASSUME HeapTypeOK, HeapInv, Quiet, NEW p \in pages, \A b \in Held : block[b].page # p
      PROVE  p = current_page /\ page[p] = FreshPage
  <2>1. 1 \in Thread /\ Solo(1) /\ ~Drops(1, p) /\ ~Destroys(1, p)
    BY <1>2, HeapAssumption DEF Quiet, Thread, Solo, Drops, Destroys
  <2>2. p # NoPage
    BY <1>2 DEF HeapTypeOK, Page, NoPage
  <2>3. Live(p) = {}
    BY <1>2, <2>2 DEF Live, Held, HeapInv, BlockInv, BlockKnown
  <2> QED BY <1>2, <2>1, <2>3, FS_EmptySet DEF HeapInv, PageInv, PageKnown
<1>3. HeapTypeOK /\ HeapInv => MemoryIsAccounted
  BY <1>1, <1>2 DEF MemoryIsAccounted
<1> QED BY <1>3, HeapInvHolds, PTL
==============================================================================
