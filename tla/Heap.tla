--------------------------------- MODULE Heap ---------------------------------
(***************************************************************************)
(* The allocator of the programs: src/core/heap.c.  Blocks lie in pages,   *)
(* each followed by a pointer to its page; a page counts its blocks and    *)
(* goes back to the system, or starts afresh, when the last one is freed.  *)
(* A block too large for a page is an allocation of its own.               *)
(*                                                                         *)
(* heap_malloc always takes the mutex of the heap.  heap_free and          *)
(* heap_realloc take it only between heap_start_mt and heap_end_mt, so     *)
(* their statements are steps of their own here.                           *)
(*                                                                         *)
(* Sizes and offsets are counted in words of sizeofptr bytes, which is the *)
(* only alignment the programs ask for.                                    *)
(***************************************************************************)
EXTENDS Integers, FiniteSets

CONSTANTS
    NThreads,       \* the threads of the program; the first one creates the others
    NBlocks,        \* bound on the blocks the program holds at once
    NPages,         \* bound on the pages in use at once
    PageSize,       \* page_size
    Header,         \* sizeof(i_Page)
    Sizes,          \* the sizes the program asks for
    CallsStartMt    \* heap_start_mt is called before threads are created

Thread == 1..NThreads
Block  == 1..NBlocks
Page   == 1..NPages
NoPage == 0
Nobody == 0
NoId   == 0

\* The test of i_malloc, i_free and i_realloc: alignment and page pointer are
\* a word each.
IsPaged(size) == size + 1 + Header + 1 < PageSize

ASSUME HeapAssumption ==
    /\ NThreads \in Nat \ {0} /\ NBlocks \in Nat /\ NPages \in Nat \ {0}
    /\ PageSize \in Nat /\ Header \in Nat \ {0}
    /\ Sizes \subseteq Nat \ {0}
    /\ CallsStartMt \in BOOLEAN

VARIABLES
    pages,        \* the pages of the heap
    current_page, \* the page new blocks go to
    page,         \* num_allocs, used_memory and offset of each page
    block,        \* page, offset and size of each block the program holds
    bytes,        \* bytes_allocated
    mutex,        \* the thread that holds the mutex of the heap
    mtcount,
    threads,      \* threads other than the main one exist
    hpc,          \* what each thread does in the heap
    call          \* its call: the new size, the block, the old contents of it

heap_vars == <<pages, current_page, page, block, bytes, mutex, mtcount, threads, hpc, call>>

FreshPage == [allocs |-> 0, used |-> 0, offset |-> Header]    \* i_init_page
NoBlock  == [page |-> NoPage, offset |-> 0, size |-> 0]
NoCall   == [op |-> "none", size |-> 0, id |-> NoId, old |-> NoBlock, at |-> 0]
Held     == {b \in Block : block[b].size > 0}
InUse    == Held \cup {call[t].id : t \in Thread}

HeapInit ==
    /\ pages = {1} /\ current_page = 1
    /\ page = [p \in Page |-> FreshPage]
    /\ block = [b \in Block |-> NoBlock]
    /\ bytes = 0
    /\ mutex = Nobody
    /\ mtcount = 0
    /\ threads = FALSE
    /\ hpc = [t \in Thread |-> "idle"]
    /\ call = [t \in Thread |-> NoCall]

-----------------------------------------------------------------------------
Takes(t, from, to) == hpc[t] = from /\ hpc' = [hpc EXCEPT ![t] = to]

Lock(t)   == mutex = Nobody /\ mutex' = t
Unlock(t) == mutex' = IF mutex = t THEN Nobody ELSE mutex

\* Mutant of LockIfMt: the mutex is never taken.
LockNever(t) == UNCHANGED mutex

\* How heap_free and heap_realloc begin.
LockIfMt(t) == IF mtcount > 0 THEN Lock(t) ELSE UNCHANGED mutex

\* The main thread is alone before the others exist and after they are joined.
Runs(t) == t = 1 \/ threads

StartThreads ==
    /\ ~threads /\ hpc[1] = "idle"
    /\ threads' = TRUE
    /\ mtcount' = IF CallsStartMt THEN mtcount + 1 ELSE mtcount
    /\ UNCHANGED <<pages, current_page, page, block, bytes, mutex, hpc, call>>

JoinThreads ==
    /\ threads /\ \A t \in Thread : hpc[t] = "idle"
    /\ threads' = FALSE
    /\ mtcount' = IF CallsStartMt THEN mtcount - 1 ELSE mtcount
    /\ UNCHANGED <<pages, current_page, page, block, bytes, mutex, hpc, call>>

\* heap_malloc: the mutex, and the counters.
Malloc(t, b, s) ==
    /\ Runs(t) /\ Takes(t, "idle", "place")
    /\ b \notin InUse /\ \A c \in Block : c < b => c \in InUse
    /\ Lock(t)
    /\ bytes' = bytes + s
    /\ call' = [call EXCEPT ![t] = [NoCall EXCEPT !.op = "malloc", !.size = s, !.id = b]]
    /\ UNCHANGED <<pages, current_page, page, block, mtcount, threads>>

\* heap_free: the block is not the caller's any more.
Free(t, b) ==
    /\ Runs(t) /\ Takes(t, "idle", "drop")
    /\ b \in Held /\ \A u \in Thread : call[u].id # b
    /\ LockIfMt(t)
    /\ block' = [block EXCEPT ![b] = NoBlock]
    /\ call' = [call EXCEPT ![t] = [NoCall EXCEPT !.op = "free", !.old = block[b]]]
    /\ UNCHANGED <<pages, current_page, page, bytes, mtcount, threads>>

\* heap_realloc, to another size.  Two allocations of their own are left to
\* the system's realloc.
Realloc(t, b, s) ==
    /\ Runs(t)
    /\ b \in Held /\ block[b].size # s /\ \A u \in Thread : call[u].id # b
    /\ LockIfMt(t)
    /\ call' = [call EXCEPT ![t] =
          [NoCall EXCEPT !.op = "realloc", !.size = s, !.id = b, !.old = block[b]]]
    /\ IF IsPaged(s) \/ IsPaged(block[b].size)
       THEN Takes(t, "idle", "place") /\ UNCHANGED block
       ELSE Takes(t, "idle", "stats") /\ block' = [block EXCEPT ![b].size = s]
    /\ UNCHANGED <<pages, current_page, page, bytes, mtcount, threads>>

Fits(offset, s) == offset + s + 1 < PageSize

\* i_malloc: where the block goes; i_new_page when the current page is full.
Place(t) ==
    /\ Takes(t, "place", "put")
    /\ LET s == call[t].size
       IN  IF IsPaged(s) /\ ~Fits(page[current_page].offset, s)
           THEN \E p \in Page \ pages :
                   /\ \A q \in Page \ pages : p <= q
                   /\ pages' = pages \cup {p} /\ current_page' = p
                   /\ page' = [page EXCEPT ![p] = FreshPage]
                   /\ call' = [call EXCEPT ![t].at = Header]
           ELSE /\ call' = [call EXCEPT ![t].at = IF IsPaged(s) THEN page[current_page].offset ELSE 0]
                /\ UNCHANGED <<pages, current_page, page>>
    /\ UNCHANGED <<block, bytes, mutex, mtcount, threads>>

\* i_malloc: the page counts the block, and the caller gets it.
Put(t) ==
    LET c == call[t]
        next == IF c.op = "malloc" THEN "idle" ELSE "drop"
    IN  /\ Takes(t, "put", next)
        /\ IF IsPaged(c.size)
           THEN /\ page' = [page EXCEPT ![current_page] =
                      [allocs |-> @.allocs + 1, used |-> @.used + c.size,
                       offset |-> c.at + c.size + 1]]
                /\ block' = [block EXCEPT ![c.id] =
                      [page |-> current_page, offset |-> c.at, size |-> c.size]]
           ELSE /\ block' = [block EXCEPT ![c.id] = [NoBlock EXCEPT !.size = c.size]]
                /\ UNCHANGED page
        /\ IF c.op = "malloc"
           THEN Unlock(t) /\ call' = [call EXCEPT ![t] = NoCall]
           ELSE UNCHANGED <<mutex, call>>
        /\ UNCHANGED <<pages, current_page, bytes, mtcount, threads>>

\* i_free: the page of the block, found through the pointer behind it, counts
\* one less.
Drop(t) ==
    LET old == call[t].old
        p == page[old.page]
    IN  /\ Takes(t, "drop", IF IsPaged(old.size) /\ p.allocs = 1 THEN "destroy" ELSE "stats")
        /\ page' = IF IsPaged(old.size)
                   THEN [page EXCEPT ![old.page].allocs = p.allocs - 1,
                                     ![old.page].used = p.used - old.size]
                   ELSE page
        /\ UNCHANGED <<pages, current_page, block, bytes, mutex, mtcount, threads, call>>

\* Mutant of Destroy: the current page is left as it is.
DestroyOther(t) ==
    LET p == call[t].old.page
    IN  /\ Takes(t, "destroy", "stats")
        /\ pages' = IF p # current_page THEN pages \ {p} ELSE pages
        /\ UNCHANGED <<current_page, page, block, bytes, mutex, mtcount, threads, call>>

\* i_free, when no block is left: the current page starts afresh, another one
\* leaves the list and goes back to the system.
Destroy(t) ==
    LET p == call[t].old.page
    IN  /\ Takes(t, "destroy", "stats")
        /\ page' = [page EXCEPT ![p] = FreshPage]
        /\ pages' = IF p # current_page THEN pages \ {p} ELSE pages
        /\ UNCHANGED <<current_page, block, bytes, mutex, mtcount, threads, call>>

\* The end of heap_free and of heap_realloc.
Stats(t) ==
    /\ Takes(t, "stats", "idle")
    /\ bytes' = bytes - call[t].old.size + call[t].size
    /\ Unlock(t)
    /\ call' = [call EXCEPT ![t] = NoCall]
    /\ UNCHANGED <<pages, current_page, page, block, mtcount, threads>>

HeapNext ==
    \/ StartThreads \/ JoinThreads
    \/ \E t \in Thread :
          \/ \E b \in Block, s \in Sizes : Malloc(t, b, s) \/ Realloc(t, b, s)
          \/ \E b \in Block : Free(t, b)
          \/ Place(t) \/ Put(t) \/ Drop(t) \/ Destroy(t) \/ Stats(t)

HeapSpec == HeapInit /\ [][HeapNext]_heap_vars
-----------------------------------------------------------------------------
(* Properties.                                                             *)

PageRecord  == [allocs : Int, used : Int, offset : Nat]
BlockRecord == [page : Page \cup {NoPage}, offset : Nat, size : Nat]

Call == [op : {"none", "malloc", "free", "realloc"}, size : Nat, id : Block \cup {NoId},
         old : BlockRecord, at : Nat]

\* The type invariant of the heap.
HeapTypeOK ==
    /\ pages \subseteq Page /\ current_page \in pages
    /\ page \in [Page -> PageRecord]
    /\ block \in [Block -> BlockRecord]
    /\ bytes \in Int
    /\ mutex \in Thread \cup {Nobody}
    /\ mtcount \in {0, 1}
    /\ threads \in BOOLEAN
    /\ hpc \in [Thread -> {"idle", "place", "put", "drop", "destroy", "stats"}]
    /\ call \in [Thread -> Call]

Disjoint(b, c) ==
    \/ block[b].page # block[c].page
    \/ block[b].offset + block[b].size < block[c].offset
    \/ block[c].offset + block[c].size < block[b].offset

\* README.md:27 "Multithreading. Control different nodes in parallel.": whatever
\* the threads allocate and free at the same time, the memory of a block stays its
\* own: it lies in a page the heap still has, behind the header, with its page
\* pointer, and no other block overlaps it.
BlocksAreSafe ==
    \A b \in Held : IsPaged(block[b].size) =>
        /\ block[b].page \in pages
        /\ block[b].offset >= Header
        /\ block[b].offset + block[b].size < PageSize
        /\ \A c \in Held \ {b} : Disjoint(b, c)

\* The words of all blocks of the program.
Words == UNION {{b} \X (1..block[b].size) : b \in Block}

Quiet == \A t \in Thread : hpc[t] = "idle"

\* A page goes back to the system when its last block is freed: between calls every page
\* but the current one holds a block, a current page without blocks offers all its room,
\* so that the heap never grows for nothing, and the count of _heap_finish's leak report
\* is the size of the blocks the program holds.
MemoryIsAccounted ==
    Quiet =>
        /\ \A p \in pages :
              (\A b \in Held : block[b].page # p) => p = current_page /\ page[p] = FreshPage
        /\ bytes = Cardinality(Words)
==============================================================================
