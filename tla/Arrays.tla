------------------------------- MODULE Arrays --------------------------------
(***************************************************************************)
(* Dynamic arrays, on which every list of nbuild is built: src/core/array.c *)
(* with the sort of src/sewer/qsort.c and the search of src/sewer/blib.c.  *)
(*                                                                         *)
(* An array keeps its elements in one block of a power of two of them, at  *)
(* least eight, that is allocated anew when the number of elements leaves  *)
(* it or the next smaller would do.  Numbers have Width bits.  Elements    *)
(* are the numbers by which they are compared.                             *)
(*                                                                         *)
(* A sort and a binary search are several steps, those of their loops.     *)
(***************************************************************************)
EXTENDS Integers, Sequences, FiniteSets, FiniteSetsExt, Powers

CONSTANTS
    Width,          \* bits of a number (32 in the code)
    ElemSize,       \* bytes of an element
    Contents,       \* the arrays that are read from a stream to begin with
    Blocks,         \* the elements that one call adds
    MaxElems,       \* bound on the elements of an array
    MaxArrayCalls   \* bound on the calls

MinAllocs == 8

\* The sizes of all blocks are below 2^Width.
ASSUME ArrayAssumption ==
    /\ Width \in Nat \ {0} /\ ElemSize \in Nat \ {0} /\ MaxElems \in Nat
    /\ 2 * MaxElems * ElemSize <= TwoTo[Width] /\ MinAllocs * ElemSize < TwoTo[Width]
    /\ Blocks \subseteq Seq(Int) /\ Contents \subseteq Seq(Int)
    /\ \A s \in Contents : Len(s) <= MaxElems

VARIABLES
    cells,      \* the block: index -> element
    allocs,     \* elements for which the block was allocated
    used,       \* elements in use
    sort,       \* the sort that is under way
    stack,      \* its parts to be sorted later
    search,     \* the binary search that is under way
    contents,   \* history: the sequence of elements the calls should have made
    answer,     \* the last search, if nothing was done since
    array_calls \* history: calls so far

sorting_vars == <<sort, stack, search>>
array_vars == <<cells, allocs, used, sorting_vars, contents, answer, array_calls>>

Junk == -1                  \* what new memory holds
ArrayEnd == TwoTo[Width] - 1 \* UINT32_MAX, the position behind the last element
NoAnswer == [known |-> FALSE, key |-> 0, found |-> FALSE, pos |-> 0]
Answer(key, found, pos) == [known |-> TRUE, key |-> key, found |-> found, pos |-> pos]

\* at: the place in _qsort_ex; the others are its pointers, as indices, and run that of
\* the insertion sort.
NoSort == [at |-> "idle", lo |-> 0, hi |-> 0, mid |-> 0, left |-> 0, right |-> 0, run |-> 0, top |-> 0]
NoSearch == [at |-> "idle", key |-> 0, st |-> 0, ed |-> 0]

-----------------------------------------------------------------------------
(* The block.                                                              *)

\* i_next_pow2, with the minimum.
NextPow2(n) ==
    IF n = 0 \/ n > TwoTo[Width - 1] THEN 0 ELSE TwoTo[Doublings(1, n)]
Needed(n) == Max({NextPow2(n), MinAllocs})

\* A block for n elements that begins with those of another.
NewBlock(n, old) ==
    [k \in 0..(((n * ElemSize) % TwoTo[Width]) \div ElemSize - 1) |->
        IF k \in DOMAIN old THEN old[k] ELSE Junk]

\* A block with elements s from an index on.  Elements outside of it are lost.
Stored(block, at, s) ==
    [k \in DOMAIN block |-> IF k \in at..(at + Len(s) - 1) THEN s[k - at + 1] ELSE block[k]]

\* The n elements of a block from an index on.
Taken(block, at, n) ==
    [k \in 1..n |-> IF at + k - 1 \in DOMAIN block THEN block[at + k - 1] ELSE Junk]

\* i_grow_array and i_shrink_array: the block for n elements.
Grown(n)  == IF Needed(n) > allocs THEN NewBlock(Needed(n), cells) ELSE cells
Shrunk(block, n) == IF Needed(n) < allocs THEN NewBlock(Needed(n), block) ELSE block

\* A call that is one step.
BeginCall == sort.at = "idle" /\ search.at = "idle" /\ array_calls < MaxArrayCalls /\ array_calls' = array_calls + 1
ArrayCall == BeginCall /\ UNCHANGED sorting_vars

\* At the bottom of the stack is a part of NULL pointers.
StackSize == Width  \* CHAR_BIT * sizeof(uint32_t)
EmptyStack == [k \in 0..(StackSize - 1) |-> [lo |-> -1, hi |-> -1]]

-----------------------------------------------------------------------------
(* Changes.                                                                *)

\* array_read.
ArrayInit ==
    /\ contents \in Contents
    /\ used = Len(contents)
    /\ allocs = Needed(used)
    /\ cells = Stored(NewBlock(allocs, <<>>), 0, contents)
    /\ sort = NoSort
    /\ stack = EmptyStack
    /\ search = NoSearch
    /\ answer = NoAnswer
    /\ array_calls = 0

\* array_insert and array_insert0 (elements that are 0), and what their caller stores.
InsertElems(pos, s) ==
    LET at == IF pos = ArrayEnd THEN used ELSE pos
        n  == used + Len(s)
        moved == Stored(Grown(n), at + Len(s), Taken(Grown(n), at, used - at))
    IN  /\ ArrayCall
        /\ n <= MaxElems
        /\ at <= used
        /\ cells' = Stored(moved, at, s)
        /\ allocs' = Max({allocs, Needed(n)})
        /\ used' = n
        /\ contents' = SubSeq(contents, 1, at) \o s \o SubSeq(contents, at + 1, used)
        /\ answer' = NoAnswer

\* array_join, with another array.
JoinElems(s) ==
    /\ ArrayCall
    /\ used + Len(s) <= MaxElems
    /\ cells' = Stored(Grown(used + Len(s)), used, s)
    /\ allocs' = Max({allocs, Needed(used + Len(s))})
    /\ used' = used + Len(s)
    /\ contents' = contents \o s
    /\ answer' = NoAnswer

\* Mutant of AfterDelete: the block is made smaller first.
DeleteLate(at, n) ==
    LET block == Shrunk(cells, used - n)
    IN  Stored(block, at, Taken(block, at + n, used - (at + n)))

\* i_delete_elems of array_delete and array_pop: the elements move before the block.
AfterDelete(at, n) ==
    Shrunk(Stored(cells, at, Taken(cells, at + n, used - (at + n))), used - n)

DeleteElems(at, n) ==
    /\ ArrayCall
    /\ at + n <= used
    /\ cells' = AfterDelete(at, n)
    /\ allocs' = Min({allocs, Needed(used - n)})
    /\ used' = used - n
    /\ contents' = SubSeq(contents, 1, at) \o SubSeq(contents, at + n + 1, used)
    /\ answer' = NoAnswer

\* array_clear.
ClearArray ==
    /\ ArrayCall
    /\ cells' = IF allocs # MinAllocs THEN NewBlock(MinAllocs, cells) ELSE cells
    /\ allocs' = MinAllocs
    /\ used' = 0
    /\ contents' = <<>>
    /\ answer' = NoAnswer

\* array_copy, and array_destroy of the original.
CopyArray ==
    /\ ArrayCall
    /\ cells' = Stored(NewBlock(allocs, <<>>), 0, Taken(cells, 0, used))
    /\ UNCHANGED <<allocs, used, contents, answer>>

-----------------------------------------------------------------------------
(* array_sort: _qsort_ex.                                                  *)

MaxThresh == 4

Swapped(a, m, n) == [a EXCEPT ![m] = a[n], ![n] = a[m]]
SwapIfLess(a, m, n) == IF a[m] < a[n] THEN Swapped(a, m, n) ELSE a

\* The first, the middle and the last element in order; the middle one is the pivot.
MedianOfThree(a, lo, mid, hi) ==
    LET b == SwapIfLess(a, mid, lo)
    IN  IF b[hi] < b[mid] THEN SwapIfLess(Swapped(b, mid, hi), mid, lo) ELSE b

\* Element n goes to an index, and those from there on one further.
Shifted(a, at, n) ==
    [k \in DOMAIN a |-> IF k = at THEN a[n] ELSE IF k \in (at + 1)..n THEN a[k - 1] ELSE a[k]]

\* The elements of a sequence in order: at n is the one with less than n smaller ones, and
\* at least n not greater.
Ordered(s) ==
    [n \in DOMAIN s |-> CHOOSE x \in {s[k] : k \in DOMAIN s} :
        /\ Cardinality({k \in DOMAIN s : s[k] < x}) < n
        /\ n <= Cardinality({k \in DOMAIN s : s[k] <= x})]

\* A step of the sort, which nobody sees the array in the middle of.
SortStep(at) == sort.at = at /\ UNCHANGED <<allocs, used, search, answer, array_calls>>

SortArray ==
    /\ BeginCall
    /\ sort' = IF used = 0 THEN NoSort
               ELSE IF used <= MaxThresh THEN [NoSort EXCEPT !.at = "least"]
               ELSE [NoSort EXCEPT !.at = "median", !.hi = used - 1, !.top = 1]
    /\ stack' = EmptyStack
    /\ answer' = NoAnswer
    /\ UNCHANGED <<cells, allocs, used, search, contents>>

\* The pivot of the part from lo to hi.
Median ==
    LET mid == sort.lo + (sort.hi - sort.lo) \div 2
    IN  /\ SortStep("median")
        /\ cells' = MedianOfThree(cells, sort.lo, mid, sort.hi)
        /\ sort' = [sort EXCEPT !.at = "walls", !.mid = mid, !.left = sort.lo + 1, !.right = sort.hi - 1]
        /\ UNCHANGED <<stack, contents>>

\* One turn of "collapse the walls".  The scans look at no bound.
CollapseWalls ==
    LET mid   == sort.mid
        left  == Min({k \in sort.left..(used - 1) : ~(cells[k] < cells[mid])})
        right == Max({k \in 0..sort.right : ~(cells[mid] < cells[k])})
    IN  /\ SortStep("walls")
        /\ cells' = IF left < right THEN Swapped(cells, left, right) ELSE cells
        /\ sort' = IF left > right THEN [sort EXCEPT !.at = "split", !.left = left, !.right = right]
                   ELSE [sort EXCEPT !.at = IF left + 1 <= right - 1 THEN @ ELSE "split",
                                     !.mid = IF mid = left THEN right ELSE IF mid = right THEN left ELSE mid,
                                     !.left = left + 1, !.right = right - 1]
        /\ UNCHANGED <<stack, contents>>

\* The two parts: those up to the threshold are left as they are, and of two large ones the
\* larger is pushed.
Split ==
    LET one == [lo |-> sort.lo, hi |-> sort.right]
        two == [lo |-> sort.left, hi |-> sort.hi]
        Size(p) == p.hi - p.lo
        Large(p) == Size(p) > MaxThresh
        GoOn(p, top) == [NoSort EXCEPT !.at = "median", !.lo = p.lo, !.hi = p.hi, !.top = top]
        Push(p) == stack' = [stack EXCEPT ![sort.top] = p]
        top == sort.top - 1
    IN  /\ SortStep("split")
        /\ \/ /\ ~Large(one) /\ ~Large(two)
              /\ sort' = IF top = 0 THEN [NoSort EXCEPT !.at = "least"] ELSE GoOn(stack[top], top)
              /\ UNCHANGED stack
           \/ Large(one) /\ ~Large(two) /\ sort' = GoOn(one, sort.top) /\ UNCHANGED stack
           \/ Large(two) /\ ~Large(one) /\ sort' = GoOn(two, sort.top) /\ UNCHANGED stack
           \/ /\ Large(one) /\ Large(two)
              /\ IF Size(one) > Size(two) THEN Push(one) /\ sort' = GoOn(two, sort.top + 1)
                 ELSE Push(two) /\ sort' = GoOn(one, sort.top + 1)
        /\ UNCHANGED <<cells, contents>>

\* The least of the first elements goes to the front.
LeastFirst ==
    LET first == 0..Min({used - 1, MaxThresh})
        least == Min({k \in first : \A m \in first : cells[k] <= cells[m]})
    IN  /\ SortStep("least")
        /\ cells' = Swapped(cells, least, 0)
        /\ sort' = [NoSort EXCEPT !.at = "insert", !.run = 2]
        /\ UNCHANGED <<stack, contents>>

\* An element goes behind the last one before it that is not greater.  Again the scan looks
\* at no bound.
InsertRun ==
    LET run == sort.run
        at  == Max({k \in 0..(run - 1) : ~(cells[run] < cells[k])}) + 1
    IN  /\ SortStep("insert")
        /\ run < used
        /\ cells' = Shifted(cells, at, run)
        /\ sort' = [sort EXCEPT !.run = run + 1]
        /\ UNCHANGED <<stack, contents>>

EndSort ==
    /\ SortStep("insert")
    /\ sort.run >= used
    /\ sort' = NoSort
    /\ contents' = Ordered(contents)
    /\ UNCHANGED <<cells, stack>>

-----------------------------------------------------------------------------
(* Searches.  Indices begin at 0.                                          *)

\* array_search.
LinearSearch(key) ==
    LET places == {k \in 0..(used - 1) : cells[k] = key}
    IN  /\ ArrayCall
        /\ answer' = IF places # {} THEN Answer(key, TRUE, Min(places)) ELSE Answer(key, FALSE, ArrayEnd)
        /\ UNCHANGED <<cells, allocs, used, contents>>

\* array_bsearch: the index of the key, or the one it should be inserted at.  The elements
\* are in order.
BinarySearch(key) ==
    LET last == used - 1
        Found(found, pos) == search' = NoSearch /\ answer' = Answer(key, found, pos)
    IN  /\ BeginCall
        /\ \A k \in 1..(used - 1) : contents[k] <= contents[k + 1]
        /\ IF used = 0 THEN Found(FALSE, 0)
           ELSE \/ cells[0] > key /\ Found(FALSE, 0)
                \/ cells[0] = key /\ Found(TRUE, 0)
                \/ cells[0] < key /\ cells[last] < key /\ Found(FALSE, used)
                \/ cells[0] < key /\ cells[last] = key /\ Found(TRUE, last)
                \/ /\ cells[0] < key /\ cells[last] > key
                   /\ search' = [at |-> "halve", key |-> key, st |-> 0, ed |-> last]
                   /\ answer' = NoAnswer
        /\ UNCHANGED <<cells, allocs, used, sort, stack, contents>>

\* One turn of the loop of blib_bsearch.
Halve ==
    LET mid == (search.ed + search.st) \div 2
        Found(found, pos) == search' = NoSearch /\ answer' = Answer(search.key, found, pos)
    IN  /\ search.at = "halve"
        /\ IF search.ed - search.st = 1 THEN Found(FALSE, search.st + 1)
           ELSE \/ cells[mid] < search.key /\ search' = [search EXCEPT !.st = mid] /\ UNCHANGED answer
                \/ cells[mid] > search.key /\ search' = [search EXCEPT !.ed = mid] /\ UNCHANGED answer
                \/ cells[mid] = search.key /\ Found(TRUE, mid)
        /\ UNCHANGED <<cells, allocs, used, sort, stack, contents, array_calls>>

Keys == UNION {{s[k] : k \in DOMAIN s} : s \in Blocks}

ArrayNext ==
    \/ \E s \in Blocks : JoinElems(s) \/ \E pos \in 0..used \cup {ArrayEnd} : InsertElems(pos, s)
    \/ \E at \in 0..(used - 1), n \in 1..used : DeleteElems(at, n)
    \/ ClearArray \/ CopyArray
    \/ SortArray \/ Median \/ CollapseWalls \/ Split \/ LeastFirst \/ InsertRun \/ EndSort
    \/ \E key \in Keys : LinearSearch(key) \/ BinarySearch(key)
    \/ Halve

ArraySpec == ArrayInit /\ [][ArrayNext]_array_vars

-----------------------------------------------------------------------------
\* A search answers for the sequence: an index of the key; if there is none, the number of
\* smaller elements, or the mark that a linear search gives.
AnswerIsRight ==
    answer.known =>
        IF answer.found THEN answer.pos < used /\ contents[answer.pos + 1] = answer.key
        ELSE /\ \A k \in 1..used : contents[k] # answer.key
             /\ answer.pos # ArrayEnd => \A k \in 1..used : contents[k] < answer.key <=> k <= answer.pos

\* The scans of a sort, which look at no bound, end within their part or before the element
\* they insert, and its stack has room.
SortStaysInside ==
    /\ sort.at = "walls" =>
        /\ \E k \in sort.left..sort.hi : ~(cells[k] < cells[sort.mid])
        /\ \E k \in sort.lo..sort.right : ~(cells[sort.mid] < cells[k])
    /\ sort.at = "insert" /\ sort.run < used => \E k \in 0..(sort.run - 1) : ~(cells[sort.run] < cells[k])
    /\ sort.top <= StackSize

\* Through any calls, with the block allocated anew up and down, an array holds the
\* sequence the calls describe, its block is large enough and at most twice too large, a
\* sort orders it without loss and stays inside of it, and searches find what is there.
ArrayIsSequence ==
    /\ used = Len(contents)
    /\ used <= allocs /\ (allocs = MinAllocs \/ allocs < 2 * used)
    /\ sort.at = "idle" => Taken(cells, 0, used) = contents
    /\ SortStaysInside
    /\ AnswerIsRight
==============================================================================
