------------------------------- MODULE Streams -------------------------------
(***************************************************************************)
(* Streams: src/core/stream.c, through which nbuild collects the output of *)
(* commands, reads lines and tokens of it, and writes and copies files.    *)
(*                                                                         *)
(* A stream in memory is written and read through one buffer, which moves  *)
(* what is unread to the front or to a larger block when it is full.  The  *)
(* buffer of a stream of a file is a cache.  A scanner that has read one   *)
(* character too many puts it back into a buffer of its own.  stm_pipe     *)
(* passes bytes from one stream to another.  Here are the two of a pipe.   *)
(*                                                                         *)
(* The bytes of a stream are its numbers 1, 2, ...                         *)
(***************************************************************************)
EXTENDS Integers, Sequences, Powers

CONSTANTS
    Cache,          \* size of the cache of a file, and the first of a memory (2048 in the code)
    PipeCache,      \* bytes that stm_pipe passes at once (2048)
    FirstSizes,     \* sizes asked for new streams in memory
    FileSizes,      \* bytes of the files and blocks that are read
    MaxBytes,       \* bound on the bytes of one stream
    MaxTransfer     \* bound on the bytes of one call

ASSUME StreamAssumption ==
    /\ Cache \in Nat \ {0} /\ PipeCache \in Nat \ {0}
    /\ FirstSizes \subseteq Nat /\ FileSizes \subseteq Nat
    /\ MaxBytes \in Nat /\ MaxTransfer \in Nat

VARIABLES
    stm,        \* the streams "from" and "to"
    reading     \* the call of i_read that is under way, and of stm_pipe around it

stream_vars == <<stm, reading>>

Garbage == 0    \* what a buffer held before

\* at: the place in the calls; of: the stream that is read; size: the bytes to read;
\* data: those read so far; rest: the bytes that stm_pipe passes in its next pieces.
NoRead == [at |-> "idle", of |-> "from", size |-> 0, data |-> <<>>, rest |-> 0]

Lesser(m, n) == IF m < n THEN m ELSE n

-----------------------------------------------------------------------------
(* Buffers: cells r + 1 to w are unread.                                   *)

EmptyBuffer(size) == [cells |-> [k \in 1..size |-> Garbage], r |-> 0, w |-> 0]
Filled(s) == [cells |-> s, r |-> 0, w |-> Len(s)]
Room(b) == Len(b.cells) - b.w
Unread(b) == SubSeq(b.cells, b.r + 1, b.w)
Emptied(b) == EmptyBuffer(Len(b.cells))

\* n bytes are read.  What they leave in their cells is of no use to anyone.
Advanced(b, n) ==
    [b EXCEPT !.r = @ + n, !.cells = [k \in DOMAIN @ |-> IF k <= b.r + n THEN Garbage ELSE @[k]]]

\* Bytes behind the unread ones; the caller has seen to the room.
Buffered(b, s) ==
    [b EXCEPT !.cells = [k \in DOMAIN @ |-> IF k \in (b.w + 1)..(b.w + Len(s)) THEN s[k - b.w] ELSE @[k]],
              !.w = @ + Len(s)]

\* i_grow_buffer: room for n bytes more.
Doubled(size, need) == size * TwoTo[Doublings(size, need)]

\* Mutant of GrownBuffer: what was read is copied as well.
GrownFromStart(b, n, first) ==
    LET need == b.w - b.r + n
        size == Len(b.cells)
        kept == SubSeq(b.cells, 1, b.w - b.r)
    IN  Buffered(IF need > size THEN EmptyBuffer(Doubled(IF size > 0 THEN 2 * size ELSE first, need))
                 ELSE EmptyBuffer(size), kept)

GrownBuffer(b, n, first) ==
    LET need == b.w - b.r + n
        size == Len(b.cells)
    IN  Buffered(IF need > size THEN EmptyBuffer(Doubled(IF size > 0 THEN 2 * size ELSE first, need))
                 ELSE EmptyBuffer(size), Unread(b))

-----------------------------------------------------------------------------
(* Streams.                                                                *)

Pow2(size) == IF size = 0 THEN 0 ELSE TwoTo[Doublings(1, size)]

\* i_create_stream; file: what is left to read of a file, or what was written to it;
\* bytes and got, history: all bytes of the stream and those that were read.
Stream(kind, buf, file, bytes) ==
    [kind |-> kind, buf |-> buf, back |-> EmptyBuffer(0), end |-> FALSE, broken |-> FALSE,
     file |-> file, bytes |-> bytes, got |-> <<>>, one |-> FALSE]

FirstBytes(n) == [k \in 1..n |-> k]

\* stm_memory, stm_from_block, stm_from_file and stm_to_file.
Memories  == {Stream("memory", EmptyBuffer(Pow2(n)), <<>>, <<>>) : n \in FirstSizes}
Readables == {Stream("block", Filled(FirstBytes(n)), <<>>, FirstBytes(n)) : n \in FileSizes \ {0}}
             \cup {Stream("from_file", EmptyBuffer(Cache), FirstBytes(n), FirstBytes(n)) : n \in FileSizes}
Writables == {Stream("to_file", EmptyBuffer(Cache), <<>>, <<>>)}

StreamsInit ==
    \E from \in Memories \cup Readables, to \in Memories \cup Writables :
        /\ stm = [x \in {"from", "to"} |-> IF x = "from" THEN from ELSE to]
        /\ reading = NoRead

-----------------------------------------------------------------------------
(* Writing: the streams that can be the result.                            *)

\* i_file_write: the system may take fewer bytes, or none.
FileWritten(st, s) ==
    {[st EXCEPT !.file = @ \o SubSeq(s, 1, k), !.broken = @ \/ k < Len(s)] : k \in 0..Len(s)}

\* stm_flush.
Flushed(st) ==
    IF st.kind = "to_file" /\ st.buf.w > 0
    THEN {[f EXCEPT !.buf = Emptied(@)] : f \in FileWritten(st, Unread(st.buf))}
    ELSE {st}

\* i_write; a large piece goes past the cache.
WrittenTo(st, s) ==
    LET full == Room(st.buf) < Len(s)
        Cached(t) == [t EXCEPT !.buf = Buffered(@, s)]
        into == IF ~full THEN {Cached(st)}
                ELSE IF st.kind = "memory"
                     THEN {Cached([st EXCEPT !.buf = GrownBuffer(@, Len(s), Cache)])}
                     ELSE UNION {IF Room(f.buf) < Len(s) THEN FileWritten(f, s) ELSE {Cached(f)} :
                                    f \in Flushed(st)}
    IN  IF st.broken THEN {st}
        ELSE {[t EXCEPT !.end = FALSE, !.bytes = @ \o s, !.one = FALSE] : t \in into}

-----------------------------------------------------------------------------
(* Reading: the streams that can be the result.                            *)

\* i_from_mem_fill_cache, i_to_mem_fill_cache and i_file_fill_cache.
CacheFilled(st) ==
    LET left == st.file
        ended == [st EXCEPT !.end = TRUE]
    IN  IF st.kind # "from_file" THEN {ended}
        ELSE {[st EXCEPT !.broken = TRUE]}
             \cup (IF left = <<>> THEN {ended}
                   ELSE {[st EXCEPT !.buf = Buffered(EmptyBuffer(Cache), SubSeq(left, 1, k)),
                                    !.file = SubSeq(left, k + 1, Len(left))] :
                            k \in 1..Lesser(Cache, Len(left))})

\* n bytes of the buffer, which are the next ones of the stream.
Consumed(st, n) == [st EXCEPT !.buf = Advanced(@, n), !.got = @ \o SubSeq(Unread(st.buf), 1, n)]

\* The same of the characters put back, with which i_read begins.
TakenBack(st, n) ==
    [st EXCEPT !.back = Advanced(@, n), !.got = @ \o SubSeq(Unread(st.back), 1, n), !.one = FALSE]

\* i_read goes on with the bytes d: in its loop, or behind it when all are read or no
\* more come.
GoOn(call, st, d, more) ==
    LET ends == ~more \/ Len(d) = call.size
    IN  /\ stm' = [stm EXCEPT ![call.of] = [st EXCEPT !.one = ends /\ call.size = 1 /\ d # <<>>]]
        /\ reading' = IF ends /\ call.at = "read" THEN NoRead
                      ELSE [call EXCEPT !.data = d, !.at = IF ends THEN "write" ELSE @]

\* i_read up to its loop: what was put back comes first.
BeginRead(call) ==
    LET st   == stm[call.of]
        back == Unread(st.back)
        take == Lesser(call.size, Len(back))
    IN  IF st.end \/ st.broken THEN GoOn(call, st, <<>>, FALSE)
        ELSE GoOn(call, TakenBack(st, take), SubSeq(back, 1, take), TRUE)

\* One turn of the loop of i_read: the cache is filled when nothing is unread, and what is
\* needed of it is taken.
Turn ==
    LET st == stm[reading.of]
        Unfilled == Unread(st.buf) = <<>>
    IN  /\ reading.at \in {"read", "pipe"}
        /\ \E f \in (IF Unfilled THEN CacheFilled(st) ELSE {st}) :
              LET next == Unread(f.buf)
                  take == Lesser(reading.size - Len(reading.data), Len(next))
              IN  IF next = <<>> THEN GoOn(reading, f, reading.data, FALSE)
                  ELSE GoOn(reading, Consumed(f, take), reading.data \o SubSeq(next, 1, take), TRUE)

-----------------------------------------------------------------------------
(* Calls.  One that reads or pipes takes several steps.                    *)

Quiescent == reading.at = "idle"

\* stm_write, of the next bytes of the stream.
WriteStream(x, n) ==
    /\ Quiescent
    /\ stm[x].kind \in {"memory", "to_file"}
    /\ Len(stm[x].bytes) + n <= MaxBytes
    /\ \E st \in WrittenTo(stm[x], [k \in 1..n |-> Len(stm[x].bytes) + k]) : stm' = [stm EXCEPT ![x] = st]
    /\ UNCHANGED reading

\* stm_flush and stm_close.
FlushStream(x) ==
    /\ Quiescent
    /\ \E st \in Flushed(stm[x]) : stm' = [stm EXCEPT ![x] = st]
    /\ UNCHANGED reading

\* _stm_restore, of the one character that was read last.
Restore(x) ==
    /\ Quiescent
    /\ stm[x].one
    /\ LET st   == stm[x]
           last == Len(st.got)
           back == IF Room(st.back) < 1 THEN GrownBuffer(st.back, 1, 1) ELSE st.back
       IN  stm' = [stm EXCEPT ![x] = [st EXCEPT !.back = Buffered(back, <<st.got[last]>>),
                                                !.got = SubSeq(@, 1, last - 1), !.one = FALSE]]
    /\ UNCHANGED reading

\* stm_read, and stm_skip without the data.
ReadStream(x, n) ==
    /\ Quiescent
    /\ stm[x].kind # "to_file"
    /\ BeginRead([at |-> "read", of |-> x, size |-> n, data |-> <<>>, rest |-> 0])

\* stm_pipe: a piece of n bytes is read, and then written.
PipePiece(n) ==
    LET piece == Lesser(n, PipeCache)
    IN  BeginRead([at |-> "pipe", of |-> "from", size |-> piece, data |-> <<>>, rest |-> n - piece])

\* The callers take n from the size of the file or of the buffer.
BeginPipe(n) ==
    /\ Quiescent
    /\ n <= Len(stm["from"].bytes) - Len(stm["from"].got)
    /\ Len(stm["to"].bytes) + n <= MaxBytes
    /\ PipePiece(n)

NextPiece == reading.at = "piece" /\ PipePiece(reading.rest)

\* A piece that was not read whole is passed with what the cache held.
WritePiece ==
    LET short  == reading.size - Len(reading.data)
        padded == reading.data \o [k \in 1..short |-> Garbage]
    IN  /\ reading.at = "write"
        /\ \E st \in WrittenTo(stm["to"], padded) : stm' = [stm EXCEPT !["to"] = st]
        /\ reading' = IF reading.rest = 0 THEN NoRead
                      ELSE [NoRead EXCEPT !.at = "piece", !.rest = reading.rest]

StreamsNext ==
    \/ \E x \in {"from", "to"}, n \in 1..MaxTransfer : WriteStream(x, n) \/ ReadStream(x, n)
    \/ \E x \in {"from", "to"} : FlushStream(x) \/ Restore(x)
    \/ \E n \in 1..MaxBytes : BeginPipe(n)
    \/ Turn \/ NextPiece \/ WritePiece

StreamsSpec == StreamsInit /\ [][StreamsNext]_stream_vars

-----------------------------------------------------------------------------
\* The bytes of a stream that are not read.
Left(st) == Unread(st.back) \o Unread(st.buf) \o (IF st.kind = "from_file" THEN st.file ELSE <<>>)

\* The bytes that have left the stream.
Passed(st) == IF st.kind = "to_file" THEN st.file ELSE st.got

\* However writes, reads, characters put back and pipes alternate, and however the system
\* cuts reads and writes of files, every byte of a stream that is not broken comes out
\* once and in order; the end is seen only when nothing is left; and a pipe invents bytes
\* only when the stream it reads is broken.
StreamIsQueue ==
    /\ \A x \in DOMAIN stm :
        LET st == stm[x]
        IN  /\ st.buf.r <= st.buf.w /\ st.buf.w <= Len(st.buf.cells)
            /\ ~st.broken =>
                  /\ st.bytes = Passed(st) \o Left(st)
                  /\ st.end => Left(st) = <<>>
    /\ (\E k \in DOMAIN stm["to"].bytes : stm["to"].bytes[k] = Garbage) => stm["from"].broken
==============================================================================
