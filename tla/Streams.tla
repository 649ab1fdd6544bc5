-------------------------------- MODULE Streams -------------------------------
(***************************************************************************)
(* Bytes that are streamed.  Two routes hand a piece from process A to     *)
(* process B (vstorage/sharing.py and, with reports, sharing_tracked.py);  *)
(* two move bytes with splice() between the pipes of one process           *)
(* (vstorage/splice_stealth.py: splice_move and the streaming of a file);  *)
(* one reads a file into the pools of a ChunkedSecureBox and streams the   *)
(* box out again (from_file and stream_to of chunked_secure_box.py).       *)
(*                                                                         *)
(* The writer is A or the feeding thread, the reader B or the draining     *)
(* thread, the caller the parent process or the splicing thread.  A forked *)
(* process inherits both ends of the pipe: B writes to nobody, but as long *)
(* as it lives the pipe it reads has a writer, and A a reader.             *)
(***************************************************************************)
EXTENDS Integers, Sequences, FiniteSetsExt

CONSTANTS
    Sizes,    \* lengths of the pieces
    Drift,    \* how far a file's length may be from the one measured
    Capacity, \* bytes a pipe buffers
    CHUNK,    \* most bytes of one read, write or splice: BOX_SIZE, CHUNK, chunk_size
    BLOCK,    \* RAW_READ_SIZE
    POOL,     \* _POOL_SIZE
    Lengths,  \* lengths of compressed and encrypted chunks
    MaxHops,  \* bound: hops of A before the hand-off
    Mortal    \* processes that may die, of {"writer", "reader"}

ASSUME StreamsAssumption ==
    /\ Sizes \subseteq Nat /\ Drift \in Nat /\ MaxHops \in Nat
    /\ Capacity \in Nat \ {0} /\ CHUNK \in Nat \ {0}
    /\ BLOCK \in Nat /\ BLOCK >= CHUNK /\ POOL \in Nat /\ Lengths \subseteq Nat \ {0}
    /\ Mortal \subseteq {"writer", "reader"}

VARIABLES
    route,         \* "handoff", "tracked", "splice", "stealth" or "ingest"
    expected,      \* the length the reader or the caller counts to
    pools, chunks, \* _pools and _chunks of the box
    out,           \* the writer's boxes; a feeding thread has the bytes in one
    hops, pos,     \* hops left to the writer, bytes it has written
    src, dst,      \* the pipe it writes, and the second one of splice()
    ends,          \* who holds which end open: <<process or thread, "src_w">>, ...
    wpc, rpc, cpc, \* where writer, reader and caller are
    received,      \* the reader's bytes
    kept,          \* B's boxes
    queue,         \* result_queue
    final,         \* what the caller got from it
    remaining,     \* bytes the caller has yet to splice, or stream_to() to write
    sent,          \* chunks stream_to() has written
    error,         \* errors is not empty
    sampler        \* the sampling thread of "stealth"

writer == <<out, hops, pos, wpc, error>>
reader == <<received, kept, rpc>>
caller == <<cpc, final, remaining>>
ingest == <<pools, chunks, sent>>
setup  == <<route, expected, ingest>>
streamVars == <<setup, writer, reader, caller, src, dst, ends, queue, sampler>>

Forked  == route \in {"handoff", "tracked"}
Spliced == route \in {"splice", "stealth"}

(* Boxes: two buffers, one of them active.                                 *)

Zeros(n)  == [i \in 1 .. n |-> 0]
Box(data) == [a |-> data, b |-> Zeros(Len(data)), active |-> "a"]
bounce_once(box) == IF box.active = "a" THEN [box EXCEPT !.b = box.a, !.active = "b"]
                                        ELSE [box EXCEPT !.a = box.b, !.active = "a"]

Current(box) == IF box.active = "a" THEN box.a ELSE box.b

Piece(n) == [i \in 1 .. n |-> i]

-----------------------------------------------------------------------------
Processes == {"writer", "reader", "caller"}

StreamsTypeOK ==
    /\ route \in {"handoff", "tracked", "splice", "stealth", "ingest"} /\ expected \in Sizes
    /\ pos <= Len(Current(out)) \/ wpc \notin {"fall", "write"}
    /\ Len(src) <= Capacity /\ Len(dst) <= Capacity
    /\ ends \subseteq Processes \X {"src_r", "src_w", "dst_r", "dst_w"}
    /\ wpc \in {"fall", "write", "put", "ended", "dead"}
    /\ rpc \in {"read", "fall", "flush", "ended", "dead"}
    /\ cpc \in {"fork", "join_writer", "get", "get again", "join_reader", "join_sampler",
                "splice", "pack", "stream", "done", "raised", "failed"}
    /\ \A i \in DOMAIN pools : pools[i].cursor <= pools[i].size
    /\ hops \in 0 .. MaxHops /\ remaining \in 0 .. expected
    /\ error \in BOOLEAN /\ sampler \in {"on", "told", "off"}

InitForked ==
    /\ route \in {"handoff", "tracked"}
    /\ out = Box(Piece(expected)) /\ hops \in 0 .. MaxHops
    /\ ends = Processes \X {"src_r", "src_w"}
    /\ cpc = "fork" /\ remaining = 0 /\ sampler = "off"

\* A file may have grown or shrunk since getsize().
FileOf(lengths) == \E n \in lengths : n \in Nat /\ out = Box(Piece(n))

InitSplice ==
    /\ route \in {"splice", "stealth"}
    /\ FileOf(IF route = "splice" THEN {expected} ELSE (expected - Drift) .. (expected + Drift))
    /\ hops = 0
    /\ ends = {<<"writer", "src_w">>, <<"caller", "src_r">>, <<"caller", "dst_w">>,
               <<"caller", "dst_r">>}
    /\ cpc = "splice" /\ remaining = expected
    /\ sampler = IF route = "stealth" THEN "on" ELSE "off"

InitIngest ==
    /\ route = "ingest"
    /\ FileOf((expected - Drift) .. (expected + Drift))
    /\ hops = 0 /\ ends = {} /\ cpc = "pack" /\ remaining = expected /\ sampler = "off"

StreamsInit ==
    /\ expected \in Sizes /\ (InitForked \/ InitSplice \/ InitIngest)
    /\ pools = <<>> /\ chunks = <<>> /\ sent = 0
    /\ pos = 0 /\ src = <<>> /\ dst = <<>>
    /\ wpc = "fall" /\ rpc = "read" /\ received = <<>> /\ kept = Box(<<>>)
    /\ queue = <<>> /\ final = <<>> /\ error = FALSE

Open(end) == \E p \in Processes : <<p, end>> \in ends
Close(p, names) == ends' = ends \ ({p} \X names)

\* How much one call moves: a signal may cut it short.
Moves(left, there, room) == 1 .. Min({CHUNK, left, there, room})

-----------------------------------------------------------------------------
(* The writer: _sender_process, _feed and feed_from_file.                  *)

WriterHop ==
    /\ wpc = "fall"
    /\ \/ hops > 0 /\ out' = bounce_once(out) /\ hops' = hops - 1 /\ wpc' = wpc
       \/ hops = 0 /\ wpc' = "write" /\ UNCHANGED <<out, hops>>
    /\ UNCHANGED <<setup, pos, error, reader, caller, src, dst, ends, queue, sampler>>

Left == Len(Current(out)) - pos

\* Mutant of Write: the loop counts what it asked for, not what was written.
WriteCountsAsked ==
    /\ wpc = "write" /\ Open("src_r")
    /\ \E n \in Moves(Left, Left, Capacity - Len(src)) :
          /\ src' = src \o SubSeq(Current(out), pos + 1, pos + n)
          /\ pos' = pos + Min({CHUNK, Left})
    /\ UNCHANGED <<setup, out, hops, wpc, error, reader, caller, dst, ends, queue, sampler>>

\* os.write waits for room.
Write ==
    /\ wpc = "write" /\ Open("src_r")
    /\ \E n \in Moves(Left, Left, Capacity - Len(src)) :
          /\ src' = src \o SubSeq(Current(out), pos + 1, pos + n)
          /\ pos' = pos + n
    /\ UNCHANGED <<setup, out, hops, wpc, error, reader, caller, dst, ends, queue, sampler>>

\* A closes its end and clears its boxes; it never sees a broken pipe.
WriterCloses ==
    /\ Forked /\ wpc = "write" /\ Left = 0
    /\ out' = Box(<<>>)
    /\ IF route = "tracked" THEN wpc' = "put" /\ Close("writer", {"src_w"})
                            ELSE wpc' = "ended" /\ Close("writer", {"src_r", "src_w"})
    /\ UNCHANGED <<setup, hops, pos, error, reader, caller, src, dst, queue, sampler>>

\* A feeding thread stops when it is through, or at a broken pipe.
FeederCloses ==
    /\ Spliced /\ wpc = "write" /\ (Left = 0 \/ ~Open("src_r"))
    /\ error' = (Left > 0) /\ wpc' = "ended"
    /\ Close("writer", {"src_w"})
    /\ UNCHANGED <<setup, out, hops, pos, reader, caller, src, dst, queue, sampler>>

\* A's report fits into the queue's buffer, so A ends at once.
WriterPuts ==
    /\ wpc = "put"
    /\ queue' = Append(queue, <<"A">>)
    /\ wpc' = "ended" /\ Close("writer", {"src_r"})
    /\ UNCHANGED <<setup, out, hops, pos, error, reader, caller, src, dst, sampler>>

\* A of either hand-off, and the feeding threads, which have no hops to make.
HandoffSender  == route = "handoff" /\ (WriterHop \/ Write \/ WriterCloses)
TrackedSender  == route = "tracked" /\ (WriterHop \/ Write \/ WriterCloses \/ WriterPuts)
feed           == route = "splice" /\ (WriterHop \/ Write \/ FeederCloses)
feed_from_file == route = "stealth" /\ (WriterHop \/ Write \/ FeederCloses)

Writer == HandoffSender \/ TrackedSender \/ feed \/ feed_from_file

-----------------------------------------------------------------------------
(* The reader: _receiver_process and the two draining threads.             *)

\* B reads until it has what it expects, or to the end of the file.
Receive ==
    /\ Forked /\ rpc = "read" /\ Len(received) < expected /\ src # <<>>
    /\ LET n == Min({CHUNK, Len(src)}) IN
       /\ received' = received \o SubSeq(src, 1, n)
       /\ src' = SubSeq(src, n + 1, Len(src))
    /\ UNCHANGED <<setup, writer, kept, rpc, caller, dst, ends, queue, sampler>>

ReceiveEnds ==
    /\ Forked /\ rpc = "read"
    /\ Len(received) >= expected \/ (src = <<>> /\ ~Open("src_w"))
    /\ Close("reader", {"src_r"})
    /\ kept' = Box(received) /\ rpc' = "fall"
    /\ UNCHANGED <<setup, writer, received, caller, src, dst, queue, sampler>>

\* B's own fall lasts for a time; then it puts the result, which is larger than
\* the queue's buffer: B does not end before the caller has taken it.
ReaderFalls ==
    /\ rpc = "fall"
    /\ \E box \in {kept, bounce_once(kept), bounce_once(bounce_once(kept))} :
          kept' = box /\ queue' = Append(queue, <<"B", Current(box)>>)
    /\ rpc' = "flush"
    /\ UNCHANGED <<setup, writer, received, caller, src, dst, ends, sampler>>

ReaderEnds ==
    /\ rpc = "flush" /\ \A i \in DOMAIN queue : queue[i][1] # "B"
    /\ rpc' = "ended"
    /\ Close("reader", {"src_w"})
    /\ UNCHANGED <<setup, writer, received, kept, caller, src, dst, queue, sampler>>

\* The draining threads keep what they read, or count it.
Drain ==
    /\ Spliced /\ rpc = "read"
    /\ IF dst # <<>>
       THEN LET n == Min({CHUNK, Len(dst)}) IN
            /\ received' = received \o SubSeq(dst, 1, n)
            /\ dst' = SubSeq(dst, n + 1, Len(dst)) /\ rpc' = rpc
       ELSE ~Open("dst_w") /\ rpc' = "ended" /\ UNCHANGED <<received, dst>>
    /\ UNCHANGED <<setup, writer, kept, caller, src, ends, queue, sampler>>

\* B of either hand-off, and the draining threads.
HandoffReceiver   == route = "handoff" /\ (Receive \/ ReceiveEnds \/ ReaderFalls \/ ReaderEnds)
TrackedReceiver   == route = "tracked" /\ (Receive \/ ReceiveEnds \/ ReaderFalls \/ ReaderEnds)
drain_and_keep    == route = "splice" /\ Drain
drain_and_discard == route = "stealth" /\ Drain

Reader == HandoffReceiver \/ TrackedReceiver \/ drain_and_keep \/ drain_and_discard

\* A process dies, and with it its ends of the pipe.
WriterDies ==
    /\ Forked /\ "writer" \in Mortal /\ wpc \notin {"ended", "dead"}
    /\ wpc' = "dead" /\ Close("writer", {"src_r", "src_w"})
    /\ UNCHANGED <<setup, out, hops, pos, error, reader, caller, src, dst, queue, sampler>>

ReaderDies ==
    /\ Forked /\ "reader" \in Mortal /\ rpc \notin {"ended", "dead"}
    /\ rpc' = "dead" /\ Close("reader", {"src_r", "src_w"})
    /\ UNCHANGED <<setup, writer, received, kept, caller, src, dst, queue, sampler>>

-----------------------------------------------------------------------------
(* The caller of a hand-off: share_via_handoff and its tracked variant.    *)

\* After both are forked, the parent closes its two ends.
CallerForked ==
    /\ cpc = "fork"
    /\ Close("caller", {"src_r", "src_w"})
    /\ cpc' = IF route = "handoff" THEN "join_writer" ELSE "get"
    /\ UNCHANGED <<setup, writer, reader, final, remaining, src, dst, queue, sampler>>

\* Mutant of AfterWriter: the result is waited for after the process.
AfterWriterJoins == "join_reader"

\* What sharing.py does next; the tracked variant has got its results before.
AfterWriter == IF route = "handoff" THEN "get" ELSE "join_reader"

CallerJoinsWriter ==
    /\ Forked /\ cpc = "join_writer" /\ wpc \in {"ended", "dead"}
    /\ cpc' = AfterWriter
    /\ UNCHANGED <<setup, writer, reader, final, remaining, src, dst, ends, queue, sampler>>

\* result_queue.get(), twice in the tracked variant.
CallerGets ==
    /\ cpc \in {"get", "get again"} /\ queue # <<>>
    /\ queue' = Tail(queue)
    /\ final' = IF Head(queue)[1] = "B" THEN Head(queue) ELSE final
    /\ cpc' = IF route = "handoff" THEN "join_reader"
              ELSE IF cpc = "get" THEN "get again" ELSE "join_writer"
    /\ UNCHANGED <<setup, writer, reader, remaining, src, dst, ends, sampler>>

CallerJoinsReader ==
    /\ Forked /\ cpc = "join_reader" /\ rpc \in {"ended", "dead"}
    /\ cpc' = "done"
    /\ UNCHANGED <<setup, writer, reader, final, remaining, src, dst, ends, queue, sampler>>

-----------------------------------------------------------------------------
(* The caller of splice().                                                 *)

Splice ==
    /\ cpc = "splice" /\ src # <<>>
    /\ \E n \in Moves(remaining, Len(src), Capacity - Len(dst)) :
          /\ dst' = dst \o SubSeq(src, 1, n)
          /\ src' = SubSeq(src, n + 1, Len(src))
          /\ remaining' = remaining - n
    /\ UNCHANGED <<setup, writer, reader, cpc, final, ends, queue, sampler>>

\* Everything is moved, or splice() returned 0.
SpliceEnds ==
    /\ cpc = "splice" /\ (remaining = 0 \/ (src = <<>> /\ ~Open("src_w")))
    /\ Close("caller", {"src_r", "dst_w"}) /\ cpc' = "join_writer"
    /\ UNCHANGED <<setup, writer, reader, final, remaining, src, dst, queue, sampler>>

\* splice() raises: the finally clause runs, the rest of the call does not.
SpliceRaises ==
    /\ cpc = "splice" /\ remaining > 0
    /\ Close("caller", {"src_r", "dst_w"}) /\ cpc' = "failed"
    /\ UNCHANGED <<setup, writer, reader, final, remaining, src, dst, queue, sampler>>

MoverJoinsWriter ==
    /\ Spliced /\ cpc = "join_writer" /\ wpc = "ended"
    /\ cpc' = "join_reader"
    /\ UNCHANGED <<setup, writer, reader, final, remaining, src, dst, ends, queue, sampler>>

Return == IF error THEN "raised" ELSE "done"

MoverJoinsReader ==
    /\ Spliced /\ cpc = "join_reader" /\ rpc = "ended"
    /\ Close("caller", {"dst_r"})
    /\ IF route = "stealth" THEN cpc' = "join_sampler" /\ sampler' = "told"
                            ELSE cpc' = Return /\ sampler' = sampler
    /\ UNCHANGED <<setup, writer, reader, final, remaining, src, dst, queue>>

SamplerEnds ==
    /\ sampler = "told" /\ sampler' = "off"
    /\ UNCHANGED <<setup, writer, reader, caller, src, dst, ends, queue>>

MoverJoinsSampler ==
    /\ cpc = "join_sampler" /\ sampler = "off"
    /\ cpc' = Return
    /\ UNCHANGED <<setup, writer, reader, final, remaining, src, dst, ends, queue, sampler>>

share_via_handoff ==
    route = "handoff" /\ (CallerForked \/ CallerJoinsWriter \/ CallerGets \/ CallerJoinsReader)
share_via_handoff_tracked ==
    route = "tracked" /\ (CallerForked \/ CallerGets \/ CallerJoinsWriter \/ CallerJoinsReader)
splice_move ==
    route = "splice" /\ (Splice \/ SpliceEnds \/ MoverJoinsWriter \/ MoverJoinsReader)
measure_stealth_flow_from_file ==
    /\ route = "stealth"
    /\ Splice \/ SpliceEnds \/ MoverJoinsWriter \/ MoverJoinsReader \/ MoverJoinsSampler

Caller ==
    \/ share_via_handoff \/ share_via_handoff_tracked
    \/ splice_move \/ measure_stealth_flow_from_file

-----------------------------------------------------------------------------
(* from_file() and stream_to(), in the caller alone.                       *)

Fits(pool, length) == pool.cursor + length <= pool.size
LastPool == Len(pools)
Kept == UNCHANGED <<route, expected, out, hops, wpc, error, kept, rpc, final, src, dst, ends, queue,
                    sampler>>

\* Mutant of try_allocate: the cursor stays where it is.
try_allocate_stays(pool, length) == pool

\* The pool with length bytes more in use; the slot starts at its old cursor.
try_allocate(pool, length) == [pool EXCEPT !.cursor = @ + length]

NewPool(length) == [size |-> Max({POOL, length}), cursor |-> 0]

\* _new_chunk: into the last pool, or into a new one that is large enough.  from is
\* where in the file the chunk was read, which only the properties look at.
new_chunk(plain, length) ==
    LET fits == LastPool > 0 /\ Fits(pools[LastPool], length)
        at   == IF fits THEN LastPool ELSE LastPool + 1
        pool == IF fits THEN pools[LastPool] ELSE NewPool(length)
    IN  /\ pools' = [i \in 1 .. at |-> IF i = at THEN try_allocate(pool, length) ELSE pools[i]]
        /\ chunks' = Append(chunks, [plain |-> plain, from |-> pos, pool |-> at,
                                     offset |-> pool.cursor, length |-> length])

\* A chunk ends at chunk_size, at the end of a block, or at the end of the file.
PackChunk ==
    /\ cpc = "pack" /\ Left > 0
    /\ LET n == Min({CHUNK, BLOCK - (pos % BLOCK), Left}) IN
       /\ \E length \in Lengths : new_chunk(SubSeq(Current(out), pos + 1, pos + n), length)
       /\ pos' = pos + n
    /\ UNCHANGED <<cpc, received, remaining, sent>> /\ Kept

\* An empty file has one empty chunk.
PackEmpty ==
    /\ cpc = "pack" /\ Left = 0 /\ chunks = <<>>
    /\ \E length \in Lengths : new_chunk(<<>>, length)
    /\ UNCHANGED <<pos, cpc, received, remaining, sent>> /\ Kept

PackEnds ==
    /\ cpc = "pack" /\ Left = 0 /\ chunks # <<>>
    /\ cpc' = "stream"
    /\ UNCHANGED <<ingest, pos, received, remaining>> /\ Kept

from_file == PackChunk \/ PackEmpty \/ PackEnds

\* Mutant of stream_chunk: whole chunks are written.
stream_chunk_whole ==
    /\ cpc = "stream" /\ sent < Len(chunks) /\ remaining > 0
    /\ received' = received \o chunks[sent + 1].plain
    /\ remaining' = remaining - Min({Len(chunks[sent + 1].plain), remaining})
    /\ sent' = sent + 1
    /\ UNCHANGED <<pools, chunks, pos, cpc>> /\ Kept

\* One round of the loop of stream_to(): a chunk, or what of it _data_len leaves over.
stream_chunk ==
    /\ cpc = "stream" /\ sent < Len(chunks) /\ remaining > 0
    /\ LET n == Min({Len(chunks[sent + 1].plain), remaining}) IN
       /\ received' = received \o SubSeq(chunks[sent + 1].plain, 1, n)
       /\ remaining' = remaining - n
    /\ sent' = sent + 1
    /\ UNCHANGED <<pools, chunks, pos, cpc>> /\ Kept

\* The chunks are through, or _data_len is.
StreamEnds ==
    /\ cpc = "stream" /\ (sent = Len(chunks) \/ remaining = 0)
    /\ cpc' = "done"
    /\ UNCHANGED <<ingest, pos, received, remaining>> /\ Kept

stream_to == stream_chunk \/ StreamEnds

-----------------------------------------------------------------------------
StreamsNext ==
    \/ Writer \/ Reader \/ Caller \/ SamplerEnds \/ SpliceRaises \/ WriterDies \/ ReaderDies
    \/ from_file \/ stream_to

\* Processes and threads run; nobody has to die, and splice() need not fail.
StreamsSpec ==
    /\ StreamsInit /\ [][StreamsNext]_streamVars
    /\ WF_streamVars(Writer) /\ WF_streamVars(Reader) /\ WF_streamVars(Caller)
    /\ WF_streamVars(SamplerEnds)
    /\ WF_streamVars(from_file \/ stream_to)

-----------------------------------------------------------------------------
(* Properties.                                                             *)

\* Up to where in the file the first i chunks go.
End(i) == IF i = 0 THEN 0 ELSE chunks[i].from + Len(chunks[i].plain)

\* The chunks of a box are its file, one after the other.
ChunksInOrder ==
    /\ pos = End(Len(chunks))
    /\ \A i \in DOMAIN chunks :
         /\ chunks[i].from = End(i - 1)
         /\ chunks[i].plain = SubSeq(Piece(pos), chunks[i].from + 1, End(i))

\* Bytes cross the pipes whole and in order, however the calls cut them up:
\* what the reader has and what is under way is what was written, and the chunks of
\* a box are what was read of its file.
InTransit ==
    /\ StreamsTypeOK
    /\ IF route = "ingest" THEN ChunksInOrder ELSE received \o dst \o src = Piece(pos)

\* A hand-off that returns gives the caller the piece, byte by byte, unless a
\* process died under it; splice_move() returns its argument, and a file reaches
\* the far end, or comes out of its box, up to the length that was measured.
BytePerfect ==
    cpc = "done" =>
        IF Forked THEN wpc = "dead" \/ rpc = "dead" \/ final = <<"B", Piece(expected)>>
        ELSE received = Piece(Min({expected, Len(Current(out))}))

\* Chunks never share bytes of a pool and never reach past its end, whatever their
\* lengths: re-encrypting one in place leaves the others alone.
SlotsApart ==
    \A i \in DOMAIN chunks :
        /\ chunks[i].offset + chunks[i].length <= pools[chunks[i].pool].size
        /\ \A j \in 1 .. i - 1 : chunks[j].pool = chunks[i].pool =>
               chunks[j].offset + chunks[j].length <= chunks[i].offset

\* No call that returns leaves an end of a pipe open in the caller.
EndsClosed == cpc \in {"done", "raised"} => \A end \in {"src_r", "src_w", "dst_r", "dst_w"} :
                                               <<"caller", end>> \notin ends

\* A call that returns has delivered the whole piece and given back every descriptor.
Delivered == BytePerfect /\ EndsClosed

\* Every call returns or raises, although the pieces are larger than the pipes and a
\* splice() may fail: as long as both processes live, and also if A dies after its last
\* byte (without a report to make).  Nothing is claimed of a hand-off in which B died, A
\* died with bytes to write, which B waits for holding the pipe open itself, or a tracked
\* A died: those hang.
CallReturns ==
    <>(\/ cpc \in {"done", "raised", "failed"}
       \/ rpc = "dead"
       \/ wpc = "dead" /\ (pos < expected \/ route = "tracked"))

\* The threads of a splice end even if splice() fails or the file has grown; a
\* failure leaves only the sampling thread running.
ThreadsEnd ==
    Spliced ~> wpc = "ended" /\ rpc = "ended" /\ (sampler = "off" \/ cpc = "failed")

\* A call returns, or fails, unless one of the deaths that CallReturns names hangs the
\* hand-off, and the threads of a splice() end with it.
CallsEnd == CallReturns /\ ThreadsEnd
=============================================================================
