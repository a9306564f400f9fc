---------------------------- MODULE CacheBuffer ----------------------------
(***************************************************************************)
(* cache_buffer: the pool of fixed-size chunks through which one thread    *)
(* hands bytes to another.  Two ProducerConsumerQueues run in opposite     *)
(* directions: cacheQ (_cache_buffer) brings empty chunks to the producer, *)
(* dataQ (_data_buffer) brings filled ones to the consumer.  A thread      *)
(* works on the front chunk in place, accounts for what it changed, and    *)
(* rotates the chunk to the other queue: a read() of one queue followed    *)
(* by a write() to the other.  Each step is one call on a queue (atomic,   *)
(* as ProducerConsumerQueue implements BoundedFifo), one update of the     *)
(* atomic byte count, or the work of one thread on the chunk it holds.     *)
(*                                                                         *)
(* Bytes are numbered in the order in which the producer puts them.        *)
(***************************************************************************)
EXTENDS Integers, Sequences, FiniteSets, Sums

CONSTANTS BufferSizeCount,  \* _buffer_size_count: chunks in the pool
          ElemSize,         \* _elem_size: bytes a chunk holds
          StreamLength,     \* bound: bytes the producer puts in a behaviour
          MaxRequest        \* bound: bytes one call of the consumer asks for

ASSUME CountAssumption == BufferSizeCount \in Nat /\ BufferSizeCount >= 1
ASSUME SizesAssumption == /\ ElemSize \in Nat /\ ElemSize >= 1
                          /\ StreamLength \in Nat /\ MaxRequest \in Nat

VARIABLES
  cacheQ, dataQ,        \* the two queues, front first
  contents,             \* the circular_buffer of each chunk
  total,                \* _total_bytes_in_buffer
  cacheLast, dataLast,  \* _cache_last_size, _data_last_size
  pPc, pRotate, pHand,  \* the producer: step, rotate argument, val of rotate_cache
  cPc, cOp, cWant, cHand, \* the consumer: step, call, bytes to go, val of rotate_data
  next,                 \* the number of the next byte the producer puts
  output,               \* what the last memcpy of the consumer copied out
  lost                  \* chunks whose last reference was dropped

pVars == <<cacheLast, pPc, pRotate, pHand, next>>
cVars == <<dataLast, cPc, cOp, cWant, cHand, output>>
vars  == <<cacheQ, dataQ, contents, total, lost, pVars, cVars>>

Chunk   == 1 .. BufferSizeCount
NoChunk == 0

\* Both queues are built with _buffer_size_count + 1 slots.
QueueCapacity == BufferSizeCount

Room(q) == Len(q) < QueueCapacity

\* init_buffer(): the pool is created full of empty chunks in _cache_buffer.
Init ==
  /\ cacheQ = [i \in 1 .. BufferSizeCount |-> i] /\ dataQ = <<>>
  /\ contents = [c \in Chunk |-> <<>>]
  /\ total = 0 /\ lost = {}
  /\ cacheLast = 0 /\ pPc = "idle" /\ pRotate = FALSE /\ pHand = NoChunk /\ next = 0
  /\ dataLast = 0 /\ cPc = "idle" /\ cOp = "none" /\ cWant = 0 /\ cHand = NoChunk
  /\ output = <<>>

-----------------------------------------------------------------------------
(* The producer: get_cache_ptr(), filling, put_cache_ptr(rotate).          *)

\* Mutant of GetCachePtr: the size of the chunk is not recorded.
GetCachePtrNoSize ==
  /\ pPc = "idle" /\ cacheQ # <<>>
  /\ pPc' = "filling"
  /\ UNCHANGED <<cacheQ, dataQ, contents, total, lost, cacheLast, pRotate, pHand, next, cVars>>

GetCachePtr ==
  /\ pPc = "idle" /\ cacheQ # <<>>
  /\ cacheLast' = Len(contents[Head(cacheQ)])
  /\ pPc' = "filling"
  /\ UNCHANGED <<cacheQ, dataQ, contents, total, lost, pRotate, pHand, next, cVars>>

\* Mutant of Fill: the chunk is filled without regard to its capacity.
FillOverfull ==
  /\ pPc = "filling"
  /\ \E n \in 0 .. StreamLength - next, rotate \in BOOLEAN :
       /\ contents' = [contents EXCEPT ![Head(cacheQ)] =
                         @ \o [i \in 1 .. n |-> next + i - 1]]
       /\ next' = next + n
       /\ pRotate' = rotate
  /\ pPc' = "put"
  /\ UNCHANGED <<cacheQ, dataQ, total, lost, cacheLast, pHand, cVars>>

\* A plugin appends at most reserve() bytes and asks for rotation when its
\* input ends or the rest of the chunk is too small; with no byte and rotation
\* it is sync_cache(), or a read at the end of the file.
Fill ==
  /\ pPc = "filling"
  /\ \E n \in 0 .. StreamLength - next, rotate \in BOOLEAN :
       /\ Len(contents[Head(cacheQ)]) + n <= ElemSize
       /\ contents' = [contents EXCEPT ![Head(cacheQ)] =
                         @ \o [i \in 1 .. n |-> next + i - 1]]
       /\ next' = next + n
       /\ pRotate' = rotate
  /\ pPc' = "put"
  /\ UNCHANGED <<cacheQ, dataQ, total, lost, cacheLast, pHand, cVars>>

\* clear_cache(): a seek throws the unrotated bytes of the front chunk away.
ClearCache ==
  /\ pPc = "filling"
  /\ contents' = [contents EXCEPT ![Head(cacheQ)] = <<>>]
  /\ pRotate' = FALSE
  /\ pPc' = "put"
  /\ UNCHANGED <<cacheQ, dataQ, total, lost, cacheLast, pHand, next, cVars>>

\* put_gen_ptr(): account for the bytes, then rotate a full chunk or on demand.
PutCachePtr ==
  /\ pPc = "put"
  /\ LET size == Len(contents[Head(cacheQ)])
     IN /\ total' = total + (size - cacheLast)
        /\ pPc' = IF size = ElemSize \/ pRotate THEN "rotate" ELSE "idle"
  /\ UNCHANGED <<cacheQ, dataQ, contents, lost, cacheLast, pRotate, pHand, next, cVars>>

\* Mutant of RotateCacheRead: an empty chunk is passed on like a filled one.
RotateCacheReadAny ==
  /\ pPc = "rotate"
  /\ cacheQ' = Tail(cacheQ)
  /\ pHand' = Head(cacheQ) /\ pPc' = "pass" /\ lost' = lost
  /\ UNCHANGED <<dataQ, contents, total, cacheLast, pRotate, next, cVars>>

\* rotate_cache(), the read(): an empty chunk is not passed on, and as val
\* held the last reference to it, it is gone.
RotateCacheRead ==
  /\ pPc = "rotate"
  /\ cacheQ' = Tail(cacheQ)
  /\ IF contents[Head(cacheQ)] = <<>>
       THEN /\ lost' = lost \cup {Head(cacheQ)}
            /\ pPc' = "idle" /\ UNCHANGED pHand
       ELSE /\ pHand' = Head(cacheQ)
            /\ pPc' = "pass" /\ UNCHANGED lost
  /\ UNCHANGED <<dataQ, contents, total, cacheLast, pRotate, next, cVars>>

\* rotate_cache(), the write(), whose result is ignored.
RotateCacheWrite ==
  /\ pPc = "pass"
  /\ IF Room(dataQ)
       THEN dataQ' = Append(dataQ, pHand) /\ UNCHANGED lost
       ELSE lost' = lost \cup {pHand} /\ UNCHANGED dataQ
  /\ pHand' = NoChunk /\ pPc' = "idle"
  /\ UNCHANGED <<cacheQ, contents, total, cacheLast, pRotate, next, cVars>>

-----------------------------------------------------------------------------
(* The consumer: write_into_raw_buffer(), discard_data_upto() and          *)
(* clear_data(), each a loop of get_data_ptr(), work and put_data_ptr().   *)

Call(op, want) ==
  /\ cPc = "idle"
  /\ cPc' = "get" /\ cOp' = op /\ cWant' = want
  /\ UNCHANGED <<cacheQ, dataQ, contents, total, lost, pVars, dataLast, cHand, output>>

WriteIntoRawBuffer == \E size \in 1 .. MaxRequest : Call("read", size)

DiscardDataUpto == \E seekPoint \in 1 .. MaxRequest : Call("discard", seekPoint)

ClearData == Call("clear", 0)

\* write_into_raw_buffer() and clear_data() return when there is no data;
\* discard_data_upto() polls until there is.
DataEmpty ==
  /\ cPc = "get" /\ cOp # "discard" /\ dataQ = <<>>
  /\ cPc' = "idle" /\ cOp' = "none" /\ cWant' = 0
  /\ UNCHANGED <<cacheQ, dataQ, contents, total, lost, pVars, dataLast, cHand, output>>

GetDataPtr ==
  /\ cPc = "get" /\ dataQ # <<>>
  /\ dataLast' = Len(contents[Head(dataQ)])
  /\ cPc' = "using"
  /\ UNCHANGED <<cacheQ, dataQ, contents, total, lost, pVars, cOp, cWant, cHand, output>>

\* get_circ_buf_enough(), memcpy and erase_begin(): the first bytes of the
\* chunk, as many as are wanted and there, are copied out or dropped.
EraseBegin ==
  /\ cPc = "using" /\ cOp # "clear"
  /\ LET front == contents[Head(dataQ)]
         n == IF Len(front) > cWant THEN cWant ELSE Len(front)
     IN /\ contents' = [contents EXCEPT ![Head(dataQ)] = SubSeq(front, n + 1, Len(front))]
        /\ output' = IF cOp = "read" THEN SubSeq(front, 1, n) ELSE output
        /\ cWant' = cWant - n
  /\ cPc' = "put"
  /\ UNCHANGED <<cacheQ, dataQ, total, lost, pVars, dataLast, cOp, cHand>>

ClearFront ==
  /\ cPc = "using" /\ cOp = "clear"
  /\ contents' = [contents EXCEPT ![Head(dataQ)] = <<>>]
  /\ cPc' = "put"
  /\ UNCHANGED <<cacheQ, dataQ, total, lost, pVars, dataLast, cOp, cWant, cHand, output>>

Return == /\ cPc' = "idle" /\ cOp' = "none" /\ cWant' = 0

\* After the put: recurse for the rest of the bytes, look for another chunk to
\* clear, or return.
Continue == IF cOp = "clear" \/ cWant > 0
              THEN cPc' = "get" /\ UNCHANGED <<cOp, cWant>>
              ELSE Return

\* Mutant of PutDataPtr: the test that put_cache_ptr() passes, full(), is used.
PutDataPtrFull ==
  /\ cPc = "put"
  /\ LET size == Len(contents[Head(dataQ)])
     IN /\ total' = total + (size - dataLast)
        /\ IF size # 0 \/ cOp = "clear"
             THEN cPc' = "rotate" /\ UNCHANGED <<cOp, cWant>>
             ELSE Continue
  /\ UNCHANGED <<cacheQ, dataQ, contents, lost, pVars, dataLast, cHand, output>>

\* put_gen_ptr(): account for the bytes, then rotate an empty chunk or on demand.
PutDataPtr ==
  /\ cPc = "put"
  /\ LET size == Len(contents[Head(dataQ)])
     IN /\ total' = total + (size - dataLast)
        /\ IF size = 0 \/ cOp = "clear"
             THEN cPc' = "rotate" /\ UNCHANGED <<cOp, cWant>>
             ELSE Continue
  /\ UNCHANGED <<cacheQ, dataQ, contents, lost, pVars, dataLast, cHand, output>>

\* Mutant of RotateDataRead: the chunk is looked at with frontPtr() and not
\* removed.
RotateDataPeek ==
  /\ cPc = "rotate"
  /\ cHand' = Head(dataQ)
  /\ cPc' = "recycle"
  /\ UNCHANGED <<cacheQ, dataQ, contents, total, lost, pVars, dataLast, cOp, cWant, output>>

\* rotate_data(), the read()
RotateDataRead ==
  /\ cPc = "rotate"
  /\ dataQ' = Tail(dataQ)
  /\ cHand' = Head(dataQ)
  /\ cPc' = "recycle"
  /\ UNCHANGED <<cacheQ, contents, total, lost, pVars, dataLast, cOp, cWant, output>>

\* rotate_data(), the clear() and the write(), whose result is ignored.
RotateDataWrite ==
  /\ cPc = "recycle"
  /\ contents' = [contents EXCEPT ![cHand] = <<>>]
  /\ IF Room(cacheQ)
       THEN cacheQ' = Append(cacheQ, cHand) /\ UNCHANGED lost
       ELSE lost' = lost \cup {cHand} /\ UNCHANGED cacheQ
  /\ cHand' = NoChunk
  /\ Continue
  /\ UNCHANGED <<dataQ, total, pVars, dataLast, output>>

Producer == \/ GetCachePtr \/ Fill \/ ClearCache \/ PutCachePtr
            \/ RotateCacheRead \/ RotateCacheWrite

Consumer == \/ WriteIntoRawBuffer \/ DiscardDataUpto \/ ClearData
            \/ DataEmpty \/ GetDataPtr \/ EraseBegin \/ ClearFront
            \/ PutDataPtr \/ RotateDataRead \/ RotateDataWrite

Next == Producer \/ Consumer

Spec == Init /\ [][Next]_vars

-----------------------------------------------------------------------------
(* Properties.                                                             *)

\* Every variable has its type; a chunk never holds more than ElemSize bytes.
TypeOK ==
  /\ cacheQ \in Seq(Chunk) /\ dataQ \in Seq(Chunk)
  /\ contents \in [Chunk -> Seq(Nat)]
  /\ \A c \in Chunk : Len(contents[c]) <= ElemSize
  /\ total \in Int /\ lost \subseteq Chunk
  /\ cacheLast \in 0 .. ElemSize /\ dataLast \in 0 .. ElemSize
  /\ pPc \in {"idle", "filling", "put", "rotate", "pass"}
  /\ pRotate \in BOOLEAN /\ pHand \in Chunk \cup {NoChunk} /\ next \in Nat
  /\ cPc \in {"idle", "get", "using", "put", "rotate", "recycle"}
  /\ cOp \in {"none", "read", "discard", "clear"}
  /\ cWant \in Nat /\ cHand \in Chunk \cup {NoChunk}
  /\ output \in Seq(Nat)

NoRepeat(q) == \A i, j \in 1 .. Len(q) : q[i] = q[j] => i = j
ChunksIn(q) == {q[i] : i \in 1 .. Len(q)}

\* A chunk is held by one thread at a time and in one queue at a time: no two
\* positions of the queues, and neither hand, hold the same chunk, and a chunk
\* whose last reference is gone is nowhere.
ChunkOwnership ==
  /\ NoRepeat(cacheQ) /\ NoRepeat(dataQ)
  /\ ChunksIn(cacheQ) \cap ChunksIn(dataQ) = {}
  /\ \A c \in {pHand, cHand} \cup lost : c \notin ChunksIn(cacheQ) \cup ChunksIn(dataQ)
  /\ pHand \notin lost /\ cHand \notin lost
  /\ pHand = cHand => pHand = NoChunk

\* rotate_cache() and rotate_data() ignore the result of write(); a refusal
\* would lose a chunk and its bytes.  It never comes: the queue written to
\* has room whatever the other thread does between the read and the write.
NoWriteRefused ==
  /\ pPc = "pass" => Room(dataQ)
  /\ cPc = "recycle" => Room(cacheQ)

\* The consumer never finds an empty chunk (is_data_empty() FALSE means there
\* are bytes), except the front one it emptied itself and has yet to rotate;
\* the producer never finds stale bytes: only the front chunk it is filling
\* holds any.
ChunksClean ==
  /\ \A c \in ChunksIn(dataQ) :
       contents[c] = <<>> => c = Head(dataQ) /\ cPc \in {"put", "rotate"}
  /\ \A c \in ChunksIn(cacheQ) : contents[c] # <<>> => c = Head(cacheQ)
  /\ cPc = "recycle" => contents[cHand] = <<>>
  /\ pPc = "pass" => contents[pHand] # <<>>

\* Bytes a thread has added to or taken from its front chunk and not yet
\* accounted for in the put call that follows.
ProducerUnaccounted == IF pPc = "put" THEN Len(contents[Head(cacheQ)]) - cacheLast ELSE 0
ConsumerUnaccounted == IF cPc = "put" THEN Len(contents[Head(dataQ)]) - dataLast ELSE 0

\* _total_bytes_in_buffer, which the decoder compares with what it wants to
\* read and a seek with how far it has to go, is updated by both threads and
\* must neither drift nor go negative: it is the number of bytes in the chunks
\* but for the updates under way.
TotalBytesExact ==
  /\ total >= 0
  /\ total + ProducerUnaccounted + ConsumerUnaccounted = Total([c \in Chunk |-> Len(contents[c])])

\* The chunks between the threads, and the bytes of them: those of the data queue, of
\* the chunk that is being rotated, and of those the producer has.
chunkLine == dataQ \o (IF pHand = NoChunk THEN <<>> ELSE <<pHand>>) \o cacheQ
streamed  == Joined([i \in 1 .. Len(chunkLine) |-> contents[chunkLine[i]]])

Pipe == INSTANCE BytePipe WITH stream <- streamed, CapacityInBytes <- BufferSizeCount * ElemSize

\* A cache_buffer is a pipe: through all rotations of chunks no byte is lost,
\* repeated or reordered between the producer and the consumer.
ImplementsPipe == Pipe!Spec
=============================================================================
