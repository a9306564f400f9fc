------------------------- MODULE CacheBufferProofs -------------------------
(***************************************************************************)
(* Proofs, for every number and size of chunks and every stream, that the  *)
(* chunks of a cache_buffer are never shared by its two threads, that its  *)
(* unchecked queue writes are never refused, that neither thread ever      *)
(* meets a chunk in a state it does not expect, that the count of bytes    *)
(* stays exact, and that the buffer is a pipe of bytes.                    *)
(***************************************************************************)
EXTENDS CacheBuffer, OperatorProofs, FiniteSetTheorems

-----------------------------------------------------------------------------
(* Queues of chunks.                                                       *)

\* Appending a chunk that is not in the queue.
LEMMA AppendChunk ==
  ASSUME NEW q \in Seq(Chunk), NEW c \in Chunk
  PROVE  /\ Append(q, c) \in Seq(Chunk)
         /\ ChunksIn(Append(q, c)) = ChunksIn(q) \cup {c}
         /\ NoRepeat(q) /\ c \notin ChunksIn(q) => NoRepeat(Append(q, c))
         /\ q # <<>> => Head(Append(q, c)) = Head(q)
         /\ Append(q, c) # <<>>
<1>1. Append(q, c) \in Seq(Chunk) /\ Len(Append(q, c)) = Len(q) + 1
  BY AppendProperties
<1>2. \A i \in 1 .. Len(q) : Append(q, c)[i] = q[i]
  BY AppendProperties
<1>3. Append(q, c)[Len(q) + 1] = c
  BY AppendProperties
<1>4. Len(q) \in Nat
  BY LenProperties
<1>5. ChunksIn(Append(q, c)) = ChunksIn(q) \cup {c}
  BY <1>1, <1>2, <1>3, <1>4 DEF ChunksIn
<1>6. NoRepeat(q) /\ c \notin ChunksIn(q) => NoRepeat(Append(q, c))
  BY <1>1, <1>2, <1>3, <1>4 DEF ChunksIn, NoRepeat
<1>7. q # <<>> => Head(Append(q, c)) = Head(q)
  BY <1>1, <1>2, <1>4, EmptySeq
<1>8. Append(q, c) # <<>>
  BY <1>1, <1>4
<1> QED
  BY <1>1, <1>5, <1>6, <1>7, <1>8

\* Taking the front chunk off a queue.
LEMMA TailChunk ==
  ASSUME NEW q \in Seq(Chunk), q # <<>>
  PROVE  /\ Head(q) \in Chunk /\ Tail(q) \in Seq(Chunk)
         /\ Head(q) \in ChunksIn(q)
         /\ ChunksIn(Tail(q)) \subseteq ChunksIn(q)
         /\ NoRepeat(q) => /\ NoRepeat(Tail(q))
                           /\ ChunksIn(Tail(q)) = ChunksIn(q) \ {Head(q)}
<1>1. /\ Head(q) \in Chunk /\ Tail(q) \in Seq(Chunk) /\ Len(Tail(q)) = Len(q) - 1
      /\ \A i \in 1 .. Len(Tail(q)) : Tail(q)[i] = q[i + 1]
  BY HeadTailProperties
<1>2. Len(q) \in Nat /\ Len(q) > 0 /\ Head(q) = q[1]
  BY LenProperties, EmptySeq
<1>3. Head(q) \in ChunksIn(q)
  BY <1>2 DEF ChunksIn
<1>4. ChunksIn(Tail(q)) \subseteq ChunksIn(q)
  BY <1>1, <1>2 DEF ChunksIn
<1>5. ASSUME NoRepeat(q) PROVE NoRepeat(Tail(q))
  BY <1>1, <1>2, <1>5 DEF NoRepeat
<1>6. ASSUME NoRepeat(q) PROVE ChunksIn(Tail(q)) = ChunksIn(q) \ {Head(q)}
  <2>1. Head(q) \notin ChunksIn(Tail(q))
    BY <1>1, <1>2, <1>6 DEF NoRepeat, ChunksIn
  <2>2. ASSUME NEW i \in 1 .. Len(q), q[i] # Head(q)
        PROVE  q[i] \in ChunksIn(Tail(q))
    <3>1. i - 1 \in 1 .. Len(Tail(q)) /\ Tail(q)[i - 1] = q[i]
      BY <1>1, <1>2, <2>2
    <3> QED
      BY <3>1 DEF ChunksIn
  <2> QED
    BY <1>4, <2>1, <2>2 DEF ChunksIn
<1> QED
  BY <1>1, <1>3, <1>4, <1>5, <1>6

\* A queue without repetition that misses a chunk has room for it.
LEMMA RoomForMissing ==
  ASSUME NEW q \in Seq(Chunk), NoRepeat(q), NEW c \in Chunk, c \notin ChunksIn(q)
  PROVE  Room(q)
<1> USE CountAssumption
<1>1. Len(q) \in Nat /\ q \in [1 .. Len(q) -> Chunk]
  BY LenProperties
<1>2. q \in [1 .. Len(q) -> Chunk \ {c}]
  BY <1>1 DEF ChunksIn
<1>3. IsFiniteSet(Chunk) /\ Cardinality(Chunk) = BufferSizeCount
  BY FS_Interval DEF Chunk
<1>4. IsFiniteSet(Chunk \ {c}) /\ Cardinality(Chunk \ {c}) = BufferSizeCount - 1
  BY <1>3, FS_RemoveElement
<1>5. IsFiniteSet(1 .. Len(q)) /\ Cardinality(1 .. Len(q)) = Len(q)
  BY <1>1, FS_Interval
<1>6. ~ (BufferSizeCount - 1 < Len(q))
  <2> SUFFICES ASSUME BufferSizeCount - 1 < Len(q) PROVE FALSE
    OBVIOUS
  <2>1. \E x, y \in 1 .. Len(q) : x # y /\ q[x] = q[y]
    BY <1>2, <1>4, <1>5, FS_PigeonHole
  <2> QED
    BY <2>1 DEF NoRepeat
<1> QED
  BY <1>1, <1>6 DEF Room, QueueCapacity

-----------------------------------------------------------------------------
(* The inductive invariant.                                                *)

\* What each thread knows at each of its steps: the chunk it works on is still
\* the front one, a hand holds a chunk exactly between the two halves of a
\* rotation, and the consumer rotates only a chunk it has emptied.
Steps ==
  /\ pPc \in {"filling", "put", "rotate"} => cacheQ # <<>>
  /\ cPc \in {"using", "put", "rotate"} => dataQ # <<>>
  /\ pPc = "pass" <=> pHand # NoChunk
  /\ cPc = "recycle" <=> cHand # NoChunk
  /\ cPc = "rotate" \/ (cPc = "put" /\ cOp = "clear") => contents[Head(dataQ)] = <<>>

IInv == TypeOK /\ ChunkOwnership /\ ChunksClean /\ Steps

\* No chunk is named NoChunk, and the front chunks are chunks, each of which
\* its thread has for itself.
LEMMA FrontChunks ==
  ASSUME IInv
  PROVE  /\ NoChunk \notin Chunk
         /\ cacheQ # <<>> => /\ Head(cacheQ) \in Chunk /\ Head(cacheQ) \in ChunksIn(cacheQ)
                             /\ Head(cacheQ) \notin ChunksIn(dataQ) \cup {pHand, cHand} \cup lost
         /\ dataQ # <<>> => /\ Head(dataQ) \in Chunk /\ Head(dataQ) \in ChunksIn(dataQ)
                            /\ Head(dataQ) \notin ChunksIn(cacheQ) \cup {pHand, cHand} \cup lost
<1>1. NoChunk \notin Chunk
  BY DEF NoChunk, Chunk
<1>2. cacheQ \in Seq(Chunk) /\ dataQ \in Seq(Chunk)
  BY DEF IInv, TypeOK
<1> QED
  BY <1>1, <1>2, TailChunk DEF IInv, ChunkOwnership

\* The pool as it is created satisfies the invariant.
LEMMA InitInv == Init => IInv
<1> SUFFICES ASSUME Init PROVE IInv
  OBVIOUS
<1> USE CountAssumption, SizesAssumption
<1>1. cacheQ \in Seq(Chunk) /\ Len(cacheQ) = BufferSizeCount
  <2>1. cacheQ \in [1 .. BufferSizeCount -> Chunk]
    BY DEF Init, Chunk
  <2> QED
    BY <2>1
<1>2. dataQ \in Seq(Chunk) /\ Len(dataQ) = 0 /\ output \in Seq(Nat)
  BY EmptySeq DEF Init
<1>3. contents \in [Chunk -> Seq(Nat)] /\ \A c \in Chunk : contents[c] = <<>>
  BY EmptySeq DEF Init
<1>4. TypeOK
  <2>1. \A c \in Chunk : Len(contents[c]) <= ElemSize
    BY <1>3, EmptySeq
  <2>2. 0 \in 0 .. ElemSize /\ total = 0 /\ cacheLast = 0 /\ dataLast = 0 /\ lost = {}
    BY DEF Init
  <2>3. /\ pPc = "idle" /\ pRotate = FALSE /\ pHand = NoChunk /\ next = 0
        /\ cPc = "idle" /\ cOp = "none" /\ cWant = 0 /\ cHand = NoChunk
    BY DEF Init
  <2>4. QED
    <3>1. /\ cacheQ \in Seq(Chunk) /\ dataQ \in Seq(Chunk)
          /\ contents \in [Chunk -> Seq(Nat)]
          /\ \A c \in Chunk : Len(contents[c]) <= ElemSize
          /\ output \in Seq(Nat)
      BY <1>1, <1>2, <1>3, <2>1
    <3>2. /\ total \in Int /\ lost \subseteq Chunk
          /\ cacheLast \in 0 .. ElemSize /\ dataLast \in 0 .. ElemSize
      BY <2>2
    <3> QED
      BY <2>3, <3>1, <3>2 DEF TypeOK
<1>5. ChunksIn(dataQ) = {} /\ ChunksIn(cacheQ) \subseteq Chunk
  BY <1>1, <1>2 DEF Init, ChunksIn, Chunk
<1>6. NoRepeat(cacheQ) /\ NoRepeat(dataQ)
  BY <1>1, <1>2 DEF Init, NoRepeat
<1>7. NoChunk \notin Chunk
  BY DEF NoChunk, Chunk
<1>8. ChunkOwnership
  BY <1>5, <1>6, <1>7 DEF Init, ChunkOwnership
<1>9. ChunksClean /\ Steps
  BY <1>3, <1>5 DEF Init, ChunksClean, Steps
<1> QED
  BY <1>4, <1>8, <1>9 DEF IInv

\* The steps of the producer keep it.
LEMMA ProducerInv == IInv /\ Producer => IInv'
<1> SUFFICES ASSUME IInv, Producer PROVE IInv'
  OBVIOUS
<1> USE SizesAssumption DEF IInv
<1> DEFINE h == Head(cacheQ)
<1>a. cacheQ \in Seq(Chunk) /\ dataQ \in Seq(Chunk) /\ contents \in [Chunk -> Seq(Nat)]
  BY DEF TypeOK
<1>1. CASE GetCachePtr
  <2>1. Len(contents[h]) \in 0 .. ElemSize
    BY <1>1, <1>a, FrontChunks, LenProperties DEF GetCachePtr, TypeOK
  <2> QED
    BY <1>1, <2>1 DEF GetCachePtr, cVars, TypeOK, ChunkOwnership, ChunksClean, Steps
<1>2. ASSUME NEW new \in Seq(Nat), Len(new) <= ElemSize, cacheQ # <<>>,
             contents' = [contents EXCEPT ![h] = new],
             pPc' = "put", pPc = "filling", pRotate' \in BOOLEAN, next' \in Nat,
             UNCHANGED <<cacheQ, dataQ, total, lost, cacheLast, pHand, cVars>>
      PROVE  IInv'
  <2>1. /\ h \in Chunk
        /\ h \notin ChunksIn(dataQ) \cup {pHand, cHand}
        /\ dataQ # <<>> => Head(dataQ) \in ChunksIn(dataQ)
    BY <1>2, FrontChunks
  <2>2. /\ contents'[h] = new
        /\ \A c \in Chunk : c # h => contents'[c] = contents[c]
    BY <1>2, <1>a, <2>1
  <2>3. contents' \in [Chunk -> Seq(Nat)]
    BY <1>2, <1>a, <2>1
  <2>4. TypeOK'
    BY <1>2, <2>2, <2>3 DEF TypeOK, cVars
  <2>5. ChunkOwnership'
    BY <1>2 DEF ChunkOwnership, cVars
  <2>6. ChunksIn(cacheQ) \subseteq Chunk /\ ChunksIn(dataQ) \subseteq Chunk
    BY <1>a, ElementOfSeq DEF ChunksIn
  <2>7. \A c \in Chunk : c # h => contents'[c] = contents[c]
    BY <2>2
  <2>8. ChunksClean'
    <3>1. cPc = "recycle" => cHand \in Chunk
      BY DEF TypeOK, Steps
    <3> QED
      BY <1>2, <2>1, <2>6, <2>7, <3>1 DEF ChunksClean, cVars
  <2>9. Steps'
    BY <1>2, <2>1, <2>6, <2>7 DEF Steps, cVars
  <2> QED
    BY <2>4, <2>5, <2>8, <2>9
<1>3. CASE Fill
  <2>1. PICK n \in 0 .. StreamLength - next, rotate \in BOOLEAN :
          /\ Len(contents[h]) + n <= ElemSize
          /\ contents' = [contents EXCEPT ![h] = @ \o [i \in 1 .. n |-> next + i - 1]]
          /\ next' = next + n /\ pRotate' = rotate
    BY <1>3 DEF Fill
  <2>2. cacheQ # <<>> /\ h \in Chunk /\ contents[h] \in Seq(Nat) /\ next \in Nat /\ n \in Nat
    BY <1>3, <1>a, FrontChunks DEF Fill, Steps, TypeOK
  <2> DEFINE more == [i \in 1 .. n |-> next + i - 1]
             new == contents[h] \o more
  <2>3. more \in [1 .. n -> Nat]
    BY <2>2
  <2>4. more \in Seq(Nat) /\ Len(more) = n
    BY <2>2, <2>3
  <2> HIDE DEF more
  <2>5. new \in Seq(Nat) /\ Len(new) <= ElemSize
    BY <2>1, <2>2, <2>4, ConcatProperties, LenProperties
  <2>6. contents' = [contents EXCEPT ![h] = new]
    BY <2>1, <1>a DEF more
  <2>7. next' \in Nat
    BY <2>1, <2>2
  <2> HIDE DEF new
  <2>8. /\ pPc' = "put" /\ pPc = "filling" /\ pRotate' \in BOOLEAN
        /\ UNCHANGED <<cacheQ, dataQ, total, lost, cacheLast, pHand, cVars>>
    BY <1>3, <2>1 DEF Fill
  <2> QED
    BY <1>2, <2>2, <2>5, <2>6, <2>7, <2>8
<1>4. CASE ClearCache
  <2>1. /\ cacheQ # <<>> /\ contents' = [contents EXCEPT ![h] = <<>>]
        /\ pPc' = "put" /\ pPc = "filling" /\ pRotate' \in BOOLEAN /\ next' \in Nat
        /\ UNCHANGED <<cacheQ, dataQ, total, lost, cacheLast, pHand, cVars>>
    BY <1>4 DEF ClearCache, Steps, TypeOK
  <2>2. <<>> \in Seq(Nat) /\ Len(<<>>) <= ElemSize
    BY EmptySeq
  <2> QED
    BY <1>2, <2>1, <2>2
<1>5. CASE PutCachePtr
  <2>1. Len(contents[h]) \in Nat /\ total \in Int /\ cacheLast \in Nat
    BY <1>5, <1>a, FrontChunks, LenProperties DEF PutCachePtr, TypeOK, Steps
  <2>2. total' \in Int
    BY <1>5, <2>1 DEF PutCachePtr
  <2> QED
    BY <1>5, <2>2 DEF PutCachePtr, cVars, TypeOK, ChunkOwnership, ChunksClean, Steps
<1>6. CASE RotateCacheRead
  <2>1. /\ cacheQ # <<>> /\ cacheQ' = Tail(cacheQ) /\ pHand = NoChunk
        /\ UNCHANGED <<dataQ, contents, total, cacheLast, pRotate, next, cVars>>
    BY <1>6 DEF RotateCacheRead, Steps
  <2>2. /\ Tail(cacheQ) \in Seq(Chunk)
        /\ NoRepeat(Tail(cacheQ)) /\ ChunksIn(Tail(cacheQ)) = ChunksIn(cacheQ) \ {h}
        /\ h \in Chunk /\ h \notin ChunksIn(dataQ) \cup {pHand, cHand} \cup lost
        /\ NoChunk \notin Chunk
    BY <1>a, <2>1, TailChunk, FrontChunks DEF ChunkOwnership
  <2>3. ChunksIn(cacheQ)' = ChunksIn(cacheQ) \ {h} /\ ChunksIn(dataQ)' = ChunksIn(dataQ)
    BY <2>1, <2>2 DEF ChunksIn
  <2>4. NoRepeat(cacheQ)' /\ NoRepeat(dataQ)'
    BY <2>1, <2>2 DEF NoRepeat, ChunkOwnership
  <2>5. CASE contents[h] = <<>>
    <3>1. lost' = lost \cup {h} /\ pPc' = "idle" /\ pHand' = pHand /\ cHand' = cHand
      BY <1>6, <2>5 DEF RotateCacheRead, cVars
    <3>2. TypeOK'
      BY <2>1, <2>2, <3>1 DEF TypeOK, cVars
    <3>3. ChunkOwnership'
      BY <2>1, <2>2, <2>3, <2>4, <3>1 DEF ChunkOwnership
    <3>4. ChunksClean' /\ Steps'
      BY <2>1, <2>3, <3>1 DEF ChunksClean, Steps, cVars
    <3> QED
      BY <3>2, <3>3, <3>4
  <2>6. CASE contents[h] # <<>>
    <3>1. lost' = lost /\ pPc' = "pass" /\ pHand' = h /\ cHand' = cHand
      BY <1>6, <2>6 DEF RotateCacheRead, cVars
    <3>2. TypeOK'
      BY <2>1, <2>2, <3>1 DEF TypeOK, cVars
    <3>3. ChunkOwnership'
      BY <2>1, <2>2, <2>3, <2>4, <3>1 DEF ChunkOwnership
    <3>4. ChunksClean' /\ Steps'
      BY <2>1, <2>2, <2>3, <2>6, <3>1 DEF ChunksClean, Steps, cVars
    <3> QED
      BY <3>2, <3>3, <3>4
  <2> QED
    BY <2>5, <2>6
<1>7. CASE RotateCacheWrite
  <2>1. /\ pPc = "pass" /\ pPc' = "idle" /\ pHand' = NoChunk
        /\ UNCHANGED <<cacheQ, contents, total, cacheLast, pRotate, next, cVars>>
    BY <1>7 DEF RotateCacheWrite
  <2>2. pHand \in Chunk /\ pHand \notin ChunksIn(dataQ) /\ pHand \notin ChunksIn(cacheQ)
        /\ pHand \notin lost \cup {cHand} /\ contents[pHand] # <<>>
    BY <2>1 DEF TypeOK, Steps, ChunkOwnership, ChunksClean
  <2>3. dataQ' = Append(dataQ, pHand) /\ lost' = lost
    BY <1>7, <1>a, <2>2, RoomForMissing DEF RotateCacheWrite, ChunkOwnership
  <2>4. /\ dataQ' \in Seq(Chunk) /\ NoRepeat(dataQ')
        /\ ChunksIn(dataQ') = ChunksIn(dataQ) \cup {pHand}
        /\ dataQ # <<>> => Head(dataQ') = Head(dataQ)
        /\ dataQ' # <<>>
    BY <1>a, <2>2, <2>3, AppendChunk DEF ChunkOwnership
  <2>5. /\ ChunksIn(dataQ)' = ChunksIn(dataQ) \cup {pHand} /\ NoRepeat(dataQ)'
        /\ ChunksIn(cacheQ)' = ChunksIn(cacheQ) /\ NoRepeat(cacheQ)'
    BY <2>1, <2>4 DEF ChunksIn, NoRepeat, ChunkOwnership
  <2>6. TypeOK'
    BY <2>1, <2>3, <2>4 DEF TypeOK, cVars
  <2>7. ChunkOwnership'
    <3>1. NoChunk \notin Chunk
      BY FrontChunks
    <3>2. ChunksIn(cacheQ) \subseteq Chunk /\ ChunksIn(dataQ) \subseteq Chunk /\ lost \subseteq Chunk
      BY <1>a, ElementOfSeq DEF ChunksIn, TypeOK
    <3>3. cHand' = cHand
      BY <2>1 DEF cVars
    <3> QED
      BY <2>1, <2>2, <2>3, <2>5, <3>1, <3>2, <3>3 DEF ChunkOwnership
  <2>8. ChunksClean'
    <3>1. \A c \in ChunksIn(dataQ) : contents[c] = <<>> => dataQ # <<>>
      BY DEF ChunksClean, Steps
    <3> QED
      BY <2>1, <2>2, <2>4, <2>5, <3>1 DEF ChunksClean, cVars
  <2>9. Steps'
    BY <2>1, <2>4 DEF Steps, cVars
  <2> QED
    BY <2>6, <2>7, <2>8, <2>9
<1> QED
  BY <1>1, <1>3, <1>4, <1>5, <1>6, <1>7 DEF Producer

\* The steps of the consumer keep it.
LEMMA ConsumerInv == IInv /\ Consumer => IInv'
<1> SUFFICES ASSUME IInv, Consumer PROVE IInv'
  OBVIOUS
<1> USE SizesAssumption DEF IInv
<1> DEFINE h == Head(dataQ)
<1>a. cacheQ \in Seq(Chunk) /\ dataQ \in Seq(Chunk) /\ contents \in [Chunk -> Seq(Nat)]
  BY DEF TypeOK
<1>b. ChunksIn(cacheQ) \subseteq Chunk /\ ChunksIn(dataQ) \subseteq Chunk
  BY <1>a, ElementOfSeq DEF ChunksIn
<1>1. CASE WriteIntoRawBuffer \/ DiscardDataUpto \/ ClearData
  <2>1. PICK op \in {"read", "discard", "clear"}, want \in Nat : Call(op, want)
    BY <1>1 DEF WriteIntoRawBuffer, DiscardDataUpto, ClearData
  <2>2. /\ cPc = "idle" /\ cPc' = "get" /\ cOp' = op /\ cWant' = want
        /\ UNCHANGED <<cacheQ, dataQ, contents, total, lost, pVars, dataLast, cHand, output>>
    BY <2>1 DEF Call
  <2>3. TypeOK'
    BY <2>2 DEF TypeOK, pVars
  <2>4. ChunkOwnership' /\ ChunksClean' /\ Steps'
    BY <2>2 DEF pVars, ChunkOwnership, ChunksClean, Steps
  <2> QED
    BY <2>3, <2>4
<1>2. CASE DataEmpty
  BY <1>2 DEF DataEmpty, pVars, TypeOK, ChunkOwnership, ChunksClean, Steps
<1>3. CASE GetDataPtr
  <2>1. Len(contents[h]) \in 0 .. ElemSize
    BY <1>3, <1>a, FrontChunks, LenProperties DEF GetDataPtr, TypeOK
  <2>2. \A c \in ChunksIn(dataQ) : contents[c] # <<>>
    BY <1>3 DEF GetDataPtr, ChunksClean
  <2> QED
    BY <1>3, <2>1, <2>2 DEF GetDataPtr, pVars, TypeOK, ChunkOwnership, ChunksClean, Steps
<1>4. ASSUME NEW new \in Seq(Nat), Len(new) <= ElemSize,
             cPc = "using", cPc' = "put", cOp = "clear" => new = <<>>,
             contents' = [contents EXCEPT ![h] = new],
             cWant' \in Nat, output' \in Seq(Nat),
             UNCHANGED <<cacheQ, dataQ, total, lost, pVars, dataLast, cOp, cHand>>
      PROVE  IInv'
  <2>1. /\ dataQ # <<>> /\ h \in Chunk
        /\ h \notin ChunksIn(cacheQ) \cup {pHand, cHand}
        /\ cacheQ # <<>> => Head(cacheQ) \in ChunksIn(cacheQ)
    BY <1>4, FrontChunks DEF Steps
  <2>2. /\ contents'[h] = new
        /\ \A c \in Chunk : c # h => contents'[c] = contents[c]
    BY <1>4, <1>a, <2>1
  <2>3. contents' \in [Chunk -> Seq(Nat)]
    BY <1>4, <1>a, <2>1
  <2>4. TypeOK'
    BY <1>4, <2>2, <2>3 DEF TypeOK, pVars
  <2>5. ChunkOwnership'
    BY <1>4 DEF ChunkOwnership, pVars
  <2>6. ChunksClean'
    <3>1. pPc = "pass" => pHand \in Chunk
      BY DEF TypeOK, Steps
    <3> QED
      BY <1>b, <1>4, <2>1, <2>2, <3>1 DEF ChunksClean, pVars
  <2>7. Steps'
    BY <1>4, <2>1, <2>2 DEF Steps, pVars
  <2> QED
    BY <2>4, <2>5, <2>6, <2>7
<1>5. CASE EraseBegin
  <2> DEFINE front == contents[h]
             n == IF Len(front) > cWant THEN cWant ELSE Len(front)
             new == SubSeq(front, n + 1, Len(front))
             out == SubSeq(front, 1, n)
  <2>1. /\ dataQ # <<>> /\ h \in Chunk /\ front \in Seq(Nat) /\ Len(front) <= ElemSize
        /\ cWant \in Nat /\ output \in Seq(Nat)
    BY <1>5, <1>a, FrontChunks DEF EraseBegin, Steps, TypeOK
  <2>2. Len(front) \in Nat /\ n \in 0 .. Len(front) /\ cWant - n \in Nat
    BY <2>1, LenProperties
  <2>3. \A i \in 1 .. Len(front) : front[i] \in Nat
    BY <2>1, ElementOfSeq
  <2>4. new \in Seq(Nat) /\ Len(new) <= ElemSize
    <3>1. n + 1 \in Int /\ Len(front) \in Int /\ \A i \in n + 1 .. Len(front) : front[i] \in Nat
      BY <2>2, <2>3
    <3>2. new \in Seq(Nat) /\ Len(new) = IF n + 1 <= Len(front) THEN Len(front) - (n + 1) + 1 ELSE 0
      BY <3>1, SubSeqProperties
    <3> QED
      BY <2>1, <2>2, <3>2
  <2>5. out \in Seq(Nat)
    <3>1. 1 \in Int /\ n \in Int /\ \A i \in 1 .. n : front[i] \in Nat
      BY <2>2, <2>3
    <3> QED
      BY <3>1, SubSeqProperties
  <2>6. /\ contents' = [contents EXCEPT ![h] = new]
        /\ output' = IF cOp = "read" THEN out ELSE output
        /\ cWant' = cWant - n
        /\ cPc = "using" /\ cPc' = "put" /\ cOp # "clear"
        /\ UNCHANGED <<cacheQ, dataQ, total, lost, pVars, dataLast, cOp, cHand>>
    BY <1>5 DEF EraseBegin
  <2> HIDE DEF n, new, out
  <2>7. cWant' \in Nat /\ output' \in Seq(Nat)
    BY <2>1, <2>2, <2>5, <2>6
  <2> QED
    BY <1>4, <2>4, <2>6, <2>7
<1>6. CASE ClearFront
  <2>1. <<>> \in Seq(Nat) /\ Len(<<>>) <= ElemSize
    BY EmptySeq
  <2>2. /\ contents' = [contents EXCEPT ![h] = <<>>]
        /\ cPc = "using" /\ cPc' = "put"
        /\ cWant' \in Nat /\ output' \in Seq(Nat)
        /\ UNCHANGED <<cacheQ, dataQ, total, lost, pVars, dataLast, cOp, cHand>>
    BY <1>6 DEF ClearFront, TypeOK
  <2> QED
    BY <1>4, <2>1, <2>2
<1>7. CASE PutDataPtr
  <2>1. /\ dataQ # <<>> /\ Len(contents[h]) \in Nat /\ total \in Int /\ dataLast \in Nat
        /\ contents[h] \in Seq(Nat)
    BY <1>7, <1>a, FrontChunks, LenProperties DEF PutDataPtr, TypeOK, Steps
  <2>2. total' \in Int
    BY <1>7, <2>1 DEF PutDataPtr
  <2>3. /\ Len(contents[h]) = 0 <=> contents[h] = <<>>
    BY <2>1, EmptySeq
  <2>4. /\ UNCHANGED <<cacheQ, dataQ, contents, lost, pVars, dataLast, cHand, output>>
        /\ cPc = "put"
    BY <1>7 DEF PutDataPtr
  <2>5. CASE Len(contents[h]) = 0 \/ cOp = "clear"
    <3>1. cPc' = "rotate" /\ cOp' = cOp /\ cWant' = cWant /\ contents[h] = <<>>
      BY <1>7, <2>3, <2>4, <2>5 DEF PutDataPtr, Steps
    <3> QED
      BY <2>2, <2>4, <3>1 DEF pVars, TypeOK, ChunkOwnership, ChunksClean, Steps
  <2>6. CASE ~(Len(contents[h]) = 0 \/ cOp = "clear")
    <3>1. Continue /\ contents[h] # <<>>
      BY <1>7, <2>3, <2>6 DEF PutDataPtr
    <3>2. /\ cPc' \in {"get", "idle"} /\ cOp' \in {"none", "read", "discard", "clear"}
          /\ cWant' \in Nat
      BY <3>1 DEF Continue, Return, TypeOK
    <3>3. \A c \in ChunksIn(dataQ) : contents[c] # <<>>
      BY <3>1 DEF ChunksClean
    <3> QED
      BY <2>2, <2>4, <3>2, <3>3 DEF pVars, TypeOK, ChunkOwnership, ChunksClean, Steps
  <2> QED
    BY <2>5, <2>6
<1>8. CASE RotateDataRead
  <2>1. /\ dataQ # <<>> /\ dataQ' = Tail(dataQ) /\ cHand' = h /\ cHand = NoChunk
        /\ cPc = "rotate" /\ cPc' = "recycle" /\ contents[h] = <<>>
        /\ UNCHANGED <<cacheQ, contents, total, lost, pVars, dataLast, cOp, cWant, output>>
    <3>1. cPc = "rotate"
      BY <1>8 DEF RotateDataRead
    <3>2. dataQ # <<>> /\ cHand = NoChunk /\ contents[h] = <<>>
      BY <3>1 DEF Steps
    <3> QED
      BY <1>8, <3>1, <3>2 DEF RotateDataRead
  <2>2. /\ Tail(dataQ) \in Seq(Chunk)
        /\ NoRepeat(Tail(dataQ)) /\ ChunksIn(Tail(dataQ)) = ChunksIn(dataQ) \ {h}
        /\ h \in Chunk /\ h \notin ChunksIn(cacheQ) \cup {pHand, cHand} \cup lost
        /\ NoChunk \notin Chunk
    BY <1>a, <2>1, TailChunk, FrontChunks DEF ChunkOwnership
  <2>3. /\ ChunksIn(dataQ)' = ChunksIn(dataQ) \ {h} /\ ChunksIn(cacheQ)' = ChunksIn(cacheQ)
        /\ NoRepeat(cacheQ)' /\ NoRepeat(dataQ)'
    BY <2>1, <2>2 DEF ChunksIn, NoRepeat, ChunkOwnership
  <2>4. TypeOK'
    BY <2>1, <2>2 DEF TypeOK, pVars
  <2>5. ChunkOwnership'
    <3>1. pHand' = pHand
      BY <2>1 DEF pVars
    <3> QED
      BY <2>1, <2>2, <2>3, <3>1 DEF ChunkOwnership
  <2>6. ChunksClean'
    BY <2>1, <2>3 DEF ChunksClean, pVars
  <2>7. Steps'
    BY <2>1, <2>2 DEF Steps, pVars
  <2> QED
    BY <2>4, <2>5, <2>6, <2>7
<1>9. CASE RotateDataWrite
  <2>1. /\ cPc = "recycle" /\ cHand' = NoChunk
        /\ contents' = [contents EXCEPT ![cHand] = <<>>] /\ Continue
        /\ UNCHANGED <<dataQ, total, pVars, dataLast, output>>
    BY <1>9 DEF RotateDataWrite
  <2>2. cHand \in Chunk /\ cHand \notin ChunksIn(dataQ) /\ cHand \notin ChunksIn(cacheQ)
        /\ cHand \notin lost \cup {pHand} /\ contents[cHand] = <<>>
    BY <2>1 DEF TypeOK, Steps, ChunkOwnership, ChunksClean
  <2>3. cacheQ' = Append(cacheQ, cHand) /\ lost' = lost
    BY <1>9, <1>a, <2>2, RoomForMissing DEF RotateDataWrite, ChunkOwnership
  <2>4. contents' = contents
    BY <1>a, <2>1, <2>2
  <2>5. /\ cacheQ' \in Seq(Chunk) /\ NoRepeat(cacheQ')
        /\ ChunksIn(cacheQ') = ChunksIn(cacheQ) \cup {cHand}
        /\ cacheQ # <<>> => Head(cacheQ') = Head(cacheQ)
        /\ cacheQ' # <<>>
    BY <1>a, <2>2, <2>3, AppendChunk DEF ChunkOwnership
  <2>6. /\ ChunksIn(cacheQ)' = ChunksIn(cacheQ) \cup {cHand} /\ NoRepeat(cacheQ)'
        /\ ChunksIn(dataQ)' = ChunksIn(dataQ) /\ NoRepeat(dataQ)'
    <3>1. ChunksIn(cacheQ)' = ChunksIn(cacheQ') /\ ChunksIn(dataQ)' = ChunksIn(dataQ)
      BY <2>1 DEF ChunksIn
    <3>2. NoRepeat(cacheQ)' /\ NoRepeat(dataQ)'
      BY <2>1, <2>5 DEF NoRepeat, ChunkOwnership
    <3> QED
      BY <2>5, <3>1, <3>2
  <2>7. /\ cPc' \in {"get", "idle"} /\ cOp' \in {"none", "read", "discard", "clear"}
        /\ cWant' \in Nat
    BY <2>1 DEF Continue, Return, TypeOK
  <2>8. TypeOK'
    BY <2>1, <2>3, <2>4, <2>5, <2>7 DEF TypeOK, pVars
  <2>9. ChunkOwnership'
    <3>1. NoChunk \notin Chunk /\ lost \subseteq Chunk
      BY FrontChunks DEF TypeOK
    <3>2. pHand' = pHand
      BY <2>1 DEF pVars
    <3> QED
      BY <1>b, <2>1, <2>2, <2>3, <2>6, <3>1, <3>2 DEF ChunkOwnership
  <2>10. ChunksClean'
    <3>1. \A c \in ChunksIn(dataQ) : contents[c] # <<>>
      BY <2>1 DEF ChunksClean
    <3>2. \A c \in ChunksIn(cacheQ) : cacheQ # <<>>
      BY EmptySeq DEF ChunksIn
    <3>3. cPc' # "recycle" /\ pPc' = pPc /\ pHand' = pHand
      BY <2>1, <2>7 DEF pVars
    <3> QED
      BY <2>2, <2>4, <2>5, <2>6, <3>1, <3>2, <3>3 DEF ChunksClean
  <2>11. Steps'
    BY <2>1, <2>4, <2>5, <2>7 DEF Steps, pVars
  <2> QED
    BY <2>8, <2>9, <2>10, <2>11
<1> QED
  BY <1>1, <1>2, <1>3, <1>5, <1>6, <1>7, <1>8, <1>9 DEF Consumer

\* A stuttering step keeps the invariant.
LEMMA StutterInv == IInv /\ UNCHANGED vars => IInv'
BY ZenonT(40) DEF IInv, TypeOK, ChunkOwnership, ChunksClean, Steps, vars, pVars, cVars

-----------------------------------------------------------------------------
(* The number of bytes.                                                    *)

\* How many bytes each chunk holds
SizesOf(c) == [k \in Chunk |-> Len(c[k])]

\* They are as many numbers as there are chunks; when one chunk is changed, their
\* sum changes by as much.
LEMMA SizesChange ==
  ASSUME NEW c \in [Chunk -> Seq(Nat)]
  PROVE  /\ SizesOf(c) \in Seq(Nat) /\ SizesOf(c) \in Seq(Int) /\ Total(SizesOf(c)) \in Nat
         /\ Len(SizesOf(c)) = BufferSizeCount
         /\ \A k \in Chunk : SizesOf(c)[k] = Len(c[k])
         /\ \A k \in Chunk, new \in Seq(Nat) :
              Total(SizesOf([c EXCEPT ![k] = new])) = Total(SizesOf(c)) + (Len(new) - Len(c[k]))
<1> USE CountAssumption
<1> DEFINE q == SizesOf(c)
<1>1. q \in [Chunk -> Nat] /\ \A k \in Chunk : q[k] = Len(c[k])
  BY LenProperties DEF SizesOf
<1>2. q \in Seq(Nat) /\ Len(q) = BufferSizeCount
  <2> HIDE DEF q
  <2>1. q \in [1 .. BufferSizeCount -> Nat]
    BY <1>1 DEF Chunk
  <2> QED
    BY <2>1
<1>3. q \in Seq(Int) /\ Total(q) \in Nat
  BY <1>2, TotalNat
<1>4. ASSUME NEW k \in Chunk, NEW new \in Seq(Nat)
      PROVE  Total(SizesOf([c EXCEPT ![k] = new])) = Total(q) + (Len(new) - Len(c[k]))
  <2>1. SizesOf([c EXCEPT ![k] = new]) = [q EXCEPT ![k] = Len(new)]
    BY DEF SizesOf
  <2>2. k \in 1 .. Len(q) /\ Len(new) \in Int /\ q[k] = Len(c[k])
    BY <1>1, <1>2, LenProperties DEF Chunk
  <2>3. Total([q EXCEPT ![k] = Len(new)]) = Total(q) + (Len(new) - q[k])
    <3> HIDE DEF q
    <3> QED
      BY <1>3, <2>2, TotalExcept
  <2> QED
    BY <2>1, <2>2, <2>3
<1> QED
  BY <1>1, <1>2, <1>3, <1>4

\* The count is exact but for the updates under way; each of these is the change to
\* the chunk since the thread took note of its size.
Counted ==
  /\ pPc = "filling" => cacheLast = Len(contents[Head(cacheQ)])
  /\ cPc = "using" => dataLast = Len(contents[Head(dataQ)])
  /\ total + ProducerUnaccounted + ConsumerUnaccounted = Total(SizesOf(contents))

\* What the two threads have to account for are numbers.
LEMMA UnaccountedType ==
  ASSUME IInv
  PROVE  /\ ProducerUnaccounted \in Int /\ ConsumerUnaccounted \in Int /\ total \in Int
         /\ cacheQ # <<>> => contents[Head(cacheQ)] \in Seq(Nat) /\ Len(contents[Head(cacheQ)]) \in Nat
         /\ dataQ # <<>> => contents[Head(dataQ)] \in Seq(Nat) /\ Len(contents[Head(dataQ)]) \in Nat
         /\ cacheLast \in Nat /\ dataLast \in Nat
         /\ contents \in [Chunk -> Seq(Nat)] /\ Total(SizesOf(contents)) \in Nat
<1> USE SizesAssumption
<1>1. contents \in [Chunk -> Seq(Nat)] /\ total \in Int /\ cacheLast \in Nat /\ dataLast \in Nat
  BY DEF IInv, TypeOK
<1>2. Total(SizesOf(contents)) \in Nat
  BY <1>1, SizesChange
<1>3. /\ cacheQ # <<>> => contents[Head(cacheQ)] \in Seq(Nat)
      /\ dataQ # <<>> => contents[Head(dataQ)] \in Seq(Nat)
  BY <1>1, FrontChunks
<1>4. /\ cacheQ # <<>> => Len(contents[Head(cacheQ)]) \in Nat
      /\ dataQ # <<>> => Len(contents[Head(dataQ)]) \in Nat
  BY <1>3, LenProperties
<1>5. (pPc = "put" => cacheQ # <<>>) /\ (cPc = "put" => dataQ # <<>>)
  BY DEF IInv, Steps
<1> QED
  BY <1>1, <1>2, <1>3, <1>4, <1>5 DEF ProducerUnaccounted, ConsumerUnaccounted

\* The pool is created empty.
LEMMA CountedInit == Init => Counted
<1> SUFFICES ASSUME Init PROVE Counted
  OBVIOUS
<1>1. contents \in [Chunk -> Seq(Nat)]
  BY InitInv DEF IInv, TypeOK
<1> DEFINE q == SizesOf(contents)
<1>2. q \in Seq(Int) /\ \A i \in 1 .. Len(q) : q[i] = 0
  <2>1. \A k \in Chunk : Len(contents[k]) = 0
    BY EmptySeq DEF Init
  <2> QED
    BY <1>1, <2>1, SizesChange DEF Chunk
<1>3. Total(q) = 0
  BY <1>2, TotalZeros
<1>4. ProducerUnaccounted = 0 /\ ConsumerUnaccounted = 0 /\ total = 0
  BY DEF Init, ProducerUnaccounted, ConsumerUnaccounted
<1> QED
  BY <1>3, <1>4 DEF Init, Counted

\* A step that leaves the contents of the chunks and what the consumer has to account
\* for alone: it is enough that the producer's part of the count stays exact.
LEMMA ProducerCounted == IInv /\ Counted /\ Producer => Counted'
<1> SUFFICES ASSUME IInv, Counted, Producer PROVE Counted'
  OBVIOUS
<1> DEFINE h == Head(cacheQ)
<1>a. /\ total \in Int /\ ConsumerUnaccounted \in Int /\ contents \in [Chunk -> Seq(Nat)]
      /\ cacheLast \in Nat /\ Total(SizesOf(contents)) \in Nat
      /\ cacheQ # <<>> => contents[h] \in Seq(Nat) /\ Len(contents[h]) \in Nat
  BY UnaccountedType
<1>b. ProducerUnaccounted = IF pPc = "put" THEN Len(contents[h]) - cacheLast ELSE 0
  BY DEF ProducerUnaccounted
<1>c. ProducerUnaccounted' = IF pPc' = "put" THEN Len(contents'[Head(cacheQ')]) - cacheLast' ELSE 0
  BY DEF ProducerUnaccounted
<1>d. /\ pPc = "filling" => cacheLast = Len(contents[h])
      /\ cPc = "using" => dataLast = Len(contents[Head(dataQ)])
      /\ total + ProducerUnaccounted + ConsumerUnaccounted = Total(SizesOf(contents))
  BY DEF Counted
<1>e. cPc \in {"using", "put"} => dataQ # <<>>
  BY DEF IInv, Steps
<1>1. CASE GetCachePtr
  <2>1. /\ pPc = "idle" /\ pPc' = "filling" /\ cacheLast' = Len(contents[h])
        /\ UNCHANGED <<cacheQ, dataQ, contents, total, cPc, dataLast>>
    BY <1>1 DEF GetCachePtr, cVars
  <2>2. ConsumerUnaccounted' = ConsumerUnaccounted /\ ProducerUnaccounted' = ProducerUnaccounted
    BY <1>b, <1>c, <2>1 DEF ConsumerUnaccounted
  <2> QED
    BY <1>d, <2>1, <2>2 DEF Counted
<1>2. ASSUME NEW new \in Seq(Nat), pPc = "filling", pPc' = "put",
             contents' = [contents EXCEPT ![h] = new],
             UNCHANGED <<cacheQ, dataQ, total, cacheLast, cPc, dataLast>>
      PROVE  Counted'
  <2>1. /\ cacheQ # <<>> /\ h \in Chunk /\ contents'[h] = new
        /\ \A k \in Chunk : k # h => contents'[k] = contents[k]
    BY <1>a, <1>2, FrontChunks DEF IInv, Steps
  <2>2. dataQ # <<>> => contents'[Head(dataQ)] = contents[Head(dataQ)]
    BY <2>1, FrontChunks
  <2>3. ConsumerUnaccounted' = ConsumerUnaccounted
    BY <1>2, <1>e, <2>2 DEF ConsumerUnaccounted
  <2>4. Total(SizesOf(contents')) = Total(SizesOf(contents)) + (Len(new) - Len(contents[h]))
    BY <1>a, <1>2, <2>1, SizesChange
  <2>5. ProducerUnaccounted' = Len(new) - Len(contents[h]) /\ ProducerUnaccounted = 0
    BY <1>b, <1>c, <1>d, <1>2, <2>1
  <2>6. Len(new) \in Nat /\ Len(contents[h]) \in Nat
    BY <1>a, <2>1, LenProperties
  <2>7. total' + ProducerUnaccounted' + ConsumerUnaccounted' = Total(SizesOf(contents'))
    <3>1. \A t, u, z, a, b \in Int : t + 0 + u = z => t + (b - a) + u = z + (b - a)
      OBVIOUS
    <3> DEFINE z == Total(SizesOf(contents))
               a == Len(contents[h])
               b == Len(new)
    <3>2. z \in Int /\ b \in Int /\ a \in Int
      BY <1>a, <2>6
    <3>3. total + 0 + ConsumerUnaccounted = z
      BY <1>d, <2>5
    <3> HIDE DEF z, a, b
    <3>4. total + (b - a) + ConsumerUnaccounted = z + (b - a)
      BY <1>a, <3>1, <3>2, <3>3
    <3> QED
      BY <1>2, <2>3, <2>4, <2>5, <3>4 DEF z, a, b
  <2>8. cPc' = "using" => dataLast' = Len(contents'[Head(dataQ')])
    BY <1>2, <1>d, <1>e, <2>2
  <2> QED
    BY <1>2, <2>7, <2>8 DEF Counted
<1>3. CASE Fill
  <2>1. PICK n \in 0 .. StreamLength - next, rotate \in BOOLEAN :
          contents' = [contents EXCEPT ![h] = @ \o [i \in 1 .. n |-> next + i - 1]]
    BY <1>3 DEF Fill
  <2> DEFINE more == [i \in 1 .. n |-> next + i - 1]
  <2>2. h \in Chunk /\ contents[h] \in Seq(Nat) /\ next \in Nat /\ n \in Nat
    BY <1>3, <1>a, FrontChunks, SizesAssumption DEF Fill, IInv, Steps, TypeOK
  <2>3. more \in Seq(Nat)
    BY <2>2
  <2> HIDE DEF more
  <2>4. contents[h] \o more \in Seq(Nat)
    BY <2>2, <2>3, ConcatProperties
  <2>5. contents' = [contents EXCEPT ![h] = contents[h] \o more]
    BY <2>1, <1>a DEF more
  <2>6. pPc = "filling" /\ pPc' = "put" /\ UNCHANGED <<cacheQ, dataQ, total, cacheLast, cPc, dataLast>>
    BY <1>3 DEF Fill, cVars
  <2> QED
    BY <1>2, <2>4, <2>5, <2>6
<1>4. CASE ClearCache
  <2>1. <<>> \in Seq(Nat)
    BY EmptySeq
  <2>2. /\ pPc = "filling" /\ pPc' = "put" /\ contents' = [contents EXCEPT ![h] = <<>>]
        /\ UNCHANGED <<cacheQ, dataQ, total, cacheLast, cPc, dataLast>>
    BY <1>4 DEF ClearCache, cVars
  <2> QED
    BY <1>2, <2>1, <2>2
<1>5. CASE PutCachePtr
  <2>1. /\ pPc = "put" /\ pPc' \in {"rotate", "idle"} /\ cacheQ # <<>>
        /\ total' = total + (Len(contents[h]) - cacheLast)
        /\ UNCHANGED <<cacheQ, dataQ, contents, cPc, dataLast>>
    BY <1>5 DEF PutCachePtr, cVars, IInv, Steps
  <2>2. ConsumerUnaccounted' = ConsumerUnaccounted /\ ProducerUnaccounted' = 0
    BY <1>c, <2>1 DEF ConsumerUnaccounted
  <2>3. total' + ProducerUnaccounted' + ConsumerUnaccounted' = Total(SizesOf(contents'))
    BY <1>a, <1>b, <1>d, <2>1, <2>2
  <2> QED
    BY <1>d, <2>1, <2>3 DEF Counted
<1>6. CASE RotateCacheRead
  <2>1. /\ pPc = "rotate" /\ pPc' \in {"pass", "idle"}
        /\ UNCHANGED <<dataQ, contents, total, cPc, dataLast>>
    BY <1>6 DEF RotateCacheRead, cVars
  <2>2. ConsumerUnaccounted' = ConsumerUnaccounted /\ ProducerUnaccounted' = ProducerUnaccounted
    BY <1>b, <1>c, <2>1 DEF ConsumerUnaccounted
  <2> QED
    BY <1>d, <2>1, <2>2 DEF Counted
<1>7. CASE RotateCacheWrite
  <2>1. /\ pPc = "pass" /\ pPc' = "idle" /\ dataQ' \in {dataQ, Append(dataQ, pHand)}
        /\ UNCHANGED <<contents, total, cPc, dataLast>>
    BY <1>7 DEF RotateCacheWrite, cVars
  <2>2. dataQ # <<>> => Head(dataQ') = Head(dataQ)
    <3>1. pHand \in Chunk /\ dataQ \in Seq(Chunk)
      BY <2>1 DEF IInv, Steps, TypeOK
    <3> QED
      BY <2>1, <3>1, AppendChunk
  <2>3. ConsumerUnaccounted' = ConsumerUnaccounted /\ ProducerUnaccounted' = ProducerUnaccounted
    BY <1>b, <1>c, <1>e, <2>1, <2>2 DEF ConsumerUnaccounted
  <2> QED
    BY <1>d, <1>e, <2>1, <2>2, <2>3 DEF Counted
<1> QED
  BY <1>1, <1>3, <1>4, <1>5, <1>6, <1>7 DEF Producer

\* The steps of the consumer keep the count exact.
LEMMA ConsumerCounted == IInv /\ Counted /\ Consumer => Counted'
<1> SUFFICES ASSUME IInv, Counted, Consumer PROVE Counted'
  OBVIOUS
<1> DEFINE h == Head(dataQ)
<1>a. /\ total \in Int /\ ProducerUnaccounted \in Int /\ contents \in [Chunk -> Seq(Nat)]
      /\ dataLast \in Nat /\ Total(SizesOf(contents)) \in Nat
      /\ dataQ # <<>> => contents[h] \in Seq(Nat) /\ Len(contents[h]) \in Nat
  BY UnaccountedType
<1>b. ConsumerUnaccounted = IF cPc = "put" THEN Len(contents[h]) - dataLast ELSE 0
  BY DEF ConsumerUnaccounted
<1>c. ConsumerUnaccounted' = IF cPc' = "put" THEN Len(contents'[Head(dataQ')]) - dataLast' ELSE 0
  BY DEF ConsumerUnaccounted
<1>d. /\ cPc = "using" => dataLast = Len(contents[h])
      /\ pPc = "filling" => cacheLast = Len(contents[Head(cacheQ)])
      /\ total + ProducerUnaccounted + ConsumerUnaccounted = Total(SizesOf(contents))
  BY DEF Counted
<1>e. pPc \in {"filling", "put"} => cacheQ # <<>>
  BY DEF IInv, Steps
<1>f. ASSUME cPc # "put", cPc' \notin {"put", "using"}, contents' = contents, total' = total,
             UNCHANGED pVars, cacheQ # <<>> => Head(cacheQ') = Head(cacheQ)
      PROVE  Counted'
  <2>1. ConsumerUnaccounted' = ConsumerUnaccounted
    BY <1>b, <1>c, <1>f
  <2>2. ProducerUnaccounted' = ProducerUnaccounted
    BY <1>e, <1>f DEF ProducerUnaccounted, pVars
  <2> QED
    BY <1>d, <1>e, <1>f, <2>1, <2>2 DEF Counted, pVars
<1>1. CASE WriteIntoRawBuffer \/ DiscardDataUpto \/ ClearData
  <2>1. PICK op \in {"read", "discard", "clear"}, want \in Nat : Call(op, want)
    BY <1>1, SizesAssumption DEF WriteIntoRawBuffer, DiscardDataUpto, ClearData
  <2> QED
    BY <1>f, <2>1 DEF Call
<1>2. CASE DataEmpty
  BY <1>f, <1>2 DEF DataEmpty
<1>3. CASE GetDataPtr
  <2>1. /\ cPc = "get" /\ cPc' = "using" /\ dataLast' = Len(contents[h])
        /\ UNCHANGED <<cacheQ, dataQ, contents, total, pPc, cacheLast>>
    BY <1>3 DEF GetDataPtr, pVars
  <2>2. ConsumerUnaccounted' = ConsumerUnaccounted /\ ProducerUnaccounted' = ProducerUnaccounted
    BY <1>b, <1>c, <2>1 DEF ProducerUnaccounted
  <2> QED
    BY <1>d, <2>1, <2>2 DEF Counted
<1>4. ASSUME NEW new \in Seq(Nat), cPc = "using", cPc' = "put",
             contents' = [contents EXCEPT ![h] = new],
             UNCHANGED <<cacheQ, dataQ, total, pVars, dataLast>>
      PROVE  Counted'
  <2>1. /\ dataQ # <<>> /\ h \in Chunk /\ contents'[h] = new
        /\ \A k \in Chunk : k # h => contents'[k] = contents[k]
    BY <1>a, <1>4, FrontChunks DEF IInv, Steps
  <2>2. cacheQ # <<>> => contents'[Head(cacheQ)] = contents[Head(cacheQ)]
    BY <2>1, FrontChunks
  <2>3. ProducerUnaccounted' = ProducerUnaccounted
    BY <1>4, <1>e, <2>2 DEF ProducerUnaccounted, pVars
  <2>4. Total(SizesOf(contents')) = Total(SizesOf(contents)) + (Len(new) - Len(contents[h]))
    BY <1>a, <1>4, <2>1, SizesChange
  <2>5. ConsumerUnaccounted' = Len(new) - Len(contents[h]) /\ ConsumerUnaccounted = 0
    BY <1>b, <1>c, <1>d, <1>4, <2>1
  <2>6. Len(new) \in Nat /\ Len(contents[h]) \in Nat
    BY <1>a, <2>1, LenProperties
  <2>7. total' + ProducerUnaccounted' + ConsumerUnaccounted' = Total(SizesOf(contents'))
    <3>1. \A t, u, z, a, b \in Int : t + u + 0 = z => t + u + (b - a) = z + (b - a)
      OBVIOUS
    <3> DEFINE z == Total(SizesOf(contents))
               a == Len(contents[h])
               b == Len(new)
    <3>2. z \in Int /\ b \in Int /\ a \in Int
      BY <1>a, <2>6
    <3>3. total + ProducerUnaccounted + 0 = z
      BY <1>d, <2>5
    <3> HIDE DEF z, a, b
    <3>4. total + ProducerUnaccounted + (b - a) = z + (b - a)
      BY <1>a, <3>1, <3>2, <3>3
    <3> QED
      BY <1>4, <2>3, <2>4, <2>5, <3>4 DEF z, a, b
  <2>8. pPc' = "filling" => cacheLast' = Len(contents'[Head(cacheQ')])
    BY <1>4, <1>d, <1>e, <2>2 DEF pVars
  <2> QED
    BY <1>4, <2>7, <2>8 DEF Counted
<1>5. CASE EraseBegin
  <2> DEFINE front == contents[h]
             n == IF Len(front) > cWant THEN cWant ELSE Len(front)
             new == SubSeq(front, n + 1, Len(front))
  <2>1. /\ front \in Seq(Nat) /\ Len(front) \in Nat /\ n \in 0 .. Len(front)
    <3>1. front \in Seq(Nat) /\ Len(front) \in Nat /\ cWant \in Nat
      BY <1>5, <1>a DEF EraseBegin, IInv, Steps, TypeOK
    <3> QED
      BY <3>1
  <2>2. new \in Seq(Nat)
    <3>1. n + 1 \in Int /\ Len(front) \in Int /\ \A i \in n + 1 .. Len(front) : front[i] \in Nat
      BY <2>1, ElementOfSeq
    <3> QED
      BY <3>1, SubSeqProperties
  <2>3. /\ contents' = [contents EXCEPT ![h] = new] /\ cPc = "using" /\ cPc' = "put"
        /\ UNCHANGED <<cacheQ, dataQ, total, pVars, dataLast>>
    BY <1>5 DEF EraseBegin
  <2> HIDE DEF new
  <2> QED
    BY <1>4, <2>2, <2>3
<1>6. CASE ClearFront
  <2>1. <<>> \in Seq(Nat)
    BY EmptySeq
  <2>2. /\ contents' = [contents EXCEPT ![h] = <<>>] /\ cPc = "using" /\ cPc' = "put"
        /\ UNCHANGED <<cacheQ, dataQ, total, pVars, dataLast>>
    BY <1>6 DEF ClearFront
  <2> QED
    BY <1>4, <2>1, <2>2
<1>7. CASE PutDataPtr
  <2>1. /\ cPc = "put" /\ cPc' \in {"rotate", "get", "idle"} /\ dataQ # <<>>
        /\ total' = total + (Len(contents[h]) - dataLast)
        /\ UNCHANGED <<cacheQ, dataQ, contents, pPc, cacheLast>>
    BY <1>7 DEF PutDataPtr, Continue, Return, pVars, IInv, Steps
  <2>2. ProducerUnaccounted' = ProducerUnaccounted /\ ConsumerUnaccounted' = 0
    BY <1>c, <2>1 DEF ProducerUnaccounted
  <2>3. total' + ProducerUnaccounted' + ConsumerUnaccounted' = Total(SizesOf(contents'))
    <3>1. \A t, u, z, a, b \in Int : t + u + (b - a) = z => (t + (b - a)) + u + 0 = z
      OBVIOUS
    <3> DEFINE z == Total(SizesOf(contents))
               b == Len(contents[h])
    <3>2. z \in Int /\ dataLast \in Int /\ b \in Int
      BY <1>a, <2>1
    <3>3. total + ProducerUnaccounted + (b - dataLast) = z
      BY <1>b, <1>d, <2>1
    <3> HIDE DEF z, b
    <3>4. (total + (b - dataLast)) + ProducerUnaccounted + 0 = z
      BY <1>a, <3>1, <3>2, <3>3
    <3> QED
      BY <2>1, <2>2, <3>4 DEF z, b
  <2> QED
    BY <1>d, <2>1, <2>3 DEF Counted
<1>8. CASE RotateDataRead
  BY <1>f, <1>8 DEF RotateDataRead
<1>9. CASE RotateDataWrite
  <2>1. /\ cPc = "recycle" /\ cPc' \in {"get", "idle"} /\ cacheQ' \in {cacheQ, Append(cacheQ, cHand)}
        /\ contents' = [contents EXCEPT ![cHand] = <<>>] /\ UNCHANGED <<total, pVars>>
    BY <1>9 DEF RotateDataWrite, Continue, Return
  <2>2. cHand \in Chunk /\ contents[cHand] = <<>> /\ cacheQ \in Seq(Chunk)
    BY <2>1 DEF IInv, Steps, TypeOK, ChunksClean
  <2>3. contents' = contents
    BY <1>a, <2>1, <2>2
  <2>4. cacheQ # <<>> => Head(cacheQ') = Head(cacheQ)
    BY <2>1, <2>2, AppendChunk
  <2> QED
    BY <1>f, <2>1, <2>3, <2>4
<1> QED
  BY <1>1, <1>2, <1>3, <1>5, <1>6, <1>7, <1>8, <1>9 DEF Consumer

\* Once the updates under way are made the count is the number of bytes, and as it is
\* the number of bytes there would be without these updates it is never negative.
LEMMA CountExact == IInv /\ Counted => TotalBytesExact
<1> SUFFICES ASSUME IInv, Counted PROVE TotalBytesExact
  OBVIOUS
<1>1. /\ ProducerUnaccounted \in Int /\ ConsumerUnaccounted \in Int /\ total \in Int
      /\ cacheQ # <<>> => contents[Head(cacheQ)] \in Seq(Nat) /\ Len(contents[Head(cacheQ)]) \in Nat
      /\ dataQ # <<>> => contents[Head(dataQ)] \in Seq(Nat) /\ Len(contents[Head(dataQ)]) \in Nat
      /\ cacheLast \in Nat /\ dataLast \in Nat /\ contents \in [Chunk -> Seq(Nat)]
  BY UnaccountedType
<1>2. (pPc = "put" => cacheQ # <<>>) /\ (cPc = "put" => dataQ # <<>>)
  BY DEF IInv, Steps
<1> DEFINE q == SizesOf(contents)
           r == IF pPc = "put" THEN [q EXCEPT ![Head(cacheQ)] = cacheLast] ELSE q
           s == IF cPc = "put" THEN [r EXCEPT ![Head(dataQ)] = dataLast] ELSE r
<1>3. /\ q \in Seq(Nat) /\ Len(q) = BufferSizeCount /\ \A k \in Chunk : q[k] = Len(contents[k])
  BY <1>1, SizesChange
<1>4. Chunk = 1 .. Len(q)
  BY <1>3 DEF Chunk
<1> HIDE DEF q
<1>5. r \in Seq(Nat) /\ Len(r) = Len(q) /\ Total(r) = Total(q) - ProducerUnaccounted /\ Total(q) \in Int
  <2>1. q \in Seq(Int) /\ Total(q) \in Int
    BY <1>3, TotalNat
  <2>2. CASE pPc = "put"
    <3> DEFINE c == Head(cacheQ)
    <3>1. c \in 1 .. Len(q) /\ q[c] = Len(contents[c]) /\ ProducerUnaccounted = Len(contents[c]) - cacheLast
      BY <1>2, <1>3, <1>4, <2>2, FrontChunks DEF ProducerUnaccounted
    <3>2. Len(contents[c]) \in Nat /\ cacheLast \in Int
      BY <1>1, <1>2, <2>2
    <3> HIDE DEF c
    <3>3. Total([q EXCEPT ![c] = cacheLast]) = Total(q) + (cacheLast - q[c])
      BY <2>1, <3>1, <3>2, TotalExcept
    <3>4. [q EXCEPT ![c] = cacheLast] \in Seq(Nat) /\ Len([q EXCEPT ![c] = cacheLast]) = Len(q)
      BY <1>1, <1>3, <3>1, ExceptSeq
    <3>5. Total([q EXCEPT ![c] = cacheLast]) = Total(q) - ProducerUnaccounted
      BY <1>1, <2>1, <3>1, <3>2, <3>3
    <3>6. r = [q EXCEPT ![c] = cacheLast]
      BY <2>2 DEF c
    <3> QED
      BY <2>1, <3>4, <3>5, <3>6
  <2>3. CASE pPc # "put"
    <3>1. ProducerUnaccounted = 0 /\ r = q
      BY <2>3 DEF ProducerUnaccounted
    <3>2. \A a \in Int : a = a - 0
      OBVIOUS
    <3>3. Total(r) = Total(q) - ProducerUnaccounted
      BY ONLY <2>1, <3>1, <3>2
    <3> HIDE DEF r
    <3> QED
      BY <1>3, <2>1, <3>1, <3>3
  <2> QED
    BY <2>2, <2>3
<1>6. cPc = "put" => r[Head(dataQ)] = Len(contents[Head(dataQ)]) /\ Head(dataQ) \in 1 .. Len(r)
  <2> SUFFICES ASSUME cPc = "put"
               PROVE  r[Head(dataQ)] = Len(contents[Head(dataQ)]) /\ Head(dataQ) \in 1 .. Len(r)
    OBVIOUS
  <2>1. Head(dataQ) \in Chunk /\ (cacheQ # <<>> => Head(cacheQ) \in Chunk /\ Head(cacheQ) # Head(dataQ))
    BY <1>2, FrontChunks
  <2>2. q[Head(dataQ)] = Len(contents[Head(dataQ)])
    BY <1>3, <2>1
  <2>3. r[Head(dataQ)] = q[Head(dataQ)]
    <3>1. q \in [1 .. Len(q) -> Nat]
      BY <1>3, LenProperties
    <3> QED
      BY <1>2, <1>4, <2>1, <3>1
  <2> QED
    BY <1>4, <1>5, <2>1, <2>2, <2>3
<1> HIDE DEF r
<1>7. s \in Seq(Nat) /\ Total(s) = Total(r) - ConsumerUnaccounted /\ Total(r) \in Int
  <2>1. r \in Seq(Int) /\ Total(r) \in Int
    BY <1>5, TotalNat
  <2>2. CASE cPc = "put"
    <3> DEFINE c == Head(dataQ)
    <3>1. c \in 1 .. Len(r) /\ r[c] = Len(contents[c]) /\ ConsumerUnaccounted = Len(contents[c]) - dataLast
      BY <1>6, <2>2 DEF ConsumerUnaccounted
    <3>2. Len(contents[c]) \in Nat /\ dataLast \in Int
      BY <1>1, <1>2, <2>2
    <3> HIDE DEF c
    <3>3. Total([r EXCEPT ![c] = dataLast]) = Total(r) + (dataLast - r[c])
      BY <2>1, <3>1, <3>2, TotalExcept
    <3>4. [r EXCEPT ![c] = dataLast] \in Seq(Nat)
      BY <1>1, <1>5, <3>1, ExceptSeq
    <3>5. Total([r EXCEPT ![c] = dataLast]) = Total(r) - ConsumerUnaccounted
      BY <1>1, <2>1, <3>1, <3>2, <3>3
    <3>6. s = [r EXCEPT ![c] = dataLast]
      BY <2>2 DEF c
    <3> QED
      BY <2>1, <3>4, <3>5, <3>6
  <2>3. CASE cPc # "put"
    <3>1. ConsumerUnaccounted = 0 /\ s = r
      BY <2>3 DEF ConsumerUnaccounted
    <3>2. \A a \in Int : a = a - 0
      OBVIOUS
    <3>3. Total(s) = Total(r) - ConsumerUnaccounted
      BY ONLY <2>1, <3>1, <3>2
    <3> HIDE DEF s
    <3> QED
      BY <1>5, <2>1, <3>1, <3>3
  <2> QED
    BY <2>2, <2>3
<1> HIDE DEF s
<1>8. Total(s) \in Nat
  BY <1>7, TotalNat
<1>9. total + ProducerUnaccounted + ConsumerUnaccounted = Total(q)
  BY DEF Counted, q
<1>10. total >= 0
  BY <1>1, <1>5, <1>7, <1>8, <1>9
<1> QED
  BY <1>9, <1>10 DEF TotalBytesExact, q, SizesOf

-----------------------------------------------------------------------------
(* The bytes between the two threads.                                      *)

\* The bytes of a line of chunks, of the chunk in a hand, and of the front of a queue
StreamOf(line, c) == Joined([i \in 1 .. Len(line) |-> c[line[i]]])
Hand(h)           == IF h = NoChunk THEN <<>> ELSE <<h>>
InHand(h, c)      == IF h = NoChunk THEN <<>> ELSE c[h]
InFront(q, c)     == IF q = <<>> THEN <<>> ELSE c[Head(q)]

\* The contents of the chunks of a line are a sequence of sequences.
LEMMA LineContents ==
  ASSUME NEW line \in Seq(Chunk), NEW c \in [Chunk -> Seq(Nat)]
  PROVE  /\ [i \in 1 .. Len(line) |-> c[line[i]]] \in Seq(Seq(Nat))
         /\ Len([i \in 1 .. Len(line) |-> c[line[i]]]) = Len(line)
         /\ StreamOf(line, c) \in Seq(Nat)
<1> DEFINE ss == [i \in 1 .. Len(line) |-> c[line[i]]]
<1>1. Len(line) \in Nat /\ \A i \in 1 .. Len(line) : c[line[i]] \in Seq(Nat)
  BY LenProperties
<1>2. ss \in Seq(Seq(Nat)) /\ Len(ss) = Len(line)
  BY <1>1
<1>3. Joined(ss) \in Seq(Nat)
  <2> HIDE DEF ss
  <2>1. PICK f : JoinsOf(Nat, ss, f)
    BY <1>2, JoinedAll
  <2> QED
    BY <1>2, <2>1, JoinedAll
<1> QED
  BY <1>2, <1>3 DEF StreamOf

\* The bytes of a line behind another.
LEMMA StreamConcat ==
  ASSUME NEW l \in Seq(Chunk), NEW m \in Seq(Chunk), NEW c \in [Chunk -> Seq(Nat)]
  PROVE  l \o m \in Seq(Chunk) /\ StreamOf(l \o m, c) = StreamOf(l, c) \o StreamOf(m, c)
<1> DEFINE x == [i \in 1 .. Len(l) |-> c[l[i]]]
           y == [i \in 1 .. Len(m) |-> c[m[i]]]
           z == [i \in 1 .. Len(l \o m) |-> c[(l \o m)[i]]]
<1>1. /\ l \o m \in Seq(Chunk) /\ Len(l \o m) = Len(l) + Len(m) /\ Len(l) \in Nat /\ Len(m) \in Nat
      /\ \A i \in 1 .. Len(l) + Len(m) : (l \o m)[i] = IF i <= Len(l) THEN l[i] ELSE m[i - Len(l)]
  BY ConcatProperties, LenProperties
<1>2. /\ x \in Seq(Seq(Nat)) /\ y \in Seq(Seq(Nat)) /\ z \in Seq(Seq(Nat))
      /\ Len(x) = Len(l) /\ Len(y) = Len(m) /\ Len(z) = Len(l) + Len(m)
  BY <1>1, LineContents
<1>3. /\ \A i \in 1 .. Len(l) : x[i] = c[l[i]]
      /\ \A i \in 1 .. Len(m) : y[i] = c[m[i]]
      /\ \A i \in 1 .. Len(l) + Len(m) : z[i] = c[(l \o m)[i]]
  BY <1>1
<1>4. StreamOf(l, c) = Joined(x) /\ StreamOf(m, c) = Joined(y) /\ StreamOf(l \o m, c) = Joined(z)
  BY DEF StreamOf
<1> HIDE DEF x, y, z
<1>5. z = x \o y
  <2>1. /\ x \o y \in Seq(Seq(Nat)) /\ Len(x \o y) = Len(x) + Len(y)
        /\ \A i \in 1 .. Len(x) + Len(y) : (x \o y)[i] = IF i <= Len(x) THEN x[i] ELSE y[i - Len(x)]
    <3> DEFINE V == Seq(Nat)
    <3>1. x \in Seq(V) /\ y \in Seq(V)
      BY <1>2
    <3> HIDE DEF V
    <3>2. /\ x \o y \in Seq(V) /\ Len(x \o y) = Len(x) + Len(y)
          /\ \A i \in 1 .. Len(x) + Len(y) : (x \o y)[i] = IF i <= Len(x) THEN x[i] ELSE y[i - Len(x)]
      BY <3>1, ConcatProperties
    <3> QED
      BY <3>2 DEF V
  <2>2. ASSUME NEW i \in 1 .. Len(l) + Len(m) PROVE z[i] = (x \o y)[i]
    <3>1. z[i] = c[(l \o m)[i]]
      BY <1>3
    <3>2. (x \o y)[i] = IF i <= Len(l) THEN x[i] ELSE y[i - Len(l)]
      BY <1>2, <2>1
    <3>3. CASE i <= Len(l)
      BY <1>1, <1>3, <3>1, <3>2, <3>3
    <3>4. CASE ~(i <= Len(l))
      <4>1. i - Len(l) \in 1 .. Len(m)
        BY <1>1, <3>4
      <4>2. (l \o m)[i] = m[i - Len(l)]
        BY <1>1, <3>4
      <4> QED
        BY <1>3, <3>1, <3>2, <3>4, <4>1, <4>2
    <3> QED
      BY <3>3, <3>4
  <2> QED
    BY <1>2, <2>1, <2>2, SeqEqual
<1>6. Joined(x \o y) = Joined(x) \o Joined(y)
  BY <1>2, JoinedConcat
<1> QED
  BY <1>1, <1>4, <1>5, <1>6

\* The bytes of one chunk.
LEMMA StreamOne ==
  ASSUME NEW k \in Chunk, NEW c \in [Chunk -> Seq(Nat)]
  PROVE  <<k>> \in Seq(Chunk) /\ StreamOf(<<k>>, c) = c[k]
<1> DEFINE line == <<k>>
           ss == [i \in 1 .. Len(line) |-> c[line[i]]]
<1>1. line \in Seq(Chunk) /\ Len(line) = 1 /\ line[1] = k
  BY SingleSeq
<1>2. c[k] \in Seq(Nat)
  OBVIOUS
<1>3. ss = <<c[k]>>
  <2>1. ss \in Seq(Seq(Nat)) /\ Len(ss) = 1 /\ ss[1] = c[k]
    BY <1>1, LineContents
  <2>2. <<c[k]>> \in Seq(Seq(Nat)) /\ Len(<<c[k]>>) = 1 /\ <<c[k]>>[1] = c[k]
    BY <1>2, SingleSeq
  <2> HIDE DEF ss
  <2>3. Len(ss) = Len(<<c[k]>>) /\ \A i \in 1 .. Len(ss) : ss[i] = <<c[k]>>[i]
    BY <2>1, <2>2
  <2> QED
    BY <2>1, <2>2, <2>3, SeqEqual
<1>4. Joined(<<c[k]>>) = c[k]
  BY <1>2, JoinedOne
<1> QED
  BY <1>1, <1>3, <1>4 DEF StreamOf

\* No bytes are in empty chunks.
LEMMA StreamNothing ==
  ASSUME NEW line \in Seq(Chunk), NEW c \in [Chunk -> Seq(Nat)],
         \A k \in ChunksIn(line) : c[k] = <<>>
  PROVE  StreamOf(line, c) = <<>>
<1> DEFINE ss == [i \in 1 .. Len(line) |-> c[line[i]]]
<1>1. ss \in Seq(Seq(Nat)) /\ Len(ss) = Len(line)
  BY LineContents
<1>2. \A i \in 1 .. Len(line) : ss[i] = <<>>
  BY DEF ChunksIn
<1> HIDE DEF ss
<1> QED
  BY <1>1, <1>2, JoinedNothing DEF StreamOf, ss

\* Only the contents of the chunks of a line matter.
LEMMA StreamSame ==
  ASSUME NEW line \in Seq(Chunk), NEW c, NEW d, \A k \in ChunksIn(line) : c[k] = d[k]
  PROVE  StreamOf(line, c) = StreamOf(line, d)
<1>1. [i \in 1 .. Len(line) |-> c[line[i]]] = [i \in 1 .. Len(line) |-> d[line[i]]]
  BY DEF ChunksIn
<1> QED
  BY <1>1 DEF StreamOf

\* The bytes of the front chunk, and of the others.
LEMMA StreamFront ==
  ASSUME NEW q \in Seq(Chunk), q # <<>>, NEW c \in [Chunk -> Seq(Nat)]
  PROVE  /\ StreamOf(q, c) = c[Head(q)] \o StreamOf(Tail(q), c)
         /\ c[Head(q)] \in Seq(Nat) /\ StreamOf(Tail(q), c) \in Seq(Nat) /\ Tail(q) \in Seq(Chunk)
<1> DEFINE h == Head(q)
           t == Tail(q)
<1>1. /\ h \in Chunk /\ t \in Seq(Chunk) /\ Len(t) = Len(q) - 1 /\ Len(q) \in Nat \ {0} /\ h = q[1]
      /\ \A i \in 1 .. Len(t) : t[i] = q[i + 1]
  BY TailRange
<1> HIDE DEF h, t
<1>2. q = <<h>> \o t
  <2>1. <<h>> \in Seq(Chunk) /\ Len(<<h>>) = 1 /\ <<h>>[1] = h
    BY <1>1, SingleSeq
  <2>2. /\ <<h>> \o t \in Seq(Chunk) /\ Len(<<h>> \o t) = Len(<<h>>) + Len(t)
        /\ \A i \in 1 .. Len(<<h>>) + Len(t) :
              (<<h>> \o t)[i] = IF i <= Len(<<h>>) THEN <<h>>[i] ELSE t[i - Len(<<h>>)]
    BY <1>1, <2>1, ConcatProperties
  <2>3. Len(<<h>> \o t) = Len(q)
    BY <1>1, <2>1, <2>2
  <2>4. ASSUME NEW i \in 1 .. Len(q) PROVE q[i] = (<<h>> \o t)[i]
    <3>1. CASE i = 1
      BY <1>1, <2>1, <2>2, <3>1
    <3>2. CASE i # 1
      <4>1. i - 1 \in 1 .. Len(t) /\ (i - 1) + 1 = i
        BY <1>1, <3>2
      <4>2. (<<h>> \o t)[i] = t[i - 1]
        BY <1>1, <2>1, <2>2, <3>2
      <4> QED
        BY <1>1, <4>1, <4>2
    <3> QED
      BY <3>1, <3>2
  <2> QED
    BY <2>2, <2>3, <2>4, SeqEqual
<1>3. StreamOf(<<h>> \o t, c) = StreamOf(<<h>>, c) \o StreamOf(t, c)
  <2>1. <<h>> \in Seq(Chunk)
    BY <1>1, SingleSeq
  <2> QED
    BY <1>1, <2>1, StreamConcat
<1>4. StreamOf(<<h>>, c) = c[h] /\ StreamOf(t, c) \in Seq(Nat) /\ c[h] \in Seq(Nat)
  BY <1>1, StreamOne, LineContents
<1> QED
  BY <1>1, <1>2, <1>3, <1>4 DEF h, t

\* The bytes between the threads: those of the data queue, of the chunk that is being
\* rotated, and of the chunk the producer fills, the only one of its queue with any.
LEMMA StreamParts ==
  ASSUME NEW q \in Seq(Chunk), NEW h \in Chunk \cup {NoChunk}, NEW e \in Seq(Chunk),
         NEW c \in [Chunk -> Seq(Nat)],
         e # <<>> => \A k \in ChunksIn(Tail(e)) : c[k] = <<>>
  PROVE  /\ StreamOf(q \o Hand(h) \o e, c) = (StreamOf(q, c) \o InHand(h, c)) \o InFront(e, c)
         /\ q \o Hand(h) \o e \in Seq(Chunk)
         /\ StreamOf(q, c) \in Seq(Nat) /\ InHand(h, c) \in Seq(Nat) /\ InFront(e, c) \in Seq(Nat)
<1>1. Hand(h) \in Seq(Chunk) /\ StreamOf(Hand(h), c) = InHand(h, c) /\ InHand(h, c) \in Seq(Nat)
  <2>1. CASE h = NoChunk
    <3>1. <<>> \in Seq(Chunk) /\ <<>> \in Seq(Nat) /\ ChunksIn(<<>>) = {}
      BY EmptySeq DEF ChunksIn
    <3> QED
      BY <2>1, <3>1, StreamNothing DEF Hand, InHand
  <2>2. CASE h # NoChunk
    BY <2>2, StreamOne DEF Hand, InHand
  <2> QED
    BY <2>1, <2>2
<1>2. StreamOf(e, c) = InFront(e, c) /\ InFront(e, c) \in Seq(Nat)
  <2>1. CASE e = <<>>
    <3>1. <<>> \in Seq(Chunk) /\ <<>> \in Seq(Nat) /\ ChunksIn(<<>>) = {}
      BY EmptySeq DEF ChunksIn
    <3> QED
      BY <2>1, <3>1, StreamNothing DEF InFront
  <2>2. CASE e # <<>>
    <3>1. /\ StreamOf(e, c) = c[Head(e)] \o StreamOf(Tail(e), c)
          /\ c[Head(e)] \in Seq(Nat) /\ Tail(e) \in Seq(Chunk)
      BY <2>2, StreamFront
    <3>2. StreamOf(Tail(e), c) = <<>>
      BY <2>2, <3>1, StreamNothing
    <3> QED
      BY <2>2, <3>1, <3>2, ConcatEmptySeq DEF InFront
  <2> QED
    BY <2>1, <2>2
<1>3. q \o Hand(h) \in Seq(Chunk) /\ StreamOf(q \o Hand(h), c) = StreamOf(q, c) \o StreamOf(Hand(h), c)
  BY <1>1, StreamConcat
<1>4. /\ q \o Hand(h) \o e \in Seq(Chunk)
      /\ StreamOf(q \o Hand(h) \o e, c) = StreamOf(q \o Hand(h), c) \o StreamOf(e, c)
  BY <1>3, StreamConcat
<1>5. StreamOf(q, c) \in Seq(Nat)
  BY LineContents
<1> QED
  BY <1>1, <1>2, <1>3, <1>4, <1>5

\* Chunks without repetition hold no more bytes than the pool.
LEMMA StreamFits ==
  ASSUME NEW line \in Seq(Chunk), NoRepeat(line), NEW c \in [Chunk -> Seq(Nat)],
         \A k \in Chunk : Len(c[k]) <= ElemSize
  PROVE  Len(StreamOf(line, c)) <= BufferSizeCount * ElemSize
<1> USE CountAssumption, SizesAssumption
<1> DEFINE ss == [i \in 1 .. Len(line) |-> c[line[i]]]
<1>1. Len(line) \in Nat /\ line \in [1 .. Len(line) -> Chunk]
  BY LenProperties
<1>2. Len(line) <= BufferSizeCount
  <2>1. IsFiniteSet(Chunk) /\ Cardinality(Chunk) = BufferSizeCount
    BY FS_Interval DEF Chunk
  <2>2. IsFiniteSet(1 .. Len(line)) /\ Cardinality(1 .. Len(line)) = Len(line)
    BY <1>1, FS_Interval, SMTT(20)
  <2> SUFFICES ASSUME BufferSizeCount < Len(line) PROVE FALSE
    BY <1>1
  <2>3. \E x, y \in 1 .. Len(line) : x # y /\ line[x] = line[y]
    BY <1>1, <2>1, <2>2, FS_PigeonHole
  <2> QED
    BY <2>3 DEF NoRepeat
<1>3. ss \in Seq(Seq(Nat)) /\ Len(ss) = Len(line) /\ \A i \in 1 .. Len(ss) : Len(ss[i]) <= ElemSize
  BY <1>1, LineContents
<1> HIDE DEF ss
<1>4. Len(Joined(ss)) <= Len(ss) * ElemSize
  BY <1>3, JoinedLength
<1>5. StreamOf(line, c) \in Seq(Nat) /\ StreamOf(line, c) = Joined(ss)
  BY LineContents DEF StreamOf, ss
<1>6. Len(Joined(ss)) \in Nat
  BY <1>5, LenProperties
<1>7. \A m, n, k \in Nat : m <= n => m * k <= n * k
  OBVIOUS
<1>8. Len(line) * ElemSize <= BufferSizeCount * ElemSize
  BY <1>1, <1>2, <1>7
<1>9. \A a, b, d \in Nat : a <= b /\ b <= d => a <= d
  OBVIOUS
<1>10. Len(line) * ElemSize \in Nat /\ BufferSizeCount * ElemSize \in Nat
  BY <1>1
<1> QED
  BY <1>3, <1>4, <1>5, <1>6, <1>8, <1>9, <1>10

\* The consumer asks for bytes, or has emptied its chunk and is rotating it.
Wanting == cPc \in {"get", "using"} /\ cOp # "clear" => cWant > 0

\* It starts asking for some, and asks again only for those it has not got.
LEMMA WantingInv ==
  /\ Init => Wanting
  /\ IInv /\ Wanting /\ [Next]_vars => Wanting'
<1>1. Init => Wanting
  BY DEF Init, Wanting
<1>2. ASSUME IInv, Wanting, [Next]_vars PROVE Wanting'
  <2>1. CASE WriteIntoRawBuffer \/ DiscardDataUpto \/ ClearData
    <3>1. PICK op \in {"read", "discard", "clear"}, want \in Nat :
            Call(op, want) /\ (op # "clear" => want > 0)
      BY <2>1, SizesAssumption DEF WriteIntoRawBuffer, DiscardDataUpto, ClearData
    <3> QED
      BY <3>1 DEF Call, Wanting
  <2>2. CASE DataEmpty \/ EraseBegin \/ ClearFront \/ RotateDataRead
    <3>1. cPc' \in {"idle", "put", "recycle"}
      BY <2>2 DEF DataEmpty, EraseBegin, ClearFront, RotateDataRead
    <3> QED
      BY <3>1 DEF Wanting
  <2>3. CASE GetDataPtr
    BY <1>2, <2>3 DEF GetDataPtr, Wanting
  <2>4. CASE PutDataPtr \/ RotateDataWrite
    <3>1. cPc' = "rotate" \/ Continue
      BY <2>4 DEF PutDataPtr, RotateDataWrite
    <3> QED
      BY <3>1 DEF Continue, Return, Wanting
  <2>5. CASE Producer \/ UNCHANGED vars
    <3>1. UNCHANGED <<cPc, cOp, cWant>>
      BY <2>5 DEF Producer, GetCachePtr, Fill, ClearCache, PutCachePtr, RotateCacheRead,
                  RotateCacheWrite, vars, cVars
    <3> QED
      BY <1>2, <3>1 DEF Wanting
  <2> QED
    BY <1>2, <2>1, <2>2, <2>3, <2>4, <2>5 DEF Next, Consumer
<1> QED
  BY <1>1, <1>2

\* What the refinement needs of a state
StreamFacts ==
  /\ streamed = (StreamOf(dataQ, contents) \o InHand(pHand, contents)) \o InFront(cacheQ, contents)
  /\ StreamOf(dataQ, contents) \in Seq(Nat) /\ InHand(pHand, contents) \in Seq(Nat)
  /\ InFront(cacheQ, contents) \in Seq(Nat) /\ streamed \in Seq(Nat)
  /\ Len(streamed) <= BufferSizeCount * ElemSize
  /\ cacheQ # <<>> => \A k \in ChunksIn(Tail(cacheQ)) : contents[k] = <<>>

\* The invariant gives it.
LEMMA StreamState == IInv => StreamFacts
<1> SUFFICES ASSUME IInv PROVE StreamFacts
  OBVIOUS
<1>1. /\ dataQ \in Seq(Chunk) /\ cacheQ \in Seq(Chunk) /\ pHand \in Chunk \cup {NoChunk}
      /\ contents \in [Chunk -> Seq(Nat)] /\ \A k \in Chunk : Len(contents[k]) <= ElemSize
  BY DEF IInv, TypeOK
<1>2. cacheQ # <<>> => \A k \in ChunksIn(Tail(cacheQ)) : contents[k] = <<>>
  <2> SUFFICES ASSUME cacheQ # <<>>, NEW k \in ChunksIn(Tail(cacheQ)) PROVE contents[k] = <<>>
    OBVIOUS
  <2>1. k \in ChunksIn(cacheQ) /\ k # Head(cacheQ)
    BY <1>1, TailChunk DEF IInv, ChunkOwnership
  <2> QED
    BY <2>1 DEF IInv, ChunksClean
<1> DEFINE line == dataQ \o Hand(pHand) \o cacheQ
<1>3. /\ StreamOf(line, contents)
           = (StreamOf(dataQ, contents) \o InHand(pHand, contents)) \o InFront(cacheQ, contents)
      /\ line \in Seq(Chunk)
      /\ StreamOf(dataQ, contents) \in Seq(Nat) /\ InHand(pHand, contents) \in Seq(Nat)
      /\ InFront(cacheQ, contents) \in Seq(Nat)
  BY <1>1, <1>2, StreamParts
<1>4. streamed = StreamOf(line, contents)
  BY DEF streamed, chunkLine, StreamOf, Hand
<1>5. NoRepeat(line)
  <2>1. Hand(pHand) \in Seq(Chunk) /\ IsInjective(Hand(pHand)) /\ Range(Hand(pHand)) = {pHand} \ {NoChunk}
    <3>1. CASE pHand = NoChunk
      BY <3>1, NothingIn DEF Hand
    <3>2. CASE pHand # NoChunk
      BY <1>1, <3>2, SingleSeq DEF Hand
    <3> QED
      BY <3>1, <3>2
  <2>2. ASSUME NEW q \in Seq(Chunk) PROVE (NoRepeat(q) <=> IsInjective(q)) /\ ChunksIn(q) = Range(q)
    <3>1. DOMAIN q = 1 .. Len(q)
      BY LenProperties
    <3> QED
      BY <3>1 DEF NoRepeat, IsInjective, ChunksIn, Range
  <2>3. IsInjective(dataQ) /\ IsInjective(cacheQ) /\ Range(dataQ) \cap Range(cacheQ) = {}
        /\ pHand \notin Range(dataQ) /\ pHand \notin Range(cacheQ)
    BY <1>1, <2>2 DEF IInv, ChunkOwnership
  <2>4. /\ dataQ \o Hand(pHand) \in Seq(Chunk) /\ IsInjective(dataQ \o Hand(pHand))
        /\ Range(dataQ \o Hand(pHand)) = Range(dataQ) \cup ({pHand} \ {NoChunk})
    <3>1. Range(dataQ) \cap Range(Hand(pHand)) = {}
      BY <2>1, <2>3
    <3> QED
      BY <1>1, <2>1, <2>3, <3>1, ConcatRange
  <2>5. IsInjective(line)
    <3>1. Range(dataQ \o Hand(pHand)) \cap Range(cacheQ) = {}
      BY <2>3, <2>4
    <3> QED
      BY <1>1, <2>3, <2>4, <3>1, ConcatRange
  <2> QED
    BY <1>3, <2>2, <2>5
<1>6. Len(StreamOf(line, contents)) <= BufferSizeCount * ElemSize /\ StreamOf(line, contents) \in Seq(Nat)
  <2> HIDE DEF line
  <2> QED
    BY <1>1, <1>3, <1>5, StreamFits, LineContents
<1> HIDE DEF line
<1> QED
  BY <1>2, <1>3, <1>4, <1>6 DEF StreamFacts

\* So it does after a step.
LEMMA StreamStateNext == IInv' => StreamFacts'
BY StreamState, PTL

\* A step that changes the bytes of no part leaves the stream as it is.
LEMMA StreamKept ==
  ASSUME IInv, IInv', StreamOf(dataQ', contents') = StreamOf(dataQ, contents),
         InHand(pHand', contents') = InHand(pHand, contents),
         InFront(cacheQ', contents') = InFront(cacheQ, contents)
  PROVE  streamed' = streamed
BY StreamState, StreamStateNext DEF StreamFacts

\* Three sequences of bytes can be put together in either order.
LEMMA RegroupBytes ==
  ASSUME NEW x \in Seq(Nat), NEW y \in Seq(Nat), NEW z \in Seq(Nat)
  PROVE  (x \o y) \o z = x \o (y \o z)
<1> DEFINE N == Nat
<1>1. x \in Seq(N) /\ y \in Seq(N) /\ z \in Seq(N)
  OBVIOUS
<1> HIDE DEF N
<1>2. Associative(N)
  BY ONLY RegroupAll, Zenon
<1> QED
  BY ONLY <1>1, <1>2, Zenon DEF Associative

\* Bytes taken from the front of the first of two sequences.
LEMMA DropBytes ==
  ASSUME NEW x \in Seq(Nat), NEW z \in Seq(Nat), NEW n \in 0 .. Len(x)
  PROVE  /\ SubSeq(x \o z, 1, n) = SubSeq(x, 1, n)
         /\ SubSeq(x \o z, n + 1, Len(x \o z)) = SubSeq(x, n + 1, Len(x)) \o z
         /\ SubSeq(x, n + 1, Len(x)) \in Seq(Nat)
<1>1. SubSeq(x \o z, 1, n) = SubSeq(x, 1, n)
  BY ConcatDrop
<1>2. SubSeq(x \o z, n + 1, Len(x \o z)) = SubSeq(x, n + 1, Len(x)) \o z
  BY ConcatDrop, ZenonT(40)
<1>3. SubSeq(x, n + 1, Len(x)) \in Seq(Nat)
  BY ConcatDrop
<1> QED
  BY <1>1, <1>2, <1>3

\* The producer puts bytes behind the stream, takes some of them back, or leaves the
\* stream as it is.
LEMMA ProducerStreams ==
  IInv /\ IInv' /\ Producer => Pipe!Put \/ Pipe!TakeBack \/ UNCHANGED <<streamed, output>>
<1> SUFFICES ASSUME IInv, IInv', Producer
             PROVE  Pipe!Put \/ Pipe!TakeBack \/ UNCHANGED <<streamed, output>>
  OBVIOUS
<1> DEFINE h == Head(cacheQ)
           d == StreamOf(dataQ, contents)
           k == InHand(pHand, contents)
           f == InFront(cacheQ, contents)
<1>a. /\ dataQ \in Seq(Chunk) /\ cacheQ \in Seq(Chunk) /\ contents \in [Chunk -> Seq(Nat)]
      /\ pHand \in Chunk \cup {NoChunk} /\ (pPc = "pass" <=> pHand # NoChunk)
      /\ pPc \in {"filling", "put", "rotate"} => cacheQ # <<>>
  BY DEF IInv, TypeOK, Steps
<1>b. /\ streamed = (d \o k) \o f /\ d \in Seq(Nat) /\ k \in Seq(Nat) /\ f \in Seq(Nat)
      /\ streamed \in Seq(Nat) /\ d \o k \in Seq(Nat)
      /\ cacheQ # <<>> => \A c \in ChunksIn(Tail(cacheQ)) : contents[c] = <<>>
  BY StreamState, ConcatProperties DEF StreamFacts
<1>c. /\ streamed' = (StreamOf(dataQ', contents') \o InHand(pHand', contents')) \o InFront(cacheQ', contents')
      /\ streamed' \in Seq(Nat) /\ Len(streamed') <= BufferSizeCount * ElemSize
  BY StreamStateNext DEF StreamFacts
<1>d. output' = output
  BY DEF Producer, GetCachePtr, Fill, ClearCache, PutCachePtr, RotateCacheRead, RotateCacheWrite, cVars
<1>1. CASE GetCachePtr \/ PutCachePtr
  <2>1. UNCHANGED <<dataQ, pHand, cacheQ, contents>>
    BY <1>1 DEF GetCachePtr, PutCachePtr, cVars
  <2> QED
    BY <1>d, <2>1, StreamKept
<1>2. ASSUME NEW new \in Seq(Nat), pPc = "filling", contents' = [contents EXCEPT ![h] = new],
             UNCHANGED <<cacheQ, dataQ, pHand>>
      PROVE  streamed' = (d \o k) \o new /\ f = contents[h]
  <2>1. /\ cacheQ # <<>> /\ h \in Chunk /\ h \notin ChunksIn(dataQ) \cup {pHand}
        /\ contents'[h] = new
        /\ \A c \in Chunk : c # h => contents'[c] = contents[c]
    BY <1>a, <1>2, FrontChunks
  <2>2. ChunksIn(dataQ) \subseteq Chunk
    BY <1>a, ElementOfSeq DEF ChunksIn
  <2>3. StreamOf(dataQ', contents') = d
    <3>1. \A c \in ChunksIn(dataQ) : contents'[c] = contents[c]
      BY <2>1, <2>2
    <3>2. StreamOf(dataQ, contents') = StreamOf(dataQ, contents)
      BY <1>a, <3>1, StreamSame
    <3> QED
      BY <1>2, <3>2
  <2>4. InHand(pHand', contents') = k
    BY <1>a, <1>2, <2>1 DEF InHand
  <2>5. InFront(cacheQ', contents') = new /\ f = contents[h]
    BY <1>2, <2>1 DEF InFront
  <2> QED
    BY <1>c, <2>3, <2>4, <2>5
<1>3. CASE Fill
  <2>1. PICK n \in 0 .. StreamLength - next, rotate \in BOOLEAN :
          contents' = [contents EXCEPT ![h] = @ \o [i \in 1 .. n |-> next + i - 1]]
    BY <1>3 DEF Fill
  <2> DEFINE more == [i \in 1 .. n |-> next + i - 1]
  <2>2. h \in Chunk /\ contents[h] \in Seq(Nat) /\ next \in Nat /\ n \in Nat
    BY <1>3, <1>a, FrontChunks, SizesAssumption DEF Fill, IInv, Steps, TypeOK
  <2>3. more \in Seq(Nat)
    BY <2>2
  <2> HIDE DEF more
  <2>4. contents[h] \o more \in Seq(Nat)
    BY <2>2, <2>3, ConcatProperties
  <2>5. contents' = [contents EXCEPT ![h] = contents[h] \o more]
    BY <2>1, <1>a DEF more
  <2>6. pPc = "filling" /\ UNCHANGED <<cacheQ, dataQ, pHand>>
    BY <1>3 DEF Fill, cVars
  <2>7. streamed' = (d \o k) \o (f \o more)
    BY <1>2, <2>4, <2>5, <2>6
  <2> HIDE DEF d, k, f
  <2>8. (d \o k) \o (f \o more) = ((d \o k) \o f) \o more
    <3> DEFINE x == d \o k
    <3>1. x \in Seq(Nat) /\ f \in Seq(Nat)
      BY <1>b
    <3> HIDE DEF x
    <3>2. (x \o f) \o more = x \o (f \o more)
      BY <2>3, <3>1, RegroupBytes
    <3> QED
      BY <3>2 DEF x
  <2>9. streamed' = streamed \o more
    BY <1>b, <2>7, <2>8
  <2>10. Len(streamed) <= Len(streamed \o more)
         /\ SubSeq(streamed, 1, Len(streamed)) = SubSeq(streamed \o more, 1, Len(streamed))
    <3> HIDE DEF streamed
    <3> QED
      BY <1>b, <2>3, ConcatPrefix
  <2> QED
    BY <1>c, <1>d, <2>9, <2>10 DEF Pipe!Put, Pipe!IsPrefix
<1>4. CASE ClearCache
  <2>1. <<>> \in Seq(Nat)
    BY EmptySeq
  <2>2. pPc = "filling" /\ contents' = [contents EXCEPT ![h] = <<>>] /\ UNCHANGED <<cacheQ, dataQ, pHand>>
    BY <1>4 DEF ClearCache, cVars
  <2>3. streamed' = (d \o k) \o <<>>
    BY <1>2, <2>1, <2>2
  <2> HIDE DEF d, k, f
  <2>4. streamed' = d \o k
    BY <1>b, <2>3, ConcatEmptySeq
  <2>5. Len(d \o k) <= Len((d \o k) \o f) /\ SubSeq(d \o k, 1, Len(d \o k)) = SubSeq((d \o k) \o f, 1, Len(d \o k))
    <3> DEFINE x == d \o k
    <3>1. x \in Seq(Nat) /\ f \in Seq(Nat)
      BY <1>b
    <3> HIDE DEF x
    <3>2. Len(x) <= Len(x \o f) /\ SubSeq(x, 1, Len(x)) = SubSeq(x \o f, 1, Len(x))
      BY <3>1, ConcatPrefix
    <3> QED
      BY <3>2 DEF x
  <2> QED
    BY <1>b, <1>d, <2>4, <2>5 DEF Pipe!TakeBack, Pipe!IsPrefix
<1>5. CASE RotateCacheRead
  <2>1. /\ cacheQ # <<>> /\ pHand = NoChunk /\ cacheQ' = Tail(cacheQ)
        /\ dataQ' = dataQ /\ contents' = contents
    BY <1>5, <1>a DEF RotateCacheRead
  <2>2. Tail(cacheQ) \in Seq(Chunk) /\ h \in Chunk
    BY <1>a, <2>1, TailChunk
  <2>3. InFront(cacheQ', contents') = <<>>
    <3>1. Tail(cacheQ) # <<>> => Head(Tail(cacheQ)) \in ChunksIn(Tail(cacheQ))
      BY <2>2, TailChunk
    <3> QED
      BY <1>b, <2>1, <3>1 DEF InFront
  <2>4. k = <<>> /\ f = contents[h]
    BY <2>1 DEF InHand, InFront
  <2>5. CASE contents[h] = <<>>
    <3>1. pHand' = pHand
      BY <1>5, <2>5 DEF RotateCacheRead
    <3> QED
      BY <1>d, <2>1, <2>3, <2>4, <2>5, <3>1, StreamKept
  <2>6. CASE contents[h] # <<>>
    <3>1. pHand' = h
      BY <1>5, <2>6 DEF RotateCacheRead
    <3>2. InHand(pHand', contents') = f
      BY <2>1, <2>2, <2>4, <3>1, FrontChunks DEF InHand
    <3>3. streamed' = (d \o f) \o <<>>
      BY <1>c, <2>1, <2>3, <3>2
    <3> HIDE DEF d, k, f
    <3>4. (d \o f) \o <<>> = d \o f /\ d \o <<>> = d
      BY <1>b, ConcatProperties, ConcatEmptySeq
    <3> QED
      BY <1>b, <1>d, <2>4, <3>3, <3>4
  <2> QED
    BY <2>5, <2>6
<1>6. CASE RotateCacheWrite
  <2>1. pHand \in Chunk /\ pHand' = NoChunk /\ cacheQ' = cacheQ /\ contents' = contents
    BY <1>6, <1>a DEF RotateCacheWrite
  <2>2. dataQ' = Append(dataQ, pHand)
    <3>1. pHand \notin ChunksIn(dataQ) /\ NoRepeat(dataQ)
      BY DEF IInv, ChunkOwnership
    <3> QED
      BY <1>6, <1>a, <2>1, <3>1, RoomForMissing DEF RotateCacheWrite
  <2>3. StreamOf(dataQ', contents') = d \o k
    <3>1. dataQ' = dataQ \o <<pHand>>
      BY <1>a, <2>1, <2>2, AppendIsConcat
    <3>2. <<pHand>> \in Seq(Chunk) /\ StreamOf(<<pHand>>, contents) = contents[pHand]
      BY <1>a, <2>1, StreamOne
    <3>3. StreamOf(dataQ \o <<pHand>>, contents) = d \o StreamOf(<<pHand>>, contents)
      BY <1>a, <3>2, StreamConcat
    <3>4. k = contents[pHand]
      BY <2>1, FrontChunks DEF InHand
    <3> QED
      BY <2>1, <3>1, <3>2, <3>3, <3>4
  <2>4. InHand(pHand', contents') = <<>> /\ InFront(cacheQ', contents') = f
    BY <2>1 DEF InHand
  <2>5. streamed' = ((d \o k) \o <<>>) \o f
    BY <1>c, <2>3, <2>4
  <2> HIDE DEF d, k, f
  <2>6. (d \o k) \o <<>> = d \o k
    BY <1>b, ConcatEmptySeq
  <2> QED
    BY <1>b, <1>d, <2>5, <2>6
<1> QED
  BY <1>1, <1>3, <1>4, <1>5, <1>6 DEF Producer

\* The consumer takes bytes from the head of the stream, all it wants or all of a
\* chunk, or leaves the stream as it is.
LEMMA ConsumerStreams ==
  IInv /\ IInv' /\ Wanting /\ Consumer =>
    Pipe!Take \/ Pipe!Discard \/ UNCHANGED <<streamed, output>>
<1> SUFFICES ASSUME IInv, IInv', Wanting, Consumer
             PROVE  Pipe!Take \/ Pipe!Discard \/ UNCHANGED <<streamed, output>>
  OBVIOUS
<1> DEFINE h == Head(dataQ)
           d == StreamOf(dataQ, contents)
           r == StreamOf(Tail(dataQ), contents)
           k == InHand(pHand, contents)
           f == InFront(cacheQ, contents)
           rest == (r \o k) \o f
<1>a. /\ dataQ \in Seq(Chunk) /\ cacheQ \in Seq(Chunk) /\ contents \in [Chunk -> Seq(Nat)]
      /\ pHand \in Chunk \cup {NoChunk} /\ cWant \in Nat
      /\ cPc \in {"using", "put", "rotate"} => dataQ # <<>>
  BY DEF IInv, TypeOK, Steps
<1>b. /\ streamed = (d \o k) \o f /\ d \in Seq(Nat) /\ k \in Seq(Nat) /\ f \in Seq(Nat)
      /\ streamed \in Seq(Nat)
  BY StreamState DEF StreamFacts
<1>c. streamed' = (StreamOf(dataQ', contents') \o InHand(pHand', contents')) \o InFront(cacheQ', contents')
  BY StreamStateNext DEF StreamFacts
<1>d. dataQ # <<>> => /\ d = contents[h] \o r /\ contents[h] \in Seq(Nat) /\ r \in Seq(Nat)
                      /\ h \in Chunk /\ Tail(dataQ) \in Seq(Chunk)
  BY <1>a, StreamFront, FrontChunks
\* The bytes of the front chunk, and the rest.
<1>e. dataQ # <<>> => streamed = contents[h] \o rest /\ rest \in Seq(Nat)
  <2> SUFFICES ASSUME dataQ # <<>> PROVE streamed = contents[h] \o rest /\ rest \in Seq(Nat)
    OBVIOUS
  <2> DEFINE x == contents[h]
  <2>1. d = x \o r /\ x \in Seq(Nat) /\ r \in Seq(Nat) /\ k \in Seq(Nat) /\ f \in Seq(Nat)
    BY <1>b, <1>d
  <2>2. streamed = (d \o k) \o f
    BY <1>b
  <2> HIDE DEF x, r, k, f, d
  <2>3. r \o k \in Seq(Nat) /\ (r \o k) \o f \in Seq(Nat)
    BY <2>1, ConcatProperties
  <2>4. (x \o r) \o k = x \o (r \o k)
    BY <2>1, RegroupBytes
  <2>5. (x \o (r \o k)) \o f = x \o ((r \o k) \o f)
    <3> DEFINE y == r \o k
    <3>1. y \in Seq(Nat)
      BY <2>3
    <3> HIDE DEF y
    <3>2. (x \o y) \o f = x \o (y \o f)
      BY <2>1, <3>1, RegroupBytes, ZenonT(40)
    <3> QED
      BY <3>2 DEF y
  <2> QED
    BY <2>1, <2>2, <2>3, <2>4, <2>5 DEF x
<1>1. CASE WriteIntoRawBuffer \/ DiscardDataUpto \/ ClearData \/ DataEmpty \/ GetDataPtr \/ PutDataPtr
  <2>1. UNCHANGED <<dataQ, pHand, cacheQ, contents, output>>
    BY <1>1 DEF WriteIntoRawBuffer, DiscardDataUpto, ClearData, Call, DataEmpty, GetDataPtr,
                PutDataPtr, pVars
  <2> QED
    BY <2>1, StreamKept
\* What a change to the front chunk does to the stream.
<1>2. ASSUME NEW n \in 0 .. Len(contents[h]), cPc = "using",
             contents' = [contents EXCEPT ![h] = SubSeq(contents[h], n + 1, Len(contents[h]))],
             UNCHANGED <<cacheQ, dataQ, pHand>>
      PROVE  /\ streamed' = SubSeq(streamed, n + 1, Len(streamed))
             /\ SubSeq(streamed, 1, n) = SubSeq(contents[h], 1, n)
             /\ n > 0 => n \in 1 .. Len(streamed)
  <2> DEFINE x == contents[h]
             y == SubSeq(x, n + 1, Len(x))
  <2>1. /\ dataQ # <<>> /\ h \in Chunk /\ h \notin ChunksIn(cacheQ) \cup {pHand}
        /\ NoRepeat(dataQ) /\ x \in Seq(Nat) /\ rest \in Seq(Nat) /\ streamed = x \o rest
        /\ cacheQ # <<>> => Head(cacheQ) \in ChunksIn(cacheQ)
    BY <1>a, <1>d, <1>e, <1>2, FrontChunks DEF IInv, ChunkOwnership
  <2>2. contents'[h] = y /\ \A c \in Chunk : c # h => contents'[c] = contents[c]
    BY <1>a, <1>2, <2>1
  <2>3. StreamOf(dataQ', contents') = y \o r
    <3>1. Tail(dataQ) \in Seq(Chunk) /\ ChunksIn(Tail(dataQ)) \subseteq Chunk \ {h}
      <4>1. Tail(dataQ) \in Seq(Chunk) /\ ChunksIn(Tail(dataQ)) = ChunksIn(dataQ) \ {h}
        BY <1>a, <2>1, TailChunk
      <4>2. ChunksIn(dataQ) \subseteq Chunk
        BY <1>a, ElementOfSeq DEF ChunksIn
      <4> QED
        BY <4>1, <4>2
    <3>2. \A c \in ChunksIn(Tail(dataQ)) : contents'[c] = contents[c]
      BY <2>2, <3>1
    <3>3. StreamOf(Tail(dataQ), contents') = r
      BY <3>1, <3>2, StreamSame
    <3>4. contents' \in [Chunk -> Seq(Nat)]
      BY DEF IInv, TypeOK
    <3>5. StreamOf(dataQ, contents') = contents'[h] \o StreamOf(Tail(dataQ), contents')
      BY <1>a, <2>1, <3>4, StreamFront
    <3> QED
      BY <1>2, <2>2, <3>3, <3>5
  <2>4. InHand(pHand', contents') = k
    BY <1>a, <1>2, <2>1, <2>2 DEF InHand
  <2>5. InFront(cacheQ', contents') = f
    <3>1. cacheQ # <<>> => Head(cacheQ) \in Chunk /\ Head(cacheQ) # h
      BY <2>1, FrontChunks
    <3> QED
      BY <1>2, <2>2, <3>1 DEF InFront
  <2>6. streamed' = ((y \o r) \o k) \o f
    BY <1>c, <2>3, <2>4, <2>5
  <2>7. r \in Seq(Nat) /\ k \in Seq(Nat) /\ f \in Seq(Nat) /\ x \in Seq(Nat) /\ n \in 0 .. Len(x)
        /\ rest \in Seq(Nat) /\ streamed = x \o rest /\ rest = (r \o k) \o f
    BY <1>b, <1>d, <2>1
  <2> HIDE DEF x, r, k, f, d, rest
  <2>8. /\ SubSeq(x \o rest, 1, n) = SubSeq(x, 1, n)
        /\ SubSeq(x \o rest, n + 1, Len(x \o rest)) = y \o rest
        /\ y \in Seq(Nat)
    <3>1. x \in Seq(Nat) /\ rest \in Seq(Nat) /\ n \in 0 .. Len(x)
      BY <2>7
    <3> QED
      BY ONLY <3>1, DropBytes, Zenon
  <2> HIDE DEF y
  <2>9. ((y \o r) \o k) \o f = y \o ((r \o k) \o f)
    <3>1. (y \o r) \o k = y \o (r \o k)
      BY <2>7, <2>8, RegroupBytes
    <3> DEFINE z == r \o k
    <3>2. z \in Seq(Nat)
      BY <2>7, ConcatProperties
    <3> HIDE DEF z
    <3>3. (y \o z) \o f = y \o (z \o f)
      <4>1. y \in Seq(Nat) /\ f \in Seq(Nat)
        BY <2>7, <2>8
      <4> QED
        BY ONLY <3>2, <4>1, RegroupBytes, Zenon
    <3> QED
      BY <3>1, <3>3 DEF z
  <2>10. n > 0 => n \in 1 .. Len(x \o rest)
    <3>1. Len(x \o rest) = Len(x) + Len(rest) /\ Len(x) \in Nat /\ Len(rest) \in Nat
      BY <2>7, ConcatProperties, LenProperties
    <3> QED
      BY <2>7, <3>1
  <2> QED
    BY <2>6, <2>7, <2>8, <2>9, <2>10 DEF x
<1>3. dataQ # <<>> /\ cPc = "using" => Len(contents[h]) \in Nat \ {0}
  <2> SUFFICES ASSUME dataQ # <<>>, cPc = "using" PROVE Len(contents[h]) \in Nat \ {0}
    OBVIOUS
  <2>1. contents[h] # <<>>
    BY FrontChunks DEF IInv, ChunksClean
  <2> QED
    BY <1>d, <2>1, EmptySeq, LenProperties
<1>4. CASE EraseBegin
  <2> DEFINE front == contents[h]
             n == IF Len(front) > cWant THEN cWant ELSE Len(front)
  <2>1. /\ dataQ # <<>> /\ Len(front) \in Nat \ {0} /\ cWant > 0
        /\ cPc = "using" /\ cOp # "clear"
    BY <1>a, <1>3, <1>4 DEF EraseBegin, Wanting
  <2>2. n \in 0 .. Len(front) /\ n > 0
    BY <1>a, <2>1
  <2>3. /\ contents' = [contents EXCEPT ![h] = SubSeq(front, n + 1, Len(front))]
        /\ output' = IF cOp = "read" THEN SubSeq(front, 1, n) ELSE output
        /\ UNCHANGED <<cacheQ, dataQ, pHand>>
    BY <1>4 DEF EraseBegin, pVars
  <2> HIDE DEF n
  <2>4. /\ streamed' = SubSeq(streamed, n + 1, Len(streamed))
        /\ SubSeq(streamed, 1, n) = SubSeq(front, 1, n)
        /\ n \in 1 .. Len(streamed)
    BY <1>2, <2>1, <2>2, <2>3
  <2>5. CASE cOp = "read"
    BY <2>3, <2>4, <2>5 DEF Pipe!Take
  <2>6. CASE cOp # "read"
    BY <2>3, <2>4, <2>6 DEF Pipe!Discard
  <2> QED
    BY <2>5, <2>6
<1>5. CASE ClearFront
  <2> DEFINE n == Len(contents[h])
  <2>1. dataQ # <<>> /\ cPc = "using" /\ n \in Nat \ {0}
    BY <1>a, <1>3, <1>5 DEF ClearFront
  <2>2. SubSeq(contents[h], n + 1, n) = <<>>
    <3>1. SubSeq(contents[h], n + 1, n) \in Seq(Nat) /\ Len(SubSeq(contents[h], n + 1, n)) = 0
      <4>1. n \in 0 .. n
        BY <2>1
      <4>2. n - n = 0
        BY <2>1
      <4>3. SubSeq(contents[h], n + 1, n) \in Seq(Nat) /\ Len(SubSeq(contents[h], n + 1, n)) = n - n
        BY <1>d, <2>1, <4>1, ConcatDrop
      <4> QED
        BY <4>2, <4>3
    <3> QED
      BY <3>1, EmptySeq
  <2>3. /\ contents' = [contents EXCEPT ![h] = SubSeq(contents[h], n + 1, n)]
        /\ output' = output /\ UNCHANGED <<cacheQ, dataQ, pHand>>
    BY <1>5, <2>2 DEF ClearFront, pVars
  <2>4. n \in 0 .. n /\ n > 0
    BY <2>1
  <2>5. streamed' = SubSeq(streamed, n + 1, Len(streamed)) /\ n \in 1 .. Len(streamed)
    BY <1>2, <2>1, <2>3, <2>4
  <2> QED
    BY <2>3, <2>5 DEF Pipe!Discard
<1>6. CASE RotateDataRead
  <2>1. /\ dataQ # <<>> /\ dataQ' = Tail(dataQ) /\ contents[h] = <<>>
        /\ UNCHANGED <<cacheQ, pHand, contents, output>>
    <3>1. cPc = "rotate"
      BY <1>6 DEF RotateDataRead
    <3>2. dataQ # <<>> /\ contents[h] = <<>>
      BY <3>1 DEF IInv, Steps
    <3> QED
      BY <1>6, <3>2 DEF RotateDataRead, pVars
  <2>2. d = r
    <3>1. d = <<>> \o r /\ r \in Seq(Nat)
      BY <1>d, <2>1
    <3> HIDE DEF r, d
    <3> QED
      BY <3>1, ConcatEmptySeq
  <2> QED
    BY <2>1, <2>2, StreamKept
<1>7. CASE RotateDataWrite
  <2>1. /\ cPc = "recycle" /\ contents' = [contents EXCEPT ![cHand] = <<>>]
        /\ cacheQ' \in {cacheQ, Append(cacheQ, cHand)}
        /\ UNCHANGED <<dataQ, pHand, output>>
    BY <1>7 DEF RotateDataWrite, pVars
  <2>2. cHand \in Chunk /\ contents[cHand] = <<>>
    BY <2>1 DEF IInv, TypeOK, Steps, ChunksClean
  <2>3. contents' = contents
    BY <1>a, <2>1, <2>2
  <2>4. InFront(cacheQ', contents') = f
    <3>1. cacheQ' = cacheQ => InFront(cacheQ', contents') = f
      BY <2>3
    <3>2. CASE cacheQ' = Append(cacheQ, cHand)
      <4>1. cacheQ' # <<>> /\ (cacheQ # <<>> => Head(cacheQ') = Head(cacheQ))
        BY <1>a, <2>2, <3>2, AppendChunk
      <4>2. CASE cacheQ = <<>>
        <5>1. Append(<<>>, cHand) = <<cHand>> /\ Head(<<cHand>>) = cHand
          OBVIOUS
        <5> QED
          BY <2>2, <2>3, <3>2, <4>1, <4>2, <5>1 DEF InFront
      <4>3. CASE cacheQ # <<>>
        BY <2>3, <4>1, <4>3 DEF InFront
      <4> QED
        BY <4>2, <4>3
    <3> QED
      BY <2>1, <3>1, <3>2
  <2> QED
    BY <2>1, <2>3, <2>4, StreamKept
<1> QED
  BY <1>1, <1>4, <1>5, <1>6, <1>7 DEF Consumer

\* In every behaviour of the producer and the consumer the inductive invariant
\* holds.
THEOREM Invariance == Spec => []IInv
<1>1. IInv /\ [Next]_vars => IInv'
  BY ProducerInv, ConsumerInv, StutterInv DEF Next
<1> QED
  BY InitInv, <1>1, PTL DEF Spec

\* Every variable keeps its type, and no chunk ever exceeds its capacity.
THEOREM TypeCorrect == Spec => []TypeOK
<1>1. IInv => TypeOK
  BY DEF IInv
<1> QED
  BY Invariance, <1>1, PTL

\* The two threads never share a chunk.
THEOREM ChunksAreOwned == Spec => []ChunkOwnership
<1>1. IInv => ChunkOwnership
  BY DEF IInv
<1> QED
  BY Invariance, <1>1, PTL

\* The writes whose result the rotations ignore are never refused.
THEOREM WritesSucceed == Spec => []NoWriteRefused
<1>1. IInv => NoWriteRefused
  <2> SUFFICES ASSUME IInv PROVE NoWriteRefused
    OBVIOUS
  <2>1. pPc = "pass" => Room(dataQ)
    BY RoomForMissing DEF IInv, TypeOK, Steps, ChunkOwnership
  <2>2. cPc = "recycle" => Room(cacheQ)
    BY RoomForMissing DEF IInv, TypeOK, Steps, ChunkOwnership
  <2> QED
    BY <2>1, <2>2 DEF NoWriteRefused
<1> QED
  BY Invariance, <1>1, PTL

\* The consumer never finds an empty chunk, the producer never finds stale
\* bytes in a recycled one.
THEOREM ChunksAreClean == Spec => []ChunksClean
<1>1. IInv => ChunksClean
  BY DEF IInv
<1> QED
  BY Invariance, <1>1, PTL

\* The count of bytes, which the two threads update on their own, neither drifts nor
\* goes negative.
THEOREM BytesCounted == Spec => []TotalBytesExact
<1>1. IInv /\ Counted /\ [Next]_vars => Counted'
  <2>1. Counted /\ UNCHANGED vars => Counted'
    BY DEF Counted, ProducerUnaccounted, ConsumerUnaccounted, SizesOf, vars, pVars, cVars
  <2> QED
    BY <2>1, ProducerCounted, ConsumerCounted DEF Next
<1> QED
  BY Invariance, CountedInit, CountExact, <1>1, PTL DEF Spec

\* The buffer implements a pipe of bytes: whatever chunks rotate between the threads,
\* no byte is lost, repeated or reordered between the producer and the consumer.
THEOREM BufferIsPipe == Spec => ImplementsPipe
<1>1. Init => Pipe!Init
  <2> SUFFICES ASSUME Init PROVE streamed = <<>> /\ output = <<>>
    BY DEF Pipe!Init
  <2>1. chunkLine \in Seq(Chunk) /\ contents \in [Chunk -> Seq(Nat)]
    <3>1. /\ cacheQ \in Seq(Chunk) /\ dataQ \in Seq(Chunk) /\ contents \in [Chunk -> Seq(Nat)]
          /\ pHand = NoChunk
      BY InitInv DEF IInv, TypeOK, Init
    <3>2. <<>> \in Seq(Chunk)
      BY EmptySeq
    <3> QED
      BY <3>1, <3>2, ConcatProperties DEF chunkLine
  <2>2. \A k \in ChunksIn(chunkLine) : contents[k] = <<>>
    <3>1. ChunksIn(chunkLine) \subseteq Chunk
      BY <2>1, ElementOfSeq DEF ChunksIn
    <3> QED
      BY <3>1 DEF Init
  <2>3. StreamOf(chunkLine, contents) = <<>>
    BY <2>1, <2>2, StreamNothing
  <2> QED
    BY <2>3 DEF streamed, StreamOf, Init
<1>2. IInv /\ IInv' /\ Wanting /\ [Next]_vars => [Pipe!Next]_Pipe!vars
  <2> SUFFICES ASSUME IInv, IInv', Wanting, [Next]_vars
               PROVE  Pipe!Next \/ UNCHANGED <<streamed, output>>
    BY DEF Pipe!vars
  <2>1. CASE Producer
    BY <2>1, ProducerStreams DEF Pipe!Next
  <2>2. CASE Consumer
    BY <2>2, ConsumerStreams DEF Pipe!Next
  <2>3. CASE UNCHANGED vars
    BY <2>3 DEF vars, pVars, cVars, streamed, chunkLine
  <2> QED
    BY <2>1, <2>2, <2>3 DEF Next
<1> QED
  BY <1>1, <1>2, WantingInv, Invariance, PTL DEF Spec, ImplementsPipe, Pipe!Spec
=============================================================================
