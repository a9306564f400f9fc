-------------------- MODULE ProducerConsumerQueueProofs --------------------
(***************************************************************************)
(* Proofs, for every ring size of at least two and every set of values,    *)
(* that the two threads of a ProducerConsumerQueue never meet in a slot    *)
(* and that the ring implements a bounded FIFO queue.                      *)
(***************************************************************************)
EXTENDS ProducerConsumerQueue, SequenceTheorems, TLAPS

-----------------------------------------------------------------------------
(* The inductive invariant.                                                *)

\* Where an object lives: the published slots hold the values, the others are
\* raw, and the exceptions are the slot the consumer is emptying and the slot
\* the producer has filled but not yet published.
SlotState ==
  /\ \A i \in Slot : Published(i) /\ ~(i = readIndex /\ Removing) => records[i] \in Value
  /\ \A i \in Slot : ~Published(i) /\ ~(i = writeIndex /\ pPc = "publish") => records[i] = Raw
  /\ pPc = "publish" => records[writeIndex] = pArg
  /\ cPc = "advance" => records[readIndex] = Raw

\* What each thread has established about the indices at each of its steps.
Progress ==
  /\ pPc \in {"construct", "publish"} => Succ(writeIndex) # readIndex
  /\ cPc \in {"move", "destroy", "advance"} => readIndex # writeIndex
  /\ cFront # NullPtr =>
       /\ cPc \in {"idle", "check"}
       /\ cFront = readIndex
       /\ readIndex # writeIndex
  /\ cSeen => readIndex # writeIndex

IInv == TypeOK /\ SlotState /\ Progress /\ GuessBounds

-----------------------------------------------------------------------------
(* Arithmetic of the ring.                                                 *)

\* The successor of a slot is a slot.
LEMMA SuccInSlot == ASSUME NEW i \in Slot PROVE Succ(i) \in Slot
BY SizeAssumption DEF Slot, Succ

\* The distance between two slots is less than the size, and zero only for a
\* slot and itself.
LEMMA DistRange ==
  ASSUME NEW r \in Slot, NEW w \in Slot
  PROVE  /\ Dist(r, w) \in Nat
         /\ Dist(r, w) < Size
         /\ (Dist(r, w) = 0) <=> (r = w)
BY SizeAssumption DEF Slot, Dist

\* Advancing the write index adds one to the distance unless that meets the
\* read index.
LEMMA DistWrite ==
  ASSUME NEW r \in Slot, NEW w \in Slot, Succ(w) # r
  PROVE  Dist(r, Succ(w)) = Dist(r, w) + 1
BY SizeAssumption DEF Slot, Dist, Succ

\* Advancing the read index of a ring that is not empty takes one off.
LEMMA DistRead ==
  ASSUME NEW r \in Slot, NEW w \in Slot, r # w
  PROVE  Dist(Succ(r), w) = Dist(r, w) - 1
BY SizeAssumption DEF Slot, Dist, Succ

\* A slot is at the distance of the write index from the read index only if it
\* is the write index.
LEMMA DistInjective ==
  ASSUME NEW r \in Slot, NEW i \in Slot, NEW j \in Slot, Dist(r, i) = Dist(r, j)
  PROVE  i = j
BY SizeAssumption DEF Slot, Dist

-----------------------------------------------------------------------------
(* IInv is inductive.                                                      *)

\* The empty ring satisfies the invariant.
LEMMA InitInv == Init => IInv
<1> SUFFICES ASSUME Init PROVE IInv
  OBVIOUS
<1> USE SizeAssumption, ValueAssumption DEF Init
<1>1. 0 \in Slot
  BY DEF Slot
<1>2. TypeOK
  <2>1. NoGuess \in 0 .. Size
    BY DEF NoGuess
  <2>2. records \in [Slot -> Value \cup {NoValue, Raw}]
    OBVIOUS
  <2> QED
    BY <1>1, <2>1, <2>2 DEF TypeOK
<1>3. \A i \in Slot : ~Published(i)
  BY <1>1, DistRange DEF Published
<1>4. SlotState
  BY <1>3 DEF SlotState
<1>5. Progress /\ GuessBounds
  BY DEF Progress, GuessBounds
<1> QED
  BY <1>2, <1>4, <1>5 DEF IInv

\* The write() steps, isFull() and sizeGuess() of the producer keep it.
LEMMA ProducerInv == IInv /\ Producer => IInv'
<1> SUFFICES ASSUME IInv, Producer PROVE IInv'
  OBVIOUS
<1> USE SizeAssumption, ValueAssumption DEF IInv
<1>1. ASSUME NEW v \in Value, WriteCall(v) PROVE IInv'
  BY <1>1 DEF WriteCall, TypeOK, SlotState, Progress, GuessBounds, Published, Removing, cVars
<1>2. CASE WriteFull
  BY <1>2 DEF WriteFull, TypeOK, SlotState, Progress, GuessBounds, Published, Removing, cVars
<1>3. CASE WriteRoom
  BY <1>3 DEF WriteRoom, TypeOK, SlotState, Progress, GuessBounds, Published, Removing, cVars
<1>4. CASE Construct
  <2>1. writeIndex \in Slot /\ readIndex \in Slot
    BY DEF TypeOK
  <2>2. ~Published(writeIndex)
    BY <2>1, DistRange DEF Published
  <2>3. TypeOK'
    BY <1>4 DEF Construct, TypeOK, cVars
  <2>4. SlotState'
    <3>1. pArg \in Value \cup {NoValue}
      BY DEF TypeOK
    <3>2. /\ records' = [records EXCEPT ![writeIndex] = pArg]
          /\ pPc' = "publish"
          /\ UNCHANGED <<readIndex, writeIndex, pArg, cPc>>
      BY <1>4 DEF Construct, cVars
    <3>3. \A i \in Slot : i # writeIndex => records'[i] = records[i]
      BY <3>2 DEF TypeOK
    <3>4. records'[writeIndex] = pArg
      BY <3>2, <2>1 DEF TypeOK
    <3>5. \A i \in Slot : Published(i)' <=> Published(i)
      BY <3>2 DEF Published
    <3>6. Removing' <=> Removing
      BY <3>2 DEF Removing
    <3>7. cPc = "advance" => readIndex # writeIndex
      BY DEF Progress
    <3> QED
      BY <2>1, <2>2, <3>2, <3>3, <3>4, <3>5, <3>6, <3>7 DEF SlotState
  <2>5. Progress' /\ GuessBounds'
    BY <1>4 DEF Construct, Progress, GuessBounds, cVars
  <2> QED
    BY <2>3, <2>4, <2>5
<1>5. CASE Publish
  <2>1. /\ writeIndex \in Slot /\ readIndex \in Slot
        /\ Succ(writeIndex) \in Slot /\ Succ(writeIndex) # readIndex
    BY <1>5, SuccInSlot DEF TypeOK, Publish, Progress
  <2>2. Dist(readIndex, Succ(writeIndex)) = Dist(readIndex, writeIndex) + 1
    BY <2>1, DistWrite
  <2>3. /\ writeIndex' = Succ(writeIndex)
        /\ pPc' = "idle" /\ pArg' = NoValue /\ pRoom' = FALSE /\ pGuess' = NoGuess
        /\ UNCHANGED <<readIndex, records, cVars>>
    BY <1>5 DEF Publish
  <2>4. TypeOK'
    <3>1. NoGuess \in 0 .. Size
      BY DEF NoGuess
    <3> QED
      BY <2>1, <2>3, <3>1 DEF TypeOK, cVars
  <2>5. SlotState'
    <3>1. \A i \in Slot : Published(i)' <=> Published(i) \/ i = writeIndex
      BY <2>1, <2>2, <2>3, DistRange, DistInjective DEF Published
    <3>2. records[writeIndex] \in Value
      BY <1>5 DEF Publish, SlotState, TypeOK
    <3> QED
      BY <1>5, <2>1, <2>3, <3>1, <3>2 DEF SlotState, Publish, Removing, cVars
  <2>6. Progress'
    BY <2>1, <2>2, <2>3, DistRange DEF Progress, cVars
  <2>7. GuessBounds'
    BY <2>1, <2>2, <2>3, DistRange DEF GuessBounds, cVars, TypeOK
  <2> QED
    BY <2>4, <2>5, <2>6, <2>7
<1>6. CASE IsFull
  BY <1>6 DEF IsFull, TypeOK, SlotState, Progress, GuessBounds, Published, Removing, cVars
<1>7. CASE ProducerSizeGuess
  <2>1. Dist(readIndex, writeIndex) \in 0 .. Size
    BY DistRange DEF TypeOK
  <2> QED
    BY <1>7, <2>1 DEF ProducerSizeGuess, TypeOK, SlotState, Progress, GuessBounds,
                      Published, Removing, cVars
<1> QED
  BY <1>1, <1>2, <1>3, <1>4, <1>5, <1>6, <1>7 DEF Producer

\* The read(), frontPtr(), popFront(), isEmpty() and sizeGuess() steps of the
\* consumer keep it.
LEMMA ConsumerInv == IInv /\ Consumer => IInv'
<1> SUFFICES ASSUME IInv, Consumer PROVE IInv'
  OBVIOUS
<1> USE SizeAssumption, ValueAssumption DEF IInv
<1>a. writeIndex \in Slot /\ readIndex \in Slot
  BY DEF TypeOK
<1>b. readIndex # writeIndex => Published(readIndex)
  BY <1>a, DistRange DEF Published
<1>1. CASE ReadCall
  BY <1>1 DEF ReadCall, TypeOK, SlotState, Progress, GuessBounds, Published, Removing, pVars
<1>2. CASE ReadEmpty
  BY <1>2 DEF ReadEmpty, TypeOK, SlotState, Progress, GuessBounds, Published, Removing, pVars
<1>3. CASE ReadAvailable
  BY <1>3 DEF ReadAvailable, TypeOK, SlotState, Progress, GuessBounds, Published, Removing, pVars
<1>4. CASE Move
  <2>1. readIndex # writeIndex /\ records[readIndex] \in Value
    BY <1>4, <1>b, <1>a DEF Move, Progress, SlotState, Removing
  <2>2. /\ records' = [records EXCEPT ![readIndex] = NoValue]
        /\ cPc = "move" /\ cPc' = "destroy" /\ cRecord' = records[readIndex]
        /\ UNCHANGED <<readIndex, writeIndex, pVars, cSeen, cFront, cGuess>>
    BY <1>4 DEF Move
  <2>3. TypeOK'
    BY <2>1, <2>2 DEF TypeOK, pVars
  <2>4. SlotState'
    BY <1>a, <1>b, <2>1, <2>2 DEF TypeOK, SlotState, Published, Removing, pVars
  <2>5. Progress' /\ GuessBounds'
    BY <2>2 DEF Progress, GuessBounds, pVars
  <2> QED
    BY <2>3, <2>4, <2>5
<1>5. CASE Destroy
  <2>1. /\ records' = [records EXCEPT ![readIndex] = Raw]
        /\ cPc = "destroy" /\ cPc' = "advance"
        /\ UNCHANGED <<readIndex, writeIndex, pVars, cRecord, cSeen, cFront, cGuess>>
    BY <1>5 DEF Destroy
  <2>2. readIndex # writeIndex
    BY <2>1 DEF Progress
  <2>3. TypeOK'
    BY <2>1 DEF TypeOK, pVars
  <2>4. SlotState'
    BY <1>a, <1>b, <2>1, <2>2 DEF TypeOK, SlotState, Published, Removing, pVars
  <2>5. Progress' /\ GuessBounds'
    BY <2>1 DEF Progress, GuessBounds, pVars
  <2> QED
    BY <2>3, <2>4, <2>5
<1>6. CASE Advance
  <2>1. /\ readIndex' = Succ(readIndex)
        /\ cPc = "advance" /\ cPc' = "idle" /\ cSeen' = FALSE /\ cGuess' = NoGuess
        /\ UNCHANGED <<writeIndex, records, pVars, cRecord, cFront>>
    BY <1>6 DEF Advance
  <2>2. readIndex # writeIndex /\ Succ(readIndex) \in Slot /\ records[readIndex] = Raw
    BY <1>a, <2>1, SuccInSlot DEF Progress, SlotState
  <2>3. Dist(Succ(readIndex), writeIndex) = Dist(readIndex, writeIndex) - 1
    BY <1>a, <2>2, DistRead
  <2>4. TypeOK'
    <3>1. NoGuess \in 0 .. Size
      BY DEF NoGuess
    <3> QED
      BY <2>1, <2>2, <3>1 DEF TypeOK, pVars
  <2>5. SlotState'
    <3>1. \A i \in Slot : Published(i)' <=> Published(i) /\ i # readIndex
      <4> SUFFICES ASSUME NEW i \in Slot
                   PROVE  Published(i)' <=> Published(i) /\ i # readIndex
        OBVIOUS
      <4>1. CASE i = readIndex
        BY <1>a, <2>1, <2>2, <4>1 DEF Published, Dist, Succ, Slot
      <4>2. CASE i # readIndex
        BY <1>a, <2>1, <2>3, <4>2, DistRead, DistRange DEF Published
      <4> QED
        BY <4>1, <4>2
    <3> QED
      BY <2>1, <2>2, <3>1 DEF SlotState, Removing, pVars
  <2>6. Progress'
    BY <1>a, <2>1, <2>2, SuccInSlot DEF Progress, pVars, Succ, Slot
  <2>7. GuessBounds'
    <3>1. cGuess' = NoGuess /\ pGuess' = pGuess /\ pRoom' = pRoom
      BY <2>1 DEF pVars
    <3>2. Dist(readIndex, writeIndex)' <= Dist(readIndex, writeIndex)
      BY <1>a, <2>1, <2>3, DistRange
    <3>3. Dist(readIndex, writeIndex) \in Nat /\ Dist(readIndex, writeIndex)' \in Nat
      BY <1>a, <2>1, <2>2, DistRange
    <3>4. pGuess \in Nat
      BY DEF TypeOK
    <3>5. pGuess # NoGuess => pGuess >= Dist(readIndex, writeIndex)'
      BY <3>2, <3>3, <3>4 DEF GuessBounds
    <3>6. Succ(writeIndex) # Succ(readIndex)
      BY <1>a, <2>2 DEF Succ, Slot
    <3>7. Succ(writeIndex)' # readIndex'
      BY <2>1, <3>6 DEF Succ
    <3> QED
      BY <3>1, <3>5, <3>7 DEF GuessBounds
  <2> QED
    BY <2>4, <2>5, <2>6, <2>7
<1>7. CASE FrontPtr
  BY <1>7 DEF FrontPtr, TypeOK, SlotState, Progress, GuessBounds, Published, Removing, pVars
<1>8. CASE PopFront
  <2>1. /\ records' = [records EXCEPT ![readIndex] = Raw]
        /\ cPc = "idle" /\ cFront # NullPtr /\ cPc' = "advance" /\ cFront' = NullPtr
        /\ UNCHANGED <<readIndex, writeIndex, pVars, cRecord, cSeen, cGuess>>
    BY <1>8 DEF PopFront
  <2>2. readIndex # writeIndex
    BY <2>1 DEF Progress
  <2>3. TypeOK'
    BY <2>1 DEF TypeOK, pVars
  <2>4. SlotState'
    BY <1>a, <1>b, <2>1, <2>2 DEF TypeOK, SlotState, Published, Removing, pVars
  <2>5. Progress' /\ GuessBounds'
    BY <2>1, <2>2 DEF Progress, GuessBounds, pVars
  <2> QED
    BY <2>3, <2>4, <2>5
<1>9. CASE IsEmpty
  BY <1>9 DEF IsEmpty, TypeOK, SlotState, Progress, GuessBounds, Published, Removing, pVars
<1>10. CASE ConsumerSizeGuess
  <2>1. Dist(readIndex, writeIndex) \in 0 .. Size
    BY <1>a, DistRange
  <2> QED
    BY <1>10, <2>1 DEF ConsumerSizeGuess, TypeOK, SlotState, Progress, GuessBounds,
                       Published, Removing, pVars
<1> QED
  BY <1>1, <1>2, <1>3, <1>4, <1>5, <1>6, <1>7, <1>8, <1>9, <1>10 DEF Consumer

\* A stuttering step keeps the invariant.
LEMMA StutterInv == IInv /\ UNCHANGED vars => IInv'
BY DEF IInv, TypeOK, SlotState, Progress, GuessBounds, Published, Removing,
       vars, pVars, cVars

\* In every behaviour of the two threads the inductive invariant holds.
THEOREM Invariance == Spec => []IInv
<1>1. IInv /\ [Next]_vars => IInv'
  BY ProducerInv, ConsumerInv, StutterInv DEF Next
<1> QED
  BY InitInv, <1>1, PTL DEF Spec

\* Every variable keeps its type: the indices stay inside records_.
THEOREM TypeCorrect == Spec => []TypeOK
<1>1. IInv => TypeOK
  BY DEF IInv
<1> QED
  BY Invariance, <1>1, PTL

\* write() never constructs over an object, read() never moves out of a slot
\* that holds none, and the two threads are never in the same slot.
THEOREM SlotsAreOwned == Spec => []SlotOwnership
<1>1. IInv => SlotOwnership
  <2> SUFFICES ASSUME IInv PROVE SlotOwnership
    OBVIOUS
  <2> USE SizeAssumption, ValueAssumption DEF IInv
  <2>1. writeIndex \in Slot /\ readIndex \in Slot
    BY DEF TypeOK
  <2>2. ~Published(writeIndex)
    BY <2>1, DistRange DEF Published
  <2>3. readIndex # writeIndex => Published(readIndex)
    BY <2>1, DistRange DEF Published
  <2>4. cFront # writeIndex
    BY <2>1 DEF Progress, Slot
  <2>5. pPc = "construct" => records[writeIndex] = Raw
    BY <2>1, <2>2 DEF SlotState
  <2>6. cPc = "move" => records[readIndex] \in Value
    BY <2>1, <2>3 DEF SlotState, Progress, Removing
  <2> QED
    BY <2>4, <2>5, <2>6 DEF SlotState, Progress, SlotOwnership
<1> QED
  BY Invariance, <1>1, PTL

\* What isEmpty() and frontPtr() told the consumer stays true until it removes.
THEOREM ConsumerKnows == Spec => []ConsumerKnowledge
<1>1. IInv => ConsumerKnowledge
  <2> SUFFICES ASSUME IInv PROVE ConsumerKnowledge
    OBVIOUS
  <2>1. readIndex # writeIndex => Published(readIndex)
    BY DistRange DEF Published, IInv, TypeOK
  <2> QED
    BY <2>1 DEF IInv, SlotState, Progress, TypeOK, ConsumerKnowledge, Removing
<1> QED
  BY Invariance, <1>1, PTL

\* The size the consumer guesses is never too large, the size the producer
\* guesses is never too small.
THEOREM GuessesAreBounds == Spec => []GuessBounds
<1>1. IInv => GuessBounds
  BY DEF IInv
<1> QED
  BY Invariance, <1>1, PTL

-----------------------------------------------------------------------------
(* The ring implements BoundedFifo.                                        *)

Object == Value \cup {NoValue, Raw}

\* The sequence the ring stands for: its length is the distance between the
\* first slot not yet removed and the write index, its k-th element is the
\* object in the slot k - 1 further on, which is a published slot.
LEMMA QueueIs ==
  ASSUME IInv
  PROVE  /\ First \in Slot
         /\ Dist(First, writeIndex) \in Nat
         /\ queue \in Seq(Object)
         /\ Len(queue) = Dist(First, writeIndex)
         /\ DOMAIN queue = 1 .. Dist(First, writeIndex)
         /\ \A k \in 1 .. Dist(First, writeIndex) :
              /\ Nth(k) \in Slot
              /\ queue[k] = records[Nth(k)]
              /\ Nth(k) # writeIndex
              /\ Removing => Nth(k) # readIndex
<1> USE SizeAssumption DEF IInv
<1>1. readIndex \in Slot /\ writeIndex \in Slot /\ records \in [Slot -> Object]
  BY DEF TypeOK, Object
<1>2. First \in Slot
  BY <1>1, SuccInSlot DEF First
<1>3. Dist(First, writeIndex) \in Nat /\ Dist(First, writeIndex) < Size
  BY <1>1, <1>2, DistRange
<1>4. ASSUME NEW k \in 1 .. Dist(First, writeIndex)
      PROVE  Nth(k) \in Slot /\ Nth(k) # writeIndex
  BY <1>1, <1>2, <1>3 DEF Nth, Slot, Dist
<1>5. ASSUME Removing, NEW k \in 1 .. Dist(First, writeIndex)
      PROVE  Nth(k) # readIndex
  <2>1. First = Succ(readIndex) /\ readIndex # writeIndex
    BY <1>5 DEF First, Removing, Progress
  <2>2. Dist(First, writeIndex) = Dist(readIndex, writeIndex) - 1
    BY <1>1, <2>1, DistRead
  <2> QED
    BY <1>1, <1>3, <2>1, <2>2 DEF Nth, Slot, Succ, Dist
<1>6. queue = [k \in 1 .. Dist(First, writeIndex) |-> records[Nth(k)]]
  BY DEF queue
<1>7. queue \in [1 .. Dist(First, writeIndex) -> Object]
  BY <1>1, <1>4, <1>6
<1>8. queue \in Seq(Object) /\ Len(queue) = Dist(First, writeIndex)
  BY <1>3, <1>7
<1> QED
  BY <1>2, <1>3, <1>4, <1>5, <1>6, <1>7, <1>8

\* A step that keeps the first slot, the write index and the objects between
\* them keeps the queue.
LEMMA QueueKept ==
  ASSUME IInv, First' = First, writeIndex' = writeIndex,
         \A k \in 1 .. Dist(First, writeIndex) : records'[Nth(k)] = records[Nth(k)]
  PROVE  queue' = queue
<1>1. Dist(First, writeIndex)' = Dist(First, writeIndex)
  BY DEF Dist
<1>2. \A k : Nth(k)' = Nth(k)
  BY DEF Nth
<1> QED
  BY <1>1, <1>2 DEF queue

\* Publishing the constructed slot appends its value to a queue with room.
LEMMA PublishAppends ==
  ASSUME IInv, IInv', Publish
  PROVE  \E v \in Value : Len(queue) < capacity /\ queue' = Append(queue, v)
<1> USE SizeAssumption
<1>1. /\ pArg \in Value /\ records[writeIndex] = pArg
      /\ readIndex \in Slot /\ writeIndex \in Slot
      /\ Succ(writeIndex) # readIndex
      /\ Removing => readIndex # writeIndex
  BY DEF IInv, TypeOK, SlotState, Progress, Publish, Removing
<1>2. /\ writeIndex' = Succ(writeIndex) /\ First' = First /\ records' = records
  BY DEF Publish, First, Removing, cVars
<1>3. First \in Slot /\ Dist(First, writeIndex) \in Nat /\ Len(queue) = Dist(First, writeIndex)
      /\ queue \in Seq(Object)
      /\ \A k \in 1 .. Dist(First, writeIndex) : queue[k] = records[Nth(k)]
  BY QueueIs
<1>4. Succ(writeIndex) # First
  BY <1>1 DEF First, Succ, Slot
<1>5. Dist(First, Succ(writeIndex)) = Dist(First, writeIndex) + 1
  BY <1>1, <1>3, <1>4, DistWrite
<1>6. Dist(First, Succ(writeIndex)) < Size
  BY <1>1, <1>3, SuccInSlot, DistRange
<1>7. Len(queue) < capacity
  BY <1>3, <1>5, <1>6 DEF capacity
<1>8. Nth(Dist(First, writeIndex) + 1) = writeIndex
  BY <1>1, <1>3 DEF Nth, Dist, Slot
<1>9. queue' = [k \in 1 .. Dist(First, writeIndex) + 1 |-> records[Nth(k)]]
  BY <1>2, <1>5 DEF queue, Nth, Dist
<1>10. Append(queue, pArg) \in Seq(Object \cup Value)
       /\ Len(Append(queue, pArg)) = Dist(First, writeIndex) + 1
       /\ \A k \in 1 .. Dist(First, writeIndex) : Append(queue, pArg)[k] = records[Nth(k)]
       /\ Append(queue, pArg)[Dist(First, writeIndex) + 1] = pArg
  BY <1>1, <1>3 DEF Object
<1>11. Append(queue, pArg) = [k \in 1 .. Dist(First, writeIndex) + 1 |-> records[Nth(k)]]
  <2> DEFINE m == Dist(First, writeIndex) + 1
             f == [k \in 1 .. m |-> records[Nth(k)]]
  <2>1. m \in Nat /\ m = Len(Append(queue, pArg))
    BY <1>3, <1>10
  <2>2. \A k \in 1 .. m : Append(queue, pArg)[k] = f[k]
    BY <1>1, <1>3, <1>8, <1>10
  <2>3. \A k \in 1 .. m : f[k] \in Object \cup Value
    BY <1>10, <2>1, <2>2, ElementOfSeq
  <2>4. f \in [1 .. m -> Object \cup Value]
    BY <2>3
  <2>5. f \in Seq(Object \cup Value) /\ Len(f) = m
    BY <2>1, <2>4
  <2> HIDE DEF f, m
  <2>6. Append(queue, pArg) = f
    BY <1>10, <2>1, <2>2, <2>5, SeqEqual
  <2> QED
    BY <2>6 DEF f, m
<1> QED
  BY <1>1, <1>7, <1>9, <1>11

\* Moving out or destroying the front takes the head off the queue.
LEMMA RemovalTakesHead ==
  ASSUME IInv, ~Removing, Removing', readIndex # writeIndex,
         UNCHANGED <<readIndex, writeIndex>>,
         \A i \in Slot : i # readIndex => records'[i] = records[i]
  PROVE  queue # <<>> /\ Head(queue) = records[readIndex] /\ queue' = Tail(queue)
<1> USE SizeAssumption
<1>1. readIndex \in Slot /\ writeIndex \in Slot
  BY DEF IInv, TypeOK
<1>2. First = readIndex /\ First' = Succ(readIndex)
  BY DEF First, Succ
<1> DEFINE n == Dist(readIndex, writeIndex)
<1>3. n \in Nat /\ n > 0 /\ Dist(Succ(readIndex), writeIndex) = n - 1
  BY <1>1, DistRange, DistRead
<1>4. /\ queue \in Seq(Object) /\ Len(queue) = n
      /\ \A k \in 1 .. n : Nth(k) \in Slot /\ queue[k] = records[Nth(k)]
  BY <1>2, QueueIs
<1>5. Nth(1) = readIndex
  BY <1>1, <1>2 DEF Nth, Slot
<1>6. queue # <<>> /\ Head(queue) = records[readIndex]
  BY <1>3, <1>4, <1>5
<1>7. \A k \in 1 .. n - 1 : Nth(k)' = Nth(k + 1) /\ Nth(k + 1) # readIndex
  BY <1>1, <1>2, <1>3 DEF Nth, Slot, Succ, Dist
<1>8. queue' = [k \in 1 .. n - 1 |-> records[Nth(k + 1)]]
  <2>1. Dist(First, writeIndex)' = n - 1
    BY <1>2, <1>3 DEF Dist
  <2>2. \A k \in 1 .. n - 1 : records'[Nth(k)'] = records[Nth(k + 1)]
    <3> SUFFICES ASSUME NEW k \in 1 .. n - 1 PROVE records'[Nth(k)'] = records[Nth(k + 1)]
      OBVIOUS
    <3>1. k + 1 \in 1 .. n
      BY <1>3
    <3> QED
      BY <1>4, <1>7, <3>1
  <2>3. queue' = [k \in 1 .. n - 1 |-> records'[Nth(k)']]
    BY <2>1 DEF queue
  <2> QED
    BY <2>2, <2>3
<1>9. Tail(queue) = [k \in 1 .. n - 1 |-> queue[k + 1]]
  <2> DEFINE f == [k \in 1 .. n - 1 |-> queue[k + 1]]
  <2>1. /\ Tail(queue) \in Seq(Object) /\ Len(Tail(queue)) = n - 1
        /\ \A k \in 1 .. n - 1 : Tail(queue)[k] = f[k]
    BY <1>4, <1>6, HeadTailProperties
  <2>2. f \in [1 .. n - 1 -> Object]
    BY <1>3, <1>4, ElementOfSeq
  <2> DEFINE l == n - 1
  <2>5. l \in Nat /\ f \in [1 .. l -> Object]
    BY <1>3, <2>2
  <2> HIDE DEF l, f
  <2>6. f \in Seq(Object) /\ Len(f) = l
    BY <2>5
  <2>3. f \in Seq(Object) /\ Len(f) = n - 1
    BY <2>6 DEF l
  <2>4. Tail(queue) = f
    BY <2>1, <2>3, SeqEqual
  <2> QED
    BY <2>4 DEF f
<1>10. Tail(queue) = [k \in 1 .. n - 1 |-> records[Nth(k + 1)]]
  <2>1. \A k \in 1 .. n - 1 : queue[k + 1] = records[Nth(k + 1)]
    BY <1>3, <1>4
  <2> QED
    BY <1>9, <2>1
<1> QED
  BY <1>6, <1>8, <1>10

\* Every step of the ring is a step of the bounded FIFO queue, or leaves it
\* alone.
LEMMA StepImplements == IInv /\ IInv' /\ [Next]_vars => [Fifo!Next]_<<queue, cRecord>>
<1> SUFFICES ASSUME IInv, IInv', [Next]_vars
             PROVE  Fifo!Next \/ UNCHANGED <<queue, cRecord>>
  BY DEF Fifo!vars
<1>1. CASE Publish
  <2>1. UNCHANGED cRecord
    BY <1>1 DEF Publish, cVars
  <2> QED
    BY <1>1, <2>1, PublishAppends DEF Fifo!Next, Fifo!Write
<1>2. CASE Move
  <2>1. /\ ~Removing /\ Removing' /\ readIndex # writeIndex
        /\ UNCHANGED <<readIndex, writeIndex>>
        /\ \A i \in Slot : i # readIndex => records'[i] = records[i]
        /\ cRecord' = records[readIndex]
    BY <1>2 DEF Move, Removing, IInv, Progress, TypeOK
  <2> QED
    BY <2>1, RemovalTakesHead DEF Fifo!Next, Fifo!Read
<1>3. CASE PopFront
  <2>1. /\ ~Removing /\ Removing' /\ readIndex # writeIndex
        /\ UNCHANGED <<readIndex, writeIndex>>
        /\ \A i \in Slot : i # readIndex => records'[i] = records[i]
        /\ cRecord' = cRecord
    BY <1>3 DEF PopFront, Removing, IInv, Progress, TypeOK
  <2> QED
    BY <2>1, RemovalTakesHead DEF Fifo!Next, Fifo!PopFront
<1>4. CASE Construct
  <2>1. /\ First' = First /\ writeIndex' = writeIndex /\ cRecord' = cRecord
        /\ \A i \in Slot : i # writeIndex => records'[i] = records[i]
    BY <1>4 DEF Construct, First, Removing, cVars, IInv, TypeOK
  <2>2. \A k \in 1 .. Dist(First, writeIndex) : Nth(k) \in Slot /\ Nth(k) # writeIndex
    BY QueueIs
  <2> QED
    BY <2>1, <2>2, QueueKept
<1>5. CASE Destroy
  <2>1. /\ Removing /\ First' = First /\ writeIndex' = writeIndex /\ cRecord' = cRecord
        /\ \A i \in Slot : i # readIndex => records'[i] = records[i]
    BY <1>5 DEF Destroy, First, Removing, IInv, TypeOK
  <2>2. \A k \in 1 .. Dist(First, writeIndex) : Nth(k) \in Slot /\ Nth(k) # readIndex
    BY <2>1, QueueIs
  <2> QED
    BY <2>1, <2>2, QueueKept
<1>6. CASE Advance
  <2>1. First' = First /\ writeIndex' = writeIndex /\ cRecord' = cRecord /\ records' = records
    BY <1>6 DEF Advance, First, Removing
  <2> QED
    BY <2>1, QueueKept
<1>7. ASSUME UNCHANGED <<readIndex, writeIndex, records, cRecord>>, Removing' <=> Removing
      PROVE  UNCHANGED <<queue, cRecord>>
  <2>1. First' = First
    BY <1>7 DEF First, Succ
  <2> QED
    BY <1>7, <2>1, QueueKept
<1>8. ASSUME NEW v \in Value, WriteCall(v) PROVE UNCHANGED <<queue, cRecord>>
  BY <1>7, <1>8 DEF WriteCall, Removing, cVars
<1>9. CASE WriteFull \/ WriteRoom \/ IsFull \/ ProducerSizeGuess
  BY <1>7, <1>9 DEF WriteFull, WriteRoom, IsFull, ProducerSizeGuess, Removing, cVars
<1>10. CASE ReadCall \/ ReadEmpty \/ ReadAvailable \/ FrontPtr \/ IsEmpty \/ ConsumerSizeGuess
  BY <1>7, <1>10 DEF ReadCall, ReadEmpty, ReadAvailable, FrontPtr, IsEmpty,
                     ConsumerSizeGuess, Removing
<1>11. CASE UNCHANGED vars
  BY <1>7, <1>11 DEF vars, cVars, Removing
<1> QED
  BY <1>1, <1>2, <1>3, <1>4, <1>5, <1>6, <1>8, <1>9, <1>10, <1>11 DEF Next, Producer, Consumer

\* The ring implements a bounded FIFO queue of size - 1 values: what the
\* consumer is handed is what the producer wrote, in that order.
THEOREM RingIsFifo == Spec => ImplementsFifo
<1>1. Init => Fifo!Init
  <2> SUFFICES ASSUME Init PROVE queue = <<>> /\ cRecord = NoValue
    BY DEF Fifo!Init
  <2>1. First = 0 /\ writeIndex = 0
    BY DEF Init, First, Removing
  <2>2. 1 .. Dist(First, writeIndex) = {}
    BY <2>1 DEF Dist
  <2> QED
    BY <2>2 DEF queue, Init
<1>2. IInv /\ IInv' /\ [Next]_vars => [Fifo!Next]_Fifo!vars
  BY StepImplements DEF Fifo!vars
<1> QED
  BY <1>1, <1>2, Invariance, PTL DEF Spec, ImplementsFifo, Fifo!Spec
=============================================================================
