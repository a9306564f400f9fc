----------------------- MODULE ProducerConsumerQueue -----------------------
(***************************************************************************)
(* folly::ProducerConsumerQueue, the lock-free single-producer single-     *)
(* consumer ring that carries every audio chunk between two threads of     *)
(* mprt.  Each step is one atomic access to an index, or one access to a   *)
(* slot of records_.  A thread's own index is only written by that thread, *)
(* so its relaxed load is part of the step that follows it; the acquire    *)
(* load of the other thread's index and the release store of its own one   *)
(* are steps of their own, and they order the slot accesses around them.   *)
(***************************************************************************)
EXTENDS Naturals, Sequences

CONSTANTS Size,       \* size_: slots in records_, one of them never used
          Value,      \* the values the queue carries
          NoValue,    \* a moved-from or not yet assigned shared_ptr
          Raw,        \* a slot that holds no object
          NullPtr     \* the null result of frontPtr()

ASSUME SizeAssumption == Size \in Nat /\ Size >= 2
ASSUME ValueAssumption == /\ NoValue \notin Value
                          /\ Raw \notin Value \cup {NoValue}
                          /\ NullPtr \notin Nat

VARIABLES
  readIndex, writeIndex,  \* the two shared atomic indices
  records,                \* the slots
  pPc,                    \* where the producer thread is
  pArg,                   \* the argument of the write in progress
  pRoom,                  \* isFull() said FALSE and nothing was written since
  pGuess,                 \* sizeGuess() of the producer, while it may use it
  cPc,                    \* where the consumer thread is
  cRecord,                \* the variable read() moves the value into
  cSeen,                  \* isEmpty() said FALSE and nothing was removed since
  cFront,                 \* the pointer frontPtr() returned, while it is used
  cGuess                  \* sizeGuess() of the consumer, while it may use it

pVars == <<pPc, pArg, pRoom, pGuess>>
cVars == <<cPc, cRecord, cSeen, cFront, cGuess>>
vars  == <<readIndex, writeIndex, records, pVars, cVars>>

Slot == 0 .. Size - 1

\* Mutant of Succ: the wrap at size_ is forgotten.
SuccNoWrap(i) == i + 1

\* nextRecord = current + 1, wrapped to 0 at size_
Succ(i) == IF i + 1 = Size THEN 0 ELSE i + 1

\* sizeGuess(): writeIndex - readIndex, plus size_ when negative
Dist(r, w) == IF w >= r THEN w - r ELSE (w + Size) - r

capacity == Size - 1

NoGuess == Size   \* no sizeGuess() result is in use

Init ==
  /\ readIndex = 0 /\ writeIndex = 0
  /\ records = [i \in Slot |-> Raw]
  /\ pPc = "idle" /\ pArg = NoValue /\ pRoom = FALSE /\ pGuess = NoGuess
  /\ cPc = "idle" /\ cRecord = NoValue /\ cSeen = FALSE
  /\ cFront = NullPtr /\ cGuess = NoGuess

-----------------------------------------------------------------------------
(* The producer: write(), isFull(), sizeGuess().                           *)

WriteCall(v) ==
  /\ pPc = "idle"
  /\ pPc' = "check" /\ pArg' = v
  /\ UNCHANGED <<readIndex, writeIndex, records, pRoom, pGuess, cVars>>

\* the acquire load of readIndex_ finds the queue full: write() returns false
WriteFull ==
  /\ pPc = "check" /\ Succ(writeIndex) = readIndex
  /\ pPc' = "idle" /\ pArg' = NoValue
  /\ UNCHANGED <<readIndex, writeIndex, records, pRoom, pGuess, cVars>>

\* Mutant of WriteRoom: the full check is dropped.
WriteRoomUnchecked ==
  /\ pPc = "check"
  /\ pPc' = "construct"
  /\ UNCHANGED <<readIndex, writeIndex, records, pArg, pRoom, pGuess, cVars>>

WriteRoom ==
  /\ pPc = "check" /\ Succ(writeIndex) # readIndex
  /\ pPc' = "construct"
  /\ UNCHANGED <<readIndex, writeIndex, records, pArg, pRoom, pGuess, cVars>>

\* Mutant of Construct: the slot of nextRecord is constructed.
ConstructNext ==
  /\ pPc = "construct"
  /\ records' = [records EXCEPT ![Succ(writeIndex)] = pArg]
  /\ pPc' = "publish"
  /\ UNCHANGED <<readIndex, writeIndex, pArg, pRoom, pGuess, cVars>>

\* placement new in records_[currentWrite]
Construct ==
  /\ pPc = "construct"
  /\ records' = [records EXCEPT ![writeIndex] = pArg]
  /\ pPc' = "publish"
  /\ UNCHANGED <<readIndex, writeIndex, pArg, pRoom, pGuess, cVars>>

\* the release store of writeIndex_: write() returns true
Publish ==
  /\ pPc = "publish"
  /\ writeIndex' = Succ(writeIndex)
  /\ pPc' = "idle" /\ pArg' = NoValue /\ pRoom' = FALSE /\ pGuess' = NoGuess
  /\ UNCHANGED <<readIndex, records, cVars>>

IsFull ==
  /\ pPc = "idle"
  /\ pRoom' = (Succ(writeIndex) # readIndex)
  /\ UNCHANGED <<readIndex, writeIndex, records, pPc, pArg, pGuess, cVars>>

\* Mutant of ProducerSizeGuess: the indices are swapped.
ProducerSizeGuessSwapped ==
  /\ pPc = "idle"
  /\ pGuess' = Dist(writeIndex, readIndex)
  /\ UNCHANGED <<readIndex, writeIndex, records, pPc, pArg, pRoom, cVars>>

ProducerSizeGuess ==
  /\ pPc = "idle"
  /\ pGuess' = Dist(readIndex, writeIndex)
  /\ UNCHANGED <<readIndex, writeIndex, records, pPc, pArg, pRoom, cVars>>

-----------------------------------------------------------------------------
(* The consumer: read(), frontPtr(), popFront(), isEmpty(), sizeGuess().   *)

ReadCall ==
  /\ cPc = "idle"
  /\ cPc' = "check"
  /\ UNCHANGED <<readIndex, writeIndex, records, pVars, cRecord, cSeen, cFront, cGuess>>

\* the acquire load of writeIndex_ finds the queue empty: read() returns false
ReadEmpty ==
  /\ cPc = "check" /\ readIndex = writeIndex
  /\ cPc' = "idle"
  /\ UNCHANGED <<readIndex, writeIndex, records, pVars, cRecord, cSeen, cFront, cGuess>>

ReadAvailable ==
  /\ cPc = "check" /\ readIndex # writeIndex
  /\ cPc' = "move" /\ cFront' = NullPtr
  /\ UNCHANGED <<readIndex, writeIndex, records, pVars, cRecord, cSeen, cGuess>>

\* record = std::move(records_[currentRead])
Move ==
  /\ cPc = "move"
  /\ cRecord' = records[readIndex]
  /\ records' = [records EXCEPT ![readIndex] = NoValue]
  /\ cPc' = "destroy"
  /\ UNCHANGED <<readIndex, writeIndex, pVars, cSeen, cFront, cGuess>>

\* records_[currentRead].~T(), of read()
Destroy ==
  /\ cPc = "destroy"
  /\ records' = [records EXCEPT ![readIndex] = Raw]
  /\ cPc' = "advance"
  /\ UNCHANGED <<readIndex, writeIndex, pVars, cRecord, cSeen, cFront, cGuess>>

\* the release store of readIndex_, of read() and popFront()
Advance ==
  /\ cPc = "advance"
  /\ readIndex' = Succ(readIndex)
  /\ cPc' = "idle" /\ cSeen' = FALSE /\ cGuess' = NoGuess
  /\ UNCHANGED <<writeIndex, records, pVars, cRecord, cFront>>

\* Mutant of FrontPtr: the address of the slot is returned unchecked.
FrontPtrUnchecked ==
  /\ cPc = "idle"
  /\ cFront' = readIndex
  /\ UNCHANGED <<readIndex, writeIndex, records, pVars, cPc, cRecord, cSeen, cGuess>>

FrontPtr ==
  /\ cPc = "idle"
  /\ cFront' = IF readIndex = writeIndex THEN NullPtr ELSE readIndex
  /\ UNCHANGED <<readIndex, writeIndex, records, pVars, cPc, cRecord, cSeen, cGuess>>

\* "queue must not be empty": a caller holds the front it is about to pop
PopFront ==
  /\ cPc = "idle" /\ cFront # NullPtr
  /\ records' = [records EXCEPT ![readIndex] = Raw]
  /\ cPc' = "advance" /\ cFront' = NullPtr
  /\ UNCHANGED <<readIndex, writeIndex, pVars, cRecord, cSeen, cGuess>>

IsEmpty ==
  /\ cPc = "idle"
  /\ cSeen' = (readIndex # writeIndex)
  /\ UNCHANGED <<readIndex, writeIndex, records, pVars, cPc, cRecord, cFront, cGuess>>

ConsumerSizeGuess ==
  /\ cPc = "idle"
  /\ cGuess' = Dist(readIndex, writeIndex)
  /\ UNCHANGED <<readIndex, writeIndex, records, pVars, cPc, cRecord, cSeen, cFront>>

Producer == \/ \E v \in Value : WriteCall(v)
            \/ WriteFull \/ WriteRoom \/ Construct \/ Publish
            \/ IsFull \/ ProducerSizeGuess

Consumer == \/ ReadCall \/ ReadEmpty \/ ReadAvailable \/ Move \/ Destroy \/ Advance
            \/ FrontPtr \/ PopFront \/ IsEmpty \/ ConsumerSizeGuess

Next == Producer \/ Consumer

Spec == Init /\ [][Next]_vars

-----------------------------------------------------------------------------
(* Properties.                                                             *)

\* A consumer that moved or destroyed the front has removed it already.
Removing == cPc \in {"destroy", "advance"}

\* The slots between readIndex and writeIndex are those the consumer owns.
Published(i) == Dist(readIndex, i) < Dist(readIndex, writeIndex)

\* Every variable has its type: indices stay inside records_, slots hold an
\* object or are raw.
TypeOK ==
  /\ readIndex \in Slot /\ writeIndex \in Slot
  /\ records \in [Slot -> Value \cup {NoValue, Raw}]
  /\ pPc \in {"idle", "check", "construct", "publish"}
  /\ pArg \in Value \cup {NoValue}
  /\ pPc = "idle" <=> pArg = NoValue
  /\ pRoom \in BOOLEAN /\ pGuess \in 0 .. Size
  /\ cPc \in {"idle", "check", "move", "destroy", "advance"}
  /\ cRecord \in Value \cup {NoValue}
  /\ cSeen \in BOOLEAN /\ cFront \in Slot \cup {NullPtr} /\ cGuess \in 0 .. Size

\* The hand-over of slots: write() constructs only in a slot that holds no
\* object (nothing unread is overwritten or leaked), read() and popFront()
\* touch only a slot that holds a value, every published slot the consumer has
\* not reached holds one, and while write() is inside a slot neither read(),
\* popFront() nor a user of frontPtr() is in the same one.
SlotOwnership ==
  /\ pPc = "construct" => records[writeIndex] = Raw
  /\ cPc = "move" => records[readIndex] \in Value
  /\ \A i \in Slot : Published(i) /\ ~(i = readIndex /\ Removing) => records[i] \in Value
  /\ pPc \in {"construct", "publish"} =>
       /\ cPc \in {"move", "destroy", "advance"} => writeIndex # readIndex
       /\ cFront # writeIndex

\* get_gen_prt() of cache_buffer dereferences frontPtr() after isEmpty() said
\* FALSE without a null check, and keeps the pointer over other calls: what
\* isEmpty() and frontPtr() told the consumer stays true until it removes.
ConsumerKnowledge ==
  /\ cSeen /\ cPc = "idle" => readIndex # writeIndex
  /\ cFront # NullPtr => cFront = readIndex /\ records[cFront] \in Value

\* "If called by consumer, then true size may be more ... If called by
\* producer, then true size may be less", and an isFull() that said FALSE
\* to the producer still means there is room.
GuessBounds ==
  /\ cGuess # NoGuess => cGuess <= Dist(readIndex, writeIndex)
  /\ pGuess # NoGuess => pGuess >= Dist(readIndex, writeIndex)
  /\ pRoom => Succ(writeIndex) # readIndex

\* The queue the two threads see: a removal takes effect when the front is
\* moved out or destroyed, a write when it is published.
First == IF Removing THEN Succ(readIndex) ELSE readIndex
Nth(k) == IF First + (k - 1) < Size THEN First + (k - 1) ELSE First + (k - 1) - Size
queue == [k \in 1 .. Dist(First, writeIndex) |-> records[Nth(k)]]

Fifo == INSTANCE BoundedFifo WITH queue <- queue, taken <- cRecord, Capacity <- capacity

\* The ring implements a bounded FIFO queue of size - 1 values.
ImplementsFifo == Fifo!Spec
=============================================================================
