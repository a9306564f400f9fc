---------------------------- MODULE BoundedFifo ----------------------------
(***************************************************************************)
(* What folly::ProducerConsumerQueue promises to the two threads that use  *)
(* it: a first-in first-out queue of at most Capacity values, written at   *)
(* one end and consumed at the other, where the consumer is handed exactly *)
(* the value at the front.  ProducerConsumerQueue implements this          *)
(* specification; CacheBuffer relies on it.                                *)
(***************************************************************************)
EXTENDS Naturals, Sequences

CONSTANTS Value,      \* the values the queue carries
          NoValue,    \* what the consumer holds before its first read
          Capacity    \* how many values the queue holds at most

VARIABLES queue,      \* the values in the queue, oldest first
          taken       \* the value the last read handed to the consumer

vars == <<queue, taken>>

Init == /\ queue = <<>>
        /\ taken = NoValue

Write(v) == /\ Len(queue) < Capacity
            /\ queue' = Append(queue, v)
            /\ UNCHANGED taken

Read == /\ queue # <<>>
        /\ taken' = Head(queue)
        /\ queue' = Tail(queue)

PopFront == /\ queue # <<>>
            /\ queue' = Tail(queue)
            /\ UNCHANGED taken

Next == (\E v \in Value : Write(v)) \/ Read \/ PopFront

Spec == Init /\ [][Next]_vars
=============================================================================
