------------------------------ MODULE BytePipe ------------------------------
(***************************************************************************)
(* What cache_buffer promises: a pipe of bytes between two threads.  The   *)
(* producer appends at the tail, and may take back bytes of the tail it    *)
(* has not passed on; the consumer is handed, or throws away, bytes from   *)
(* the head.  No byte is lost, repeated or reordered in between.           *)
(***************************************************************************)
EXTENDS Naturals, Sequences, SequencesExt

CONSTANT CapacityInBytes   \* the pipe never holds more than this

VARIABLES stream,   \* the bytes in the pipe, oldest first
          output    \* the bytes the last read handed to the consumer

vars == <<stream, output>>

Init == /\ stream = <<>>
        /\ output = <<>>

Put == /\ IsPrefix(stream, stream')
       /\ Len(stream') <= CapacityInBytes
       /\ UNCHANGED output

TakeBack == /\ IsPrefix(stream', stream)
            /\ UNCHANGED output

Take == \E n \in 1 .. Len(stream) :
          /\ output' = SubSeq(stream, 1, n)
          /\ stream' = SubSeq(stream, n + 1, Len(stream))

Discard == \E n \in 1 .. Len(stream) :
             /\ stream' = SubSeq(stream, n + 1, Len(stream))
             /\ UNCHANGED output

Next == Put \/ TakeBack \/ Take \/ Discard

Spec == Init /\ [][Next]_vars
=============================================================================
