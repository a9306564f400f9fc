---------------------- MODULE MCProducerConsumerQueue ----------------------
(***************************************************************************)
(* The ring for TLC.  Three usable slots: both indices wrap while the      *)
(* other thread is inside a call, and a slot can be neither the one being  *)
(* written nor the one being read.  Two values suffice to see a reordered, *)
(* repeated or lost one, because the refinement compares the whole queue.  *)
(***************************************************************************)
EXTENDS ProducerConsumerQueue

CONSTANTS v1, v2

MCSize  == 4
MCValue == {v1, v2}
=============================================================================
