-------------------------- MODULE MCDecoderManager --------------------------
(***************************************************************************)
(* Two tracks, one for each decoder, and an output buffer of one chunk.     *)
(***************************************************************************)
EXTENDS DecoderManager
=============================================================================
