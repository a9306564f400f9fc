---------------------------- MODULE MCGentleSeek ----------------------------
(* The instance of StreamSeek for which its theorems hold.                 *)
EXTENDS MCStreamSeek

ASSUME GentleInstance == GentleCodec
=============================================================================
