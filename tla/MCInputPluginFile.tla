------------------------- MODULE MCInputPluginFile -------------------------
(***************************************************************************)
(* Two tracks, and room for one finished file, so that the second one is    *)
(* held up until the first was played.                                      *)
(***************************************************************************)
EXTENDS InputPluginFile
=============================================================================
