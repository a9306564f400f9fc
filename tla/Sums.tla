-------------------------------- MODULE Sums --------------------------------
(***************************************************************************)
(* What the elements of a sequence add up to, or are one after the other:   *)
(* the values FoldSeq and FlattenSeq of SequencesExt have, as functions of  *)
(* the number of elements, about which more can be proved.                  *)
(***************************************************************************)
EXTENDS Integers, Sequences

\* The sum of a sequence of numbers
Total(q) ==
  LET upTo[n \in 0 .. Len(q)] == IF n = 0 THEN 0 ELSE upTo[n - 1] + q[n]
  IN  upTo[Len(q)]

\* The sequences of a sequence, put together
Joined(ss) ==
  LET upTo[n \in 0 .. Len(ss)] == IF n = 0 THEN <<>> ELSE upTo[n - 1] \o ss[n]
  IN  upTo[Len(ss)]
=============================================================================
