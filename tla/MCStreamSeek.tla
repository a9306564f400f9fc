---------------------------- MODULE MCStreamSeek ----------------------------
(* Instances of StreamSeek for TLC.                                        *)
EXTENDS StreamSeek

\* Seeks forward to bytes at which no chunk starts, neither when the file is
\* read from its beginning nor when it is read from the other one of them.
Forward   == {<<f, 4>> : f \in 0 .. 3} \cup {<<f, 8>> : f \in 0 .. 7}

Backward  == {<<f, t>> \in (0 .. StreamLength) \X (0 .. StreamLength) : t < f}
Nowhere   == {<<f, f>> : f \in 0 .. StreamLength}
GoodSeeks == Forward \cup Backward \cup Nowhere

\* Seeks forward to a byte at which a chunk starts.
Aligned   == {<<f, 6>> : f \in 0 .. 2}

ToEnd     == {<<f, StreamLength>> : f \in 0 .. StreamLength}
=============================================================================
