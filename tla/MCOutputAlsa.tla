---------------------------- MODULE MCOutputAlsa ----------------------------
EXTENDS OutputAlsa, TLC

CONSTANTS exact, guessed   \* a track of known length, and one of a length guessed
CONSTANTS cd, hd           \* formats

\* Two tracks, one after the other.
TwoTracks == {exact, guessed}
TwoLength == exact :> 2 @@ guessed :> 1
TwoAnnounced == exact :> 2 @@ guessed :> 2
TwoFormats == {exact :> cd @@ guessed :> f : f \in {cd, hd}}

\* One track, longer than a chunk.
OneTrack  == {guessed}
OneLength == guessed :> 3
OneAnnounced == guessed :> 4
OneFormat == {guessed :> cd}
=============================================================================
