--------------------------- MODULE MCCacheBuffer ---------------------------
EXTENDS CacheBuffer

\* Two chunks of two bytes: one can be filled while the other is consumed, and
\* both pass through each hand.  Five bytes fill the whole pool and the first
\* chunk again; a request of three spans two chunks.
MCBufferSizeCount == 2
MCElemSize        == 2
MCStreamLength    == 5
MCMaxRequest      == 3
=============================================================================
