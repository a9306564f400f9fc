-------------------------- MODULE MCPlaylistManager --------------------------
\* The bounds are in the configuration: a playlist of three items, and three
\* actions of the user in any order.
EXTENDS PlaylistManager
=============================================================================
