--------------------------- MODULE MCCacheCleanup ---------------------------
(* Instances of CacheCleanup for TLC.                                      *)
EXTENDS CacheCleanup, TLC

CONSTANTS k1, k2, w1, go

\* The cache as it is planned, and another directory in its place.
SomeCaches == {[inode |-> 0, bytes |-> 1, sound |-> TRUE],
               [inode |-> 1, bytes |-> 0, sound |-> FALSE]}
\* The keepers run the same commands.
Symmetry == Permutations(Keepers)
=============================================================================
