--------------------------- MODULE MCSampleHistory ---------------------------
(* Instances of SampleHistory for TLC.                                     *)
EXTENDS SampleHistory, TLC

CONSTANTS p1, p2

\* A state file of an earlier version, from the first instant.
EarlyLegacy == {[at |-> 1, bytes |-> 1]}
\* The processes run the same commands.
Symmetry == Permutations(Process)
=============================================================================
