------------------------ MODULE MCWorktreeRetirement ------------------------
(* Instances of WorktreeRetirement for TLC.                                *)
EXTENDS WorktreeRetirement

CONSTANTS p1, p2, p3

\* A linear history: commit 2 is made on top of commit 1.
LinearHistory == {<<a, b>> \in Commits \X Commits : b =< a}
=============================================================================
