-------------------------- MODULE MCResidueHistory --------------------------
(* Instances of ResidueHistory for TLC.                                    *)
EXTENDS ResidueHistory, TLC

CONSTANTS r1, r2

Cache(status, bytes, identity) ==
  [kind |-> "go-cache", rule |-> 1, status |-> status, bytes |-> bytes,
   identity |-> identity, state |-> status]

Worktree(identity) ==
  [kind |-> "git-worktree", rule |-> 1, status |-> "unknown", bytes |-> None,
   identity |-> identity, state |-> "inventory-only"]

Bound == [status |-> "complete", root |-> 1]

Default(rank, bytes, cache) ==
  [rank |-> rank, bytes |-> bytes, bindings |-> [default |-> Bound],
   entries |-> [cache |-> cache]]

Small  == Default(1, 0, Cache("complete", 1, 1))
Large  == Default(2, 0, Cache("complete", 2, 1))
Lower  == Default(3, 0, Cache("partial", 1, 1))
Absent == Default(4, 0, Cache("not-present", None, None))
Moved  == Default(5, 0, Cache("complete", 1, 2))
Scoped ==
  [rank |-> 6, bytes |-> 1, bindings |-> [default |-> Bound, project |-> Bound],
   entries |-> [cache |-> Cache("complete", 1, 1), tree |-> Worktree(1)]]

\* Everything a capture can find, and one content only.
AllContents == {Small, Large, Lower, Absent, Moved, Scoped}
OneContent  == {Small}

Symmetry == Permutations(Process)
=============================================================================
