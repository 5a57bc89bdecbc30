-------------------------- MODULE MCResidueMeasure --------------------------
(* Instances of ResidueMeasure for TLC.                                    *)
EXTENDS ResidueMeasure

CONSTANTS outer, inner, deep, deepest, side

\* An artifact root with a directory and a file; the directory is the root of
\* the second tree, with something in it that may be a directory as well.
TwoRoots  == <<outer, inner>>
FivePaths == {outer, inner, deep, deepest, side}
Nesting ==
  [q \in FivePaths |-> CASE q = outer         -> {}
                         [] q \in {inner, side} -> {outer}
                         [] q = deep          -> {outer, inner}
                         [] q = deepest       -> {outer, inner, deep}]

Plain(kind) == [kind |-> kind, inode |-> None]
File(i)     == [kind |-> "file", inode |-> i]
Holding(inDeep, inDeepest, inSide) ==
  [q \in FivePaths |-> CASE q \in {outer, inner} -> Plain("dir")
                         [] q = deep            -> inDeep
                         [] q = deepest         -> inDeepest
                         [] q = side            -> inSide]

\* Two files, two names of one, and a file that is too deep.
SomeTrees  == {Holding(File(1), Absent, File(2)), Holding(File(1), Absent, File(1)),
               Holding(Plain("dir"), File(1), File(1))}
SomeCaches == {"complete", "not-present"}
=============================================================================
