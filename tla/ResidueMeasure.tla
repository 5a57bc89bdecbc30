--------------------------- MODULE ResidueMeasure ---------------------------
(***************************************************************************)
(* The measurement of the artifact trees of a capture                      *)
(* (src/internal/residue/measure.go) and their total (engine.go).          *)
(*                                                                         *)
(* The trees are walked one after the other under one budget, with one     *)
(* call of Lstat or ReadDir at a time, while others create, replace,       *)
(* remove and write what is in them.  The children of a directory have no  *)
(* order here: they are visited in any.                                    *)
(*                                                                         *)
(* A path is known by the paths above it.  What others put at a path may   *)
(* be a symbolic link; Lstat and ReadDir follow it where it is above the   *)
(* last component, ReadDir even there, and then anything may be found.     *)
(***************************************************************************)
EXTENDS Integers, Sequences, FiniteSets, FiniteSetsExt

CONSTANTS
  Path, Above,     \* Above[q]: the paths of the directories that q is in
  Inode, Length,   \* files and their sizes
  Roots,           \* the artifact roots, in the order of the capture
  Caches,          \* statuses of the default caches, which come before the trees
  Beginnings,      \* file systems, as [Path -> Entry]
  MaxItems, MaxDepth, MaxBytes,
  MaxChanges,      \* bound of the instance: changes by others
  None, Denied

Entry ==
  [kind : {"dir", "link", "special", "none"}, inode : {None}]
    \cup [kind : {"file"}, inode : Inode]

Absent == [kind |-> "none", inode |-> None]

\* Everything is in directories.
Grounded(fs) ==
  \A q \in Path : fs[q] # Absent => \A a \in Above[q] : fs[a].kind = "dir"

ASSUME MeasureAssumption ==
  /\ Above \in [Path -> SUBSET Path]
  /\ \A q \in Path : q \notin Above[q] /\ \A a \in Above[q] : Above[a] \subseteq Above[q]
  /\ \A q \in Path : \A a \in Above[q] : \E c \in Above[q] \cup {q} : Above[c] = Above[a] \cup {a}
  /\ \A q \in Path : IsFiniteSet(Above[q])
  /\ Length \subseteq Nat /\ Roots \in Seq(Path)
  /\ Beginnings \subseteq [Path -> Entry] /\ \A fs \in Beginnings : Grounded(fs)
  /\ Caches \subseteq {"complete", "partial", "unknown", "not-present"}
  /\ MaxItems \in Nat /\ MaxDepth \in Nat /\ MaxBytes \in Nat /\ MaxChanges \in Nat
  /\ None \notin Inode /\ Denied \notin Entry

VARIABLES
  fs, size,        \* the file system; the sizes of the files
  late,            \* the time of the capture is over
  last,            \* history: the turn in which others last changed a path
  changes,         \* how often they did
  turn,            \* the tree that is measured, by its number
  stage, at,       \* the next call, and the directory that is to be read
  todo,            \* the paths that are to be visited
  items, bytes,    \* what is used of the budget
  files, visited,  \* the files of this tree that are counted or seen
  flags,           \* "partial" and "unknown", of this tree
  cache,           \* the status of the caches
  statuses,        \* the statuses of the trees
  total            \* the files that the total has counted, and its bytes

others == <<fs, size, late, last, changes>>
tree   == <<at, todo, files, visited, flags>>
report == <<statuses, total>>
vars   == <<others, turn, stage, tree, items, bytes, cache, report>>

Root == Roots[turn]
Tree(r) == {q \in Path : q = r \/ r \in Above[q]}
Children(q) == {c \in Path : Above[c] = Above[q] \cup {q}}
Depth(q) == Cardinality(Above[q] \ Above[Root])

-----------------------------------------------------------------------------
(* What Lstat and ReadDir may return.                                      *)

Reachable(q) == \A a \in Above[q] : fs[a].kind = "dir"

\* What is above a path ends in a symbolic link.
Linked(q) == \E a \in Above[q] : Reachable(a) /\ fs[a].kind = "link"

Lstat(q) ==
  {Denied} \cup
  (IF Reachable(q) THEN {fs[q]} ELSE IF Linked(q) THEN Entry ELSE {Absent})

Present(q) == {c \in Children(q) : fs[c] # Absent}

ReadDir(q) ==
  {Denied} \cup
  (IF Reachable(q) /\ fs[q].kind = "dir" THEN {Present(q)}
   ELSE IF Linked(q) \/ (Reachable(q) /\ fs[q].kind = "link") THEN SUBSET Children(q)
   ELSE {})

-----------------------------------------------------------------------------
(* The total of the report.                                                *)

SumOf(f, S) == MapThenSumSet(LAMBDA i : f[i], S)

NoTotal == [files |-> [i \in {} |-> 0], bytes |-> 0]

\* Mutant of Merged: the bytes of every tree are added.
MergedByTree(t, counted) ==
  [files |-> [i \in DOMAIN t.files \cup DOMAIN counted |->
                IF i \in DOMAIN t.files THEN t.files[i] ELSE counted[i]],
   bytes |-> t.bytes + SumOf(counted, DOMAIN counted)]

\* A file that an earlier tree has counted is not counted again.
Merged(t, counted) ==
  [files |-> [i \in DOMAIN t.files \cup DOMAIN counted |->
                IF i \in DOMAIN t.files THEN t.files[i] ELSE counted[i]],
   bytes |-> t.bytes + SumOf(counted, DOMAIN counted \ DOMAIN t.files)]

TreeStatus ==
  IF "unknown" \in flags /\ DOMAIN files = {} THEN "unknown"
  ELSE IF flags # {} THEN "partial"
  ELSE "complete"

Statuses == {statuses[k] : k \in DOMAIN statuses} \cup {cache}

\* Something has a size; a cache that is measured in part has none.
SomePresent ==
  cache = "complete" \/ \E k \in DOMAIN statuses : statuses[k] \in {"complete", "partial"}

\* Mutant of TotalStatus: what is unknown is left out.
TotalStatusOfKnown ==
  IF Statuses = {"not-present"} THEN "not-present"
  ELSE IF "unknown" \in Statuses /\ ~SomePresent THEN "unknown"
  ELSE IF "partial" \in Statuses THEN "partial"
  ELSE "complete"

TotalStatus ==
  IF Statuses = {"not-present"} THEN "not-present"
  ELSE IF "unknown" \in Statuses /\ ~SomePresent THEN "unknown"
  ELSE IF Statuses \cap {"unknown", "partial"} # {} THEN "partial"
  ELSE "complete"

-----------------------------------------------------------------------------
(* measureTree.                                                            *)

\* The tree is done.
Conclude(status) ==
  /\ statuses' = Append(statuses, status)
  /\ turn' = turn + 1 /\ stage' = "root"

\* The root is looked at before the walk: nothing but a directory is walked.
NoTree ==
  /\ stage = "root" /\ turn =< Len(Roots)
  /\ \E found \in Lstat(Root) :
       \/ found = Absent /\ Conclude("not-present")
       \/ found \notin {Absent, Denied} /\ found.kind # "dir" /\ Conclude("unknown")
       \/ found = Denied /\ Conclude("unknown")
  /\ UNCHANGED <<others, tree, items, bytes, cache, total>>

\* Mutant of OpenTree: what earlier trees have seen stays seen.
OpenTreeSeen ==
  /\ stage = "root" /\ turn =< Len(Roots)
  /\ \E found \in Lstat(Root) : found # Denied /\ found.kind = "dir"
  /\ stage' = "visit" /\ todo' = {Root}
  /\ files' = [i \in {} |-> 0] /\ flags' = {}
  /\ UNCHANGED <<others, turn, at, visited, items, bytes, cache, report>>

\* Mutant of OpenTree: what earlier trees have counted stays counted.
OpenTreeKeeps ==
  /\ stage = "root" /\ turn =< Len(Roots)
  /\ \E found \in Lstat(Root) : found # Denied /\ found.kind = "dir"
  /\ stage' = "visit" /\ todo' = {Root}
  /\ visited' = {} /\ flags' = {}
  /\ UNCHANGED <<others, turn, at, files, items, bytes, cache, report>>

\* A walk begins.
OpenTree ==
  /\ stage = "root" /\ turn =< Len(Roots)
  /\ \E found \in Lstat(Root) : found # Denied /\ found.kind = "dir"
  /\ stage' = "visit" /\ todo' = {Root}
  /\ files' = [i \in {} |-> 0] /\ visited' = {} /\ flags' = {}
  /\ UNCHANGED <<others, turn, at, items, bytes, cache, report>>

Bounded == late \/ items >= MaxItems

\* A bound is reached: nothing more is visited.
StopAtBound ==
  /\ stage = "visit" /\ todo # {} /\ Bounded
  /\ todo' = {} /\ flags' = flags \cup {"partial"}
  /\ UNCHANGED <<others, turn, stage, at, files, visited, items, bytes, cache, report>>

Visiting(q) ==
  /\ stage = "visit" /\ q \in todo /\ ~Bounded
  /\ items' = items + 1

\* The entry has gone or cannot be looked at, or it is a link or special.
Skip(q) ==
  /\ Visiting(q)
  /\ \E found \in Lstat(q) :
       \/ /\ found \in {Absent, Denied}
          /\ flags' = flags \cup {IF q = Root THEN "unknown" ELSE "partial"}
       \/ /\ found # Denied /\ found.kind \in {"link", "special"}
          /\ flags' = flags \cup {"partial"}
  /\ todo' = todo \ {q}
  /\ UNCHANGED <<others, turn, stage, at, files, visited, bytes, cache, report>>

Enter(q) ==
  /\ Visiting(q)
  /\ \E found \in Lstat(q) : found # Denied /\ found.kind = "dir"
  /\ todo' = todo \ {q}
  /\ stage' = "read" /\ at' = q
  /\ UNCHANGED <<others, turn, files, visited, flags, bytes, cache, report>>

\* Mutant of Count: the bytes that are used already are not deducted.
CountEach(q) ==
  /\ Visiting(q)
  /\ \E found \in Lstat(q) :
       /\ found # Denied /\ found.kind = "file"
       /\ visited' = visited \cup {found.inode}
       /\ \/ /\ found.inode \in visited
             /\ todo' = todo \ {q}
             /\ UNCHANGED <<files, bytes, flags>>
          \/ /\ found.inode \notin visited /\ size[found.inode] > MaxBytes
             /\ todo' = {} /\ flags' = flags \cup {"partial"}
             /\ UNCHANGED <<files, bytes>>
          \/ /\ found.inode \notin visited /\ size[found.inode] =< MaxBytes
             /\ todo' = todo \ {q}
             /\ files' = [i \in DOMAIN files \cup {found.inode} |->
                            IF i = found.inode THEN size[i] ELSE files[i]]
             /\ bytes' = bytes + size[found.inode]
             /\ UNCHANGED flags
  /\ UNCHANGED <<others, turn, stage, at, cache, report>>

\* A file is counted once, by its inode, if the bytes are within the budget;
\* if not, nothing more is visited.
Count(q) ==
  /\ Visiting(q)
  /\ \E found \in Lstat(q) :
       /\ found # Denied /\ found.kind = "file"
       /\ visited' = visited \cup {found.inode}
       /\ \/ /\ found.inode \in visited
             /\ todo' = todo \ {q}
             /\ UNCHANGED <<files, bytes, flags>>
          \/ /\ found.inode \notin visited /\ size[found.inode] > MaxBytes - bytes
             /\ todo' = {} /\ flags' = flags \cup {"partial"}
             /\ UNCHANGED <<files, bytes>>
          \/ /\ found.inode \notin visited /\ size[found.inode] =< MaxBytes - bytes
             /\ todo' = todo \ {q}
             /\ files' = [i \in DOMAIN files \cup {found.inode} |->
                            IF i = found.inode THEN size[i] ELSE files[i]]
             /\ bytes' = bytes + size[found.inode]
             /\ UNCHANGED flags
  /\ UNCHANGED <<others, turn, stage, at, cache, report>>

Read ==
  /\ stage = "read"
  /\ \E listing \in ReadDir(at) :
       \/ /\ listing = Denied
          /\ flags' = flags \cup
               {IF at = Root /\ DOMAIN files = {} THEN "unknown" ELSE "partial"}
          /\ UNCHANGED todo
       \/ /\ listing # Denied /\ Depth(at) >= MaxDepth /\ listing # {}
          /\ flags' = flags \cup {"partial"}
          /\ UNCHANGED todo
       \/ /\ listing # Denied /\ (Depth(at) < MaxDepth \/ listing = {})
          /\ todo' = todo \cup listing
          /\ UNCHANGED flags
  /\ stage' = "visit"
  /\ UNCHANGED <<others, turn, at, files, visited, items, bytes, cache, report>>

\* The tree is measured, and its files are added to the total.
Finish ==
  /\ stage = "visit" /\ todo = {}
  /\ Conclude(TreeStatus)
  /\ total' = Merged(total, files)
  /\ UNCHANGED <<others, tree, items, bytes, cache>>

MeasureNext ==
  \/ NoTree \/ OpenTree \/ StopAtBound \/ Read \/ Finish
  \/ \E q \in Path : Skip(q) \/ Enter(q) \/ Count(q)

-----------------------------------------------------------------------------
(* The others, and time.                                                   *)

Touched(S) == last' = [q \in Path |-> IF q \in S THEN turn ELSE last[q]]

\* Something else is at a path, or nothing; what was in it is no longer there.
Put(q, e) ==
  /\ changes < MaxChanges /\ changes' = changes + 1
  /\ Reachable(q) /\ fs[q] # e
  /\ fs' = [p \in Path |-> IF p = q THEN e
                           ELSE IF q \in Above[p] THEN Absent ELSE fs[p]]
  /\ Touched({q})
  /\ UNCHANGED <<size, late>>

\* A file is written, under all its names.
Write(i, n) ==
  /\ changes < MaxChanges /\ changes' = changes + 1
  /\ size[i] # n /\ size' = [size EXCEPT ![i] = n]
  /\ Touched({q \in Path : fs[q].inode = i})
  /\ UNCHANGED <<fs, late>>

TimeIsOver ==
  /\ ~late /\ late' = TRUE
  /\ UNCHANGED <<fs, size, last, changes>>

OthersNext ==
  /\ turn =< Len(Roots)
  /\ \/ \E q \in Path, e \in Entry : Put(q, e)
     \/ \E i \in Inode, n \in Length : Write(i, n)
     \/ TimeIsOver
  /\ UNCHANGED <<turn, stage, tree, items, bytes, cache, report>>

Init ==
  /\ fs \in Beginnings /\ size \in [Inode -> Length]
  /\ late = FALSE /\ last = [q \in Path |-> 0] /\ changes = 0
  /\ turn = 1 /\ stage = "root" /\ at = None /\ todo = {}
  /\ items = 0 /\ bytes = 0
  /\ files = [i \in {} |-> 0] /\ visited = {} /\ flags = {}
  /\ cache \in Caches /\ statuses = <<>> /\ total = NoTotal

Next == MeasureNext \/ OthersNext

Spec == Init /\ [][Next]_vars

-----------------------------------------------------------------------------
(* Properties.                                                             *)

TypeOK ==
  /\ fs \in [Path -> Entry] /\ Grounded(fs) /\ size \in [Inode -> Length]
  /\ late \in BOOLEAN /\ changes \in 0 .. MaxChanges
  /\ turn \in 1 .. Len(Roots) + 1 /\ last \in [Path -> 0 .. turn]
  /\ stage \in {"root", "visit", "read"} /\ todo \subseteq Path
  /\ stage # "root" => turn =< Len(Roots)
  /\ stage = "read" => at \in Path
  /\ items \in 0 .. MaxItems /\ bytes \in 0 .. MaxBytes
  /\ visited \subseteq Inode
  /\ DOMAIN files \subseteq visited /\ \A i \in DOMAIN files : files[i] \in Length
  /\ flags \subseteq {"partial", "unknown"}
  /\ statuses \in Seq({"complete", "partial", "unknown", "not-present"})
  /\ Len(statuses) = turn - 1

\* Nobody has changed a path, or anything above it, since the turn k began.
Untouched(q, k) == \A a \in Above[q] \cup {q} : last[a] < k

Measured == stage = "visit" /\ todo = {}

\* A tree that is said to be complete has every file that nobody has touched
\* while it was measured, with its size, whatever happened around it: links
\* and files that come and go, other trees with the same files, bounds and
\* errors (measureTree).
CompleteCoversUntouched ==
  Measured /\ TreeStatus = "complete" =>
    \A q \in Tree(Root) :
      fs[q].kind = "file" /\ Untouched(q, turn) =>
        /\ fs[q].inode \in DOMAIN files
        /\ files[fs[q].inode] = size[fs[q].inode]

\* The inodes of the files that are in a tree.
FilesIn(r) == {fs[q].inode : q \in {p \in Tree(r) : fs[p].kind = "file"}}

\* What is counted in a tree while nobody touches anything is there, as large as that:
\* a partial size is a lower bound (docs/RESIDUE-CONTRACT.md, "Measurement
\* rules").
NothingOverstated ==
  stage # "root" /\ Reachable(Root) /\ (\A q \in Path : last[q] < turn) =>
    /\ DOMAIN files \subseteq FilesIn(Root)
    /\ \A i \in DOMAIN files : files[i] = size[i]

\* A file that several trees contain is in the bytes of the total once
\* (mergeEntrySize).
TotalCountsOnce == total.bytes = SumOf(total.files, DOMAIN total.files)

\* A total that is said to be complete has every file of every tree that
\* nobody has touched since the capture began (captureStatus, totalSize).
TotalCovers ==
  turn > Len(Roots) /\ TotalStatus = "complete" =>
    \A k \in DOMAIN Roots : \A q \in Tree(Roots[k]) :
      fs[q].kind = "file" /\ Untouched(q, 1) =>
        /\ fs[q].inode \in DOMAIN total.files
        /\ total.files[fs[q].inode] = size[fs[q].inode]

-----------------------------------------------------------------------------
(* What the walk preserves.                                                *)

\* What is under at is still to be visited, or was when the walk was there.
Ahead(q) ==
  \/ \E a \in Above[q] \cup {q} : a \in todo
  \/ stage = "read" /\ at \in Above[q]

Counted(q, f) == fs[q].inode \in DOMAIN f /\ f[fs[q].inode] = size[fs[q].inode]

\* A file is counted, or to be visited, or the tree is not complete.
Covered ==
  stage # "root" =>
    /\ todo \subseteq Tree(Root) /\ (stage = "read" => at \in Tree(Root))
    /\ flags = {} => visited \subseteq DOMAIN files
    /\ \A q \in Path : fs[q].kind = "file" /\ Untouched(q, turn) =>
         /\ fs[q].inode \in DOMAIN files => Counted(q, files)
         /\ q \in Tree(Root) /\ flags = {} => Counted(q, files) \/ Ahead(q)

\* While nobody touches anything the walk does not leave the tree.
Inside ==
  stage # "root" /\ Reachable(Root) /\ (\A q \in Path : last[q] < turn) =>
    /\ \A q \in todo : Reachable(q)
    /\ stage = "read" => Reachable(at) /\ fs[at].kind = "dir"

\* The files of the trees that are done.
Totalled ==
  /\ \A q \in Path : fs[q].kind = "file" /\ Untouched(q, 1) =>
       /\ fs[q].inode \in DOMAIN total.files => Counted(q, total.files)
       /\ \A k \in 1 .. turn - 1 :
            q \in Tree(Roots[k]) /\ statuses[k] \in {"complete", "not-present"} =>
              Counted(q, total.files)

IInv == TypeOK /\ Covered /\ Inside /\ NothingOverstated /\ Totalled

\* What is counted, in this tree or in the total, can be added up.
Finite(counted) ==
  IsFiniteSet(DOMAIN counted) /\ \A i \in DOMAIN counted : counted[i] \in Nat

TotalInv == TotalCountsOnce /\ Finite(files) /\ Finite(total.files)
=============================================================================
