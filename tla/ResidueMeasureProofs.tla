------------------------ MODULE ResidueMeasureProofs ------------------------
(* Proofs about the measurement of artifact trees.                         *)
EXTENDS ResidueMeasure, FiniteSetLemmas

\* A root is a path, and the statuses are texts that differ.
LEMMA RootIsPath ==
  ASSUME TypeOK, turn =< Len(Roots)
  PROVE  Root \in Path
<1>1. Roots \in Seq(Path)
  BY MeasureAssumption
<1>2. turn \in 1 .. Len(Roots)
  BY <1>1 DEF TypeOK
<1> QED
  BY <1>1, <1>2 DEF Root

\* What is at a path that is not empty can be reached.
LEMMA PresentIsReachable ==
  ASSUME Grounded(fs), NEW q \in Path, fs[q].kind # "none"
  PROVE  Reachable(q)
<1>1. fs[q] # Absent
  BY DEF Absent
<1> QED
  BY <1>1 DEF Grounded, Reachable

\* Lstat of a path below which there is a file finds a directory.
LEMMA LstatOfPresent ==
  ASSUME Grounded(fs), NEW q \in Path, Reachable(q),
         NEW found \in Lstat(q), found # Denied
  PROVE  found = fs[q]
BY DEF Lstat

\* A path under a file's path is not visited as a directory is.
LEMMA AboveIsDirectory ==
  ASSUME Grounded(fs), NEW p \in Path, fs[p].kind = "file", NEW q \in Above[p], q \in Path
  PROVE  Reachable(q) /\ fs[q].kind = "dir"
<1>1. Reachable(p)
  BY PresentIsReachable
<1>2. fs[q].kind = "dir"
  BY <1>1 DEF Reachable
<1> QED
  BY <1>2, PresentIsReachable

\* The paths above a path are paths.
LEMMA AboveIsPath == \A q \in Path : Above[q] \subseteq Path
BY MeasureAssumption

\* The next component on the way from a directory to a path in it.
LEMMA NextComponent ==
  ASSUME NEW q \in Path, NEW a \in Above[q]
  PROVE  \E c \in Above[q] \cup {q} : c \in Path /\ c \in Children(a)
<1>1. PICK c \in Above[q] \cup {q} : Above[c] = Above[a] \cup {a}
  BY MeasureAssumption
<1> QED
  BY <1>1, AboveIsPath DEF Children

\* A child of a directory of a tree is in the tree.
LEMMA ChildInTree ==
  ASSUME NEW r, NEW q \in Tree(r), NEW c \in Children(q)
  PROVE  c \in Tree(r)
BY DEF Tree, Children

-----------------------------------------------------------------------------
(* Type correctness.                                                       *)

LEMMA TypeInit == Init => TypeOK
<1> SUFFICES ASSUME Init PROVE TypeOK
  OBVIOUS
<1>1. fs \in [Path -> Entry] /\ Grounded(fs)
  BY MeasureAssumption DEF Init
<1>2. Len(Roots) \in Nat
  BY MeasureAssumption
<1>3. statuses = <<>> /\ Len(statuses) = 0
  BY DEF Init
<1>4. statuses \in Seq({"complete", "partial", "unknown", "not-present"})
  BY <1>3
<1>5. DOMAIN files = {} /\ visited = {}
  BY DEF Init
<1>6. last \in [Path -> 0 .. turn] /\ turn = 1
  BY DEF Init
<1>8. 0 \in 0 .. MaxChanges /\ 0 \in 0 .. MaxItems /\ 0 \in 0 .. MaxBytes
  BY MeasureAssumption
<1>7. /\ changes \in 0 .. MaxChanges /\ items \in 0 .. MaxItems /\ bytes \in 0 .. MaxBytes
      /\ late \in BOOLEAN /\ stage = "root" /\ todo \subseteq Path /\ flags \subseteq {"partial", "unknown"}
      /\ size \in [Inode -> Length]
  BY <1>8 DEF Init
<1> QED
  BY <1>1, <1>2, <1>3, <1>4, <1>5, <1>6, <1>7 DEF TypeOK

\* What Lstat finds is an entry.
LEMMA LstatType ==
  ASSUME TypeOK, NEW q \in Path, NEW found \in Lstat(q), found # Denied
  PROVE  /\ found \in Entry
         /\ found.kind = "file" => found.inode \in Inode
<1>1. Absent \in Entry
  BY DEF Absent, Entry
<1>2. found \in Entry
  BY <1>1 DEF Lstat, TypeOK
<1> QED
  BY <1>2 DEF Entry

\* A tree is concluded.
LEMMA TypeConclude ==
  ASSUME TypeOK, turn =< Len(Roots),
         NEW status \in {"complete", "partial", "unknown", "not-present"},
         Conclude(status), UNCHANGED <<others, tree, items, bytes>>
  PROVE  TypeOK'
<1>1. Len(Roots) \in Nat
  BY MeasureAssumption
<1>2. turn' = turn + 1 /\ turn' \in 1 .. Len(Roots) + 1 /\ stage' = "root"
  BY <1>1 DEF Conclude, TypeOK
<1>3. last' \in [Path -> 0 .. turn']
  <2>1. last' = last /\ last \in [Path -> 0 .. turn]
    BY DEF others, TypeOK
  <2>2. 0 .. turn \subseteq 0 .. turn'
    BY <1>2 DEF TypeOK
  <2> QED
    BY <2>1, <2>2
<1>4. /\ statuses' \in Seq({"complete", "partial", "unknown", "not-present"})
      /\ Len(statuses') = turn' - 1
  BY <1>2 DEF Conclude, TypeOK
<1>5. UNCHANGED <<fs, size, late, changes, at, todo, files, visited, flags, items, bytes>>
  BY DEF others, tree
<1> QED
  BY <1>2, <1>3, <1>4, <1>5 DEF TypeOK, Grounded

LEMMA TypeMeasure == TypeOK /\ MeasureNext => TypeOK'
<1> SUFFICES ASSUME TypeOK, MeasureNext PROVE TypeOK'
  OBVIOUS
<1> USE DEF others, tree, report
<1>1. CASE NoTree
  <2>1. PICK status \in {"unknown", "not-present"} : Conclude(status)
    BY <1>1 DEF NoTree
  <2> QED
    BY <1>1, <2>1, TypeConclude DEF NoTree
<1>2. CASE OpenTree
  <2>1. Root \in Path
    BY <1>2, RootIsPath DEF OpenTree
  <2>2. files' = [i \in {} |-> 0] /\ DOMAIN files' = {}
    BY <1>2 DEF OpenTree
  <2> QED
    BY <1>2, <2>1, <2>2 DEF OpenTree, TypeOK, Grounded
<1>3. CASE StopAtBound
  BY <1>3 DEF StopAtBound, TypeOK, Grounded
<1>4. CASE Read
  <2>1. \A listing \in ReadDir(at) : listing = Denied \/ listing \subseteq Path
    BY DEF ReadDir, Present, Children
  <2>2. todo' \subseteq Path
    BY <1>4, <2>1 DEF Read, TypeOK
  <2>3. flags' \subseteq {"partial", "unknown"}
    BY <1>4 DEF Read, TypeOK
  <2> QED
    BY <1>4, <2>2, <2>3 DEF Read, TypeOK, Grounded
<1>5. CASE Finish
  <2>1. TreeStatus \in {"complete", "partial", "unknown", "not-present"}
    BY DEF TreeStatus
  <2>2. turn =< Len(Roots)
    BY <1>5 DEF Finish, TypeOK
  <2> QED
    BY <1>5, <2>1, <2>2, TypeConclude DEF Finish
<1>6. ASSUME NEW q \in Path, Visiting(q) PROVE items' \in 0 .. MaxItems
  <2>1. items < MaxItems /\ items' = items + 1
    BY <1>6, MeasureAssumption DEF Visiting, Bounded, TypeOK
  <2> QED
    BY <2>1, MeasureAssumption DEF TypeOK
<1>7. ASSUME NEW q \in Path, Skip(q) PROVE TypeOK'
  <2>1. items' \in 0 .. MaxItems
    BY <1>7, <1>6 DEF Skip
  <2>2. flags' \subseteq {"partial", "unknown"}
    BY <1>7 DEF Skip, TypeOK
  <2> QED
    BY <1>7, <2>1, <2>2 DEF Skip, TypeOK, Grounded
<1>8. ASSUME NEW q \in Path, Enter(q) PROVE TypeOK'
  <2>1. items' \in 0 .. MaxItems
    BY <1>8, <1>6 DEF Enter
  <2>2. stage = "visit"
    BY <1>8 DEF Enter, Visiting
  <2> QED
    BY <1>8, <2>1, <2>2 DEF Enter, TypeOK, Grounded
<1>9. ASSUME NEW q \in Path, Count(q) PROVE TypeOK'
  <2>1. items' \in 0 .. MaxItems /\ stage = "visit"
    BY <1>9, <1>6 DEF Count, Visiting
  <2>2. PICK found \in Lstat(q) :
          /\ found # Denied /\ found.kind = "file"
          /\ visited' = visited \cup {found.inode}
          /\ \/ /\ found.inode \in visited
                /\ todo' = todo \ {q}
                /\ UNCHANGED <<files, bytes, flags>>
             \/ /\ found.inode \notin visited /\ size[found.inode] > MaxBytes - bytes
                /\ todo' = {} /\ flags' = flags \cup {"partial"}
                /\ UNCHANGED <<files, bytes>>
             \/ /\ found.inode \notin visited /\ size[found.inode] =< MaxBytes - bytes
                /\ todo' = todo \ {q}
                /\ files' = [i \in DOMAIN files \cup {found.inode} |->
                               IF i = found.inode THEN size[i] ELSE files[i]]
                /\ bytes' = bytes + size[found.inode]
                /\ UNCHANGED flags
    BY <1>9 DEF Count
  <2>3. found.inode \in Inode
    BY <2>2, LstatType
  <2>4. size[found.inode] \in Length /\ size[found.inode] \in Nat
    BY <2>3, MeasureAssumption DEF TypeOK
  <2>5. bytes' \in 0 .. MaxBytes
    <3>1. bytes \in 0 .. MaxBytes /\ MaxBytes \in Nat
      BY MeasureAssumption DEF TypeOK
    <3>2. \/ bytes' = bytes
          \/ size[found.inode] =< MaxBytes - bytes /\ bytes' = bytes + size[found.inode]
      BY <2>2
    <3> QED
      BY <2>4, <3>1, <3>2
  <2>6. DOMAIN files' \subseteq visited' /\ \A i \in DOMAIN files' : files'[i] \in Length
    BY <2>2, <2>4 DEF TypeOK
  <2>7. todo' \subseteq Path /\ visited' \subseteq Inode /\ flags' \subseteq {"partial", "unknown"}
    BY <2>2, <2>3 DEF TypeOK
  <2>8. UNCHANGED <<others, turn, stage, at, cache, report>>
    BY <1>9 DEF Count
  <2> QED
    BY <2>1, <2>5, <2>6, <2>7, <2>8 DEF TypeOK, Grounded
<1> QED
  BY <1>1, <1>2, <1>3, <1>4, <1>5, <1>7, <1>8, <1>9 DEF MeasureNext

LEMMA TypeOthers == TypeOK /\ OthersNext => TypeOK'
<1> SUFFICES ASSUME TypeOK, OthersNext PROVE TypeOK'
  OBVIOUS
<1> USE DEF tree, report
<1>1. UNCHANGED <<turn, stage, at, todo, files, visited, flags, items, bytes, cache, statuses, total>>
  BY DEF OthersNext
<1>2. ASSUME NEW S, Touched(S) PROVE last' \in [Path -> 0 .. turn']
  BY <1>1, <1>2, MeasureAssumption DEF Touched, TypeOK
<1>3. ASSUME changes < MaxChanges, changes' = changes + 1 PROVE changes' \in 0 .. MaxChanges
  BY <1>3, MeasureAssumption DEF TypeOK
<1>4. ASSUME NEW q \in Path, NEW e \in Entry, Put(q, e) PROVE TypeOK'
  <2>1. Absent \in Entry
    BY DEF Absent, Entry
  <2>2. fs' \in [Path -> Entry]
    BY <1>4, <2>1 DEF Put, TypeOK
  <2>3. ASSUME NEW p \in Path, fs'[p] # Absent, NEW a \in Above[p] PROVE fs'[a].kind = "dir"
    <3>1. a \in Path
      BY AboveIsPath
    <3>2. q \notin Above[p]
      <4>1. CASE p = q
        BY <4>1, MeasureAssumption
      <4>2. CASE p # q
        <5>1. fs'[p] = IF q \in Above[p] THEN Absent ELSE fs[p]
          BY <1>4, <4>2 DEF Put
        <5> QED
          BY <2>3, <5>1
      <4> QED
        BY <4>1, <4>2
    <3>3. a # q /\ q \notin Above[a]
      BY <3>2, MeasureAssumption
    <3>4. fs'[a] = fs[a]
      BY <1>4, <3>1, <3>3 DEF Put
    <3>5. CASE p = q
      BY <1>4, <3>4, <3>5 DEF Put, Reachable
    <3>6. CASE p # q
      <4>1. fs'[p] = fs[p]
        BY <1>4, <3>2, <3>6 DEF Put
      <4> QED
        BY <2>3, <3>4, <4>1 DEF TypeOK, Grounded
    <3> QED
      BY <3>5, <3>6
  <2>4. Grounded(fs')
    BY <2>3 DEF Grounded
  <2>5. last' \in [Path -> 0 .. turn']
    BY <1>4, <1>2 DEF Put
  <2>6. changes' \in 0 .. MaxChanges
    BY <1>4, <1>3 DEF Put
  <2> QED
    BY <1>1, <1>4, <2>2, <2>4, <2>5, <2>6 DEF Put, TypeOK
<1>5. ASSUME NEW i \in Inode, NEW n \in Length, Write(i, n) PROVE TypeOK'
  <2>1. size' \in [Inode -> Length]
    BY <1>5 DEF Write, TypeOK
  <2>2. last' \in [Path -> 0 .. turn']
    BY <1>5, <1>2 DEF Write
  <2>3. changes' \in 0 .. MaxChanges
    BY <1>5, <1>3 DEF Write
  <2> QED
    BY <1>1, <1>5, <2>1, <2>2, <2>3 DEF Write, TypeOK, Grounded
<1>6. CASE TimeIsOver
  BY <1>1, <1>6 DEF TimeIsOver, TypeOK, Grounded
<1> QED
  BY <1>4, <1>5, <1>6 DEF OthersNext

\* The state of a measurement is well typed, within its bounds of items and
\* bytes, and everything is in directories.
THEOREM TypeCorrect == Spec => []TypeOK
<1>1. TypeOK /\ [Next]_vars => TypeOK'
  <2> SUFFICES ASSUME TypeOK, [Next]_vars PROVE TypeOK'
    OBVIOUS
  <2>1. CASE UNCHANGED vars
    BY <2>1 DEF vars, others, tree, report, TypeOK, Grounded
  <2> QED
    BY <2>1, TypeMeasure, TypeOthers DEF Next
<1> QED
  BY TypeInit, <1>1, PTL DEF Spec
-----------------------------------------------------------------------------
(* What the others leave alone.                                            *)

Quiet == \A q \in Path : last[q] < turn

\* A path that is untouched since a turn was untouched before the others'
\* step, which has left it and the size of its file alone.
LEMMA OthersKeep ==
  ASSUME TypeOK, OthersNext, NEW p \in Path, NEW k \in Int, k =< turn, Untouched(p, k)'
  PROVE  /\ Untouched(p, k) /\ fs'[p] = fs[p]
         /\ size'[fs[p].inode] = size[fs[p].inode]
<1>1. Above[p] \subseteq Path /\ turn \in Int
  BY AboveIsPath DEF TypeOK
<1>2. \A a \in Above[p] \cup {p} : last'[a] < k
  BY DEF Untouched
<1>3. ASSUME NEW S, Touched(S) PROVE Untouched(p, k) /\ S \cap (Above[p] \cup {p}) = {}
  <2>1. \A a \in Above[p] \cup {p} : last'[a] = IF a \in S THEN turn ELSE last[a]
    BY <1>1, <1>3 DEF Touched
  <2>2. \A a \in Above[p] \cup {p} : a \notin S /\ last[a] < k
    BY <1>1, <1>2, <2>1
  <2> QED
    BY <2>2 DEF Untouched
<1>4. ASSUME NEW q \in Path, NEW e \in Entry, Put(q, e)
      PROVE  Untouched(p, k) /\ fs'[p] = fs[p] /\ size' = size
  <2>1. Untouched(p, k) /\ {q} \cap (Above[p] \cup {p}) = {}
    BY <1>3, <1>4 DEF Put
  <2> QED
    BY <1>4, <2>1 DEF Put
<1>5. ASSUME NEW i \in Inode, NEW n \in Length, Write(i, n)
      PROVE  /\ Untouched(p, k) /\ fs'[p] = fs[p]
             /\ size'[fs[p].inode] = size[fs[p].inode]
  <2>1. Untouched(p, k) /\ p \notin {q \in Path : fs[q].inode = i}
    BY <1>3, <1>5 DEF Write
  <2>2. fs[p].inode # i
    BY <2>1
  <2>3. size' = [size EXCEPT ![i] = n] /\ fs' = fs
    BY <1>5 DEF Write
  <2> QED
    BY <2>1, <2>2, <2>3 DEF TypeOK
<1>6. CASE TimeIsOver
  BY <1>6 DEF TimeIsOver, Untouched
<1> QED
  BY <1>4, <1>5, <1>6 DEF OthersNext

\* If nothing is touched in this turn the others have changed no path.
LEMMA OthersQuiet ==
  ASSUME TypeOK, OthersNext, Quiet'
  PROVE  /\ Quiet
         /\ \A p \in Path : fs'[p] = fs[p] /\ size'[fs[p].inode] = size[fs[p].inode]
<1>1. turn' = turn /\ turn \in Int
  BY DEF OthersNext, TypeOK
<1>2. ASSUME NEW p \in Path
      PROVE  last[p] < turn /\ fs'[p] = fs[p] /\ size'[fs[p].inode] = size[fs[p].inode]
  <2>1. \A a \in Above[p] \cup {p} : last'[a] < turn
    BY <1>1, AboveIsPath DEF Quiet
  <2>2. Untouched(p, turn) /\ fs'[p] = fs[p] /\ size'[fs[p].inode] = size[fs[p].inode]
    <3>1. ASSUME NEW k \in Int, k = turn
          PROVE Untouched(p, k) /\ fs'[p] = fs[p] /\ size'[fs[p].inode] = size[fs[p].inode]
      <4>1. Untouched(p, k)'
        BY <2>1, <3>1 DEF Untouched
      <4> QED
        BY <1>1, <3>1, <4>1, OthersKeep
    <3> QED
      BY <1>1, <3>1
  <2> QED
    BY <2>2 DEF Untouched
<1> QED
  BY <1>2 DEF Quiet

LEMMA OthersStep == IInv /\ OthersNext => (Covered /\ Inside /\ NothingOverstated /\ Totalled)'
<1> SUFFICES ASSUME IInv, OthersNext
             PROVE  (Covered /\ Inside /\ NothingOverstated /\ Totalled)'
  OBVIOUS
<1>1. /\ TypeOK
      /\ UNCHANGED <<turn, stage, at, todo, files, visited, flags, statuses, total>>
      /\ turn \in Int /\ turn >= 1
  BY DEF IInv, TypeOK, OthersNext, tree, report
<1>2. Tree(Root)' = Tree(Root)
  BY <1>1 DEF Root
<1>3. Covered'
  <2> SUFFICES ASSUME stage' # "root" PROVE Covered'
    BY DEF Covered
  <2>1. ASSUME NEW q \in Path, fs'[q].kind = "file", Untouched(q, turn)'
        PROVE  /\ fs[q].kind = "file" /\ Untouched(q, turn) /\ fs'[q] = fs[q]
               /\ size'[fs[q].inode] = size[fs[q].inode]
    <3>1. ASSUME NEW k \in Int, k = turn
          PROVE Untouched(q, k) /\ fs'[q] = fs[q] /\ size'[fs[q].inode] = size[fs[q].inode]
      <4>1. Untouched(q, k)'
        BY <1>1, <2>1, <3>1 DEF Untouched
      <4> QED
        BY <1>1, <3>1, <4>1, OthersKeep
    <3> QED
      BY <1>1, <2>1, <3>1
  <2>2. ASSUME NEW q \in Path, fs'[q].kind = "file", Untouched(q, turn)'
        PROVE  /\ fs'[q].inode \in DOMAIN files' => Counted(q, files)'
               /\ q \in Tree(Root)' /\ flags' = {} => Counted(q, files)' \/ Ahead(q)'
    BY <1>1, <1>2, <2>1, <2>2 DEF IInv, Covered, Counted, Ahead
  <2> QED
    BY <1>1, <1>2, <2>2 DEF IInv, Covered
<1>4. Inside' /\ NothingOverstated'
  <2> SUFFICES ASSUME stage' # "root", Reachable(Root)', Quiet'
               PROVE  Inside' /\ NothingOverstated'
    BY DEF Inside, NothingOverstated, Quiet
  <2>1. Quiet /\ \A p \in Path : fs'[p] = fs[p] /\ size'[fs[p].inode] = size[fs[p].inode]
    BY <1>1, OthersQuiet
  <2>2. ASSUME NEW q \in Path PROVE Reachable(q)' <=> Reachable(q)
    BY <2>1, AboveIsPath DEF Reachable
  <2>3. Root \in Path /\ Root' = Root
    BY <1>1, RootIsPath DEF TypeOK, Root
  <2>4. Reachable(Root)
    BY <2>1, <2>3, AboveIsPath DEF Reachable
  <2>5. Inside'
    BY <1>1, <2>1, <2>2, <2>4 DEF IInv, Inside, Quiet, TypeOK
  <2>6. FilesIn(Root)' = FilesIn(Root)
    BY <1>2, <2>1 DEF FilesIn, Tree
  <2>7. /\ DOMAIN files \subseteq FilesIn(Root)
        /\ \A i \in DOMAIN files : files[i] = size[i]
    BY <1>1, <2>1, <2>4 DEF IInv, NothingOverstated, Quiet
  <2>8. \A i \in FilesIn(Root) : size'[i] = size[i]
    BY <2>1 DEF FilesIn, Tree
  <2>9. /\ DOMAIN files' \subseteq FilesIn(Root)'
        /\ \A i \in DOMAIN files' : files'[i] = size'[i]
    BY <1>1, <2>6, <2>7, <2>8
  <2> QED
    BY <2>5, <2>9 DEF NothingOverstated
<1>5. Totalled'
  <2>1. ASSUME NEW q \in Path, fs'[q].kind = "file", Untouched(q, 1)'
        PROVE  /\ fs'[q].inode \in DOMAIN total'.files => Counted(q, total.files)'
               /\ \A k \in 1 .. turn' - 1 :
                    q \in Tree(Roots[k]) /\ statuses'[k] \in {"complete", "not-present"} =>
                      Counted(q, total.files)'
    <3>1. /\ Untouched(q, 1) /\ fs'[q] = fs[q]
          /\ size'[fs[q].inode] = size[fs[q].inode]
      BY <1>1, <2>1, OthersKeep
    <3> QED
      BY <1>1, <2>1, <3>1 DEF IInv, Totalled, Counted
  <2> QED
    BY <2>1 DEF Totalled
<1> QED
  BY <1>3, <1>4, <1>5
-----------------------------------------------------------------------------
(* What the steps of the walk preserve.                                    *)

\* A step within a tree leaves the total alone.
LEMMA WalkKeepsTotal ==
  ASSUME IInv, UNCHANGED <<others, turn, report>>
  PROVE  Totalled'
BY DEF IInv, Totalled, Counted, Untouched, Tree, others, report

\* A step within a tree: what must be shown of it.
LEMMA WalkStep ==
  ASSUME IInv, UNCHANGED <<others, turn, report>>, stage # "root",
         todo' \subseteq Tree(Root),
         stage' = "read" => at' \in Tree(Root),
         flags' = {} => visited' \subseteq DOMAIN files',
         \A q \in Path : fs[q].kind = "file" /\ Untouched(q, turn) =>
           /\ fs[q].inode \in DOMAIN files' => Counted(q, files')
           /\ q \in Tree(Root) /\ flags' = {} => Counted(q, files') \/ Ahead(q)',
         Reachable(Root) /\ Quiet =>
           /\ \A q \in todo' : Reachable(q)
           /\ stage' = "read" => Reachable(at') /\ fs[at'].kind = "dir"
           /\ DOMAIN files' \subseteq FilesIn(Root)
           /\ \A i \in DOMAIN files' : files'[i] = size[i]
  PROVE  (Covered /\ Inside /\ NothingOverstated /\ Totalled)'
<1> USE DEF others, report
<1>1. Tree(Root)' = Tree(Root) /\ FilesIn(Root)' = FilesIn(Root)
  BY DEF Root, FilesIn, Tree
<1>2. Covered'
  BY <1>1 DEF Covered, Counted, Untouched
<1>3. Inside' /\ NothingOverstated'
  <2>1. Reachable(Root)' = Reachable(Root) /\ Quiet' = Quiet
    BY DEF Reachable, Root, Quiet
  <2> QED
    BY <1>1, <2>1 DEF Inside, NothingOverstated, Reachable, Quiet
<1> QED
  BY <1>2, <1>3, WalkKeepsTotal

LEMMA OpenTreeStep == IInv /\ OpenTree => (Covered /\ Inside /\ NothingOverstated /\ Totalled)'
<1> SUFFICES ASSUME IInv, OpenTree
             PROVE  (Covered /\ Inside /\ NothingOverstated /\ Totalled)'
  OBVIOUS
<1> USE DEF others, report
<1>1. /\ UNCHANGED <<others, turn, report>>
      /\ stage' = "visit" /\ todo' = {Root}
      /\ DOMAIN files' = {} /\ visited' = {} /\ flags' = {}
  BY DEF OpenTree
<1>2. Root' = Root /\ Root \in Path
  BY <1>1, RootIsPath DEF Root, IInv, OpenTree
<1>3. Root \in Tree(Root) /\ Tree(Root)' = Tree(Root)
  BY <1>2 DEF Tree
<1>4. \A q \in Tree(Root) : Root \in Above[q] \cup {q}
  BY DEF Tree
<1>5. Covered'
  BY <1>1, <1>2, <1>3, <1>4 DEF Covered, Ahead
<1>6. Inside' /\ NothingOverstated'
  BY <1>1, <1>2 DEF Inside, NothingOverstated, Reachable
<1> QED
  BY <1>1, <1>5, <1>6, WalkKeepsTotal

\* A step that only flags the tree.
LEMMA FlaggedStep ==
  ASSUME IInv, UNCHANGED <<others, turn, report, stage, at, files, visited>>, stage = "visit",
         todo' \subseteq todo, flags' # {}
  PROVE  (Covered /\ Inside /\ NothingOverstated /\ Totalled)'
<1>1. \A q \in Path : fs[q].kind = "file" /\ Untouched(q, turn) =>
        (fs[q].inode \in DOMAIN files' => Counted(q, files'))
  BY DEF IInv, Covered
<1>2. todo' \subseteq Tree(Root)
  BY DEF IInv, Covered
<1>3. Reachable(Root) /\ Quiet =>
        /\ \A q \in todo' : Reachable(q)
        /\ DOMAIN files' \subseteq FilesIn(Root)
        /\ \A i \in DOMAIN files' : files'[i] = size[i]
  BY DEF IInv, Inside, NothingOverstated, Quiet
<1> QED
  BY <1>1, <1>2, <1>3, WalkStep

LEMMA EnterStep ==
  ASSUME IInv, NEW q \in Path, Enter(q)
  PROVE  (Covered /\ Inside /\ NothingOverstated /\ Totalled)'
<1>1. /\ UNCHANGED <<others, turn, report, files, visited, flags>>
      /\ stage = "visit" /\ stage' = "read" /\ at' = q /\ q \in todo /\ todo' = todo \ {q}
  BY DEF Enter, Visiting
<1>2. PICK found \in Lstat(q) : found # Denied /\ found.kind = "dir"
  BY DEF Enter
<1>3. Grounded(fs)
  BY DEF IInv, TypeOK
<1>4. ASSUME NEW p \in Path, fs[p].kind = "file", Untouched(p, turn), p \in Tree(Root), flags = {}
      PROVE  Counted(p, files') \/ Ahead(p)'
  <2>1. Counted(p, files) \/ \E a \in Above[p] \cup {p} : a \in todo
    BY <1>1, <1>4 DEF IInv, Covered, Ahead
  <2>2. p # q
    <3>1. ASSUME p = q PROVE FALSE
      <4>1. Reachable(q)
        BY <1>3, <1>4, <3>1, PresentIsReachable
      <4>2. found = fs[q]
        BY <1>2, <1>3, <4>1, LstatOfPresent
      <4> QED
        BY <1>2, <1>4, <3>1, <4>2
    <3> QED
      BY <3>1
  <2> QED
    BY <1>1, <2>1, <2>2 DEF Ahead
<1>5. Reachable(Root) /\ Quiet => Reachable(q) /\ fs[q].kind = "dir"
  <2> SUFFICES ASSUME Reachable(Root), Quiet PROVE Reachable(q) /\ fs[q].kind = "dir"
    OBVIOUS
  <2>1. Reachable(q)
    BY <1>1 DEF IInv, Inside, Quiet
  <2>2. found = fs[q]
    BY <1>2, <1>3, <2>1, LstatOfPresent
  <2> QED
    BY <1>2, <2>1, <2>2
<1>6. /\ todo' \subseteq Tree(Root) /\ at' \in Tree(Root)
      /\ flags' = {} => visited' \subseteq DOMAIN files'
  BY <1>1 DEF IInv, Covered
<1>7. \A p \in Path : fs[p].kind = "file" /\ Untouched(p, turn) =>
        (fs[p].inode \in DOMAIN files' => Counted(p, files'))
  BY <1>1 DEF IInv, Covered
<1>8. Reachable(Root) /\ Quiet =>
        /\ \A p \in todo' : Reachable(p)
        /\ stage' = "read" => Reachable(at') /\ fs[at'].kind = "dir"
        /\ DOMAIN files' \subseteq FilesIn(Root)
        /\ \A i \in DOMAIN files' : files'[i] = size[i]
  BY <1>1, <1>5 DEF IInv, Inside, NothingOverstated, Quiet
<1> QED
  BY <1>1, <1>4, <1>6, <1>7, <1>8, WalkStep

LEMMA CountStep ==
  ASSUME IInv, NEW q \in Path, Count(q)
  PROVE  (Covered /\ Inside /\ NothingOverstated /\ Totalled)'
<1>1. /\ UNCHANGED <<others, turn, report, stage, at>>
      /\ stage = "visit" /\ q \in todo
  BY DEF Count, Visiting
<1>2. PICK found \in Lstat(q) :
        /\ found # Denied /\ found.kind = "file"
        /\ visited' = visited \cup {found.inode}
        /\ \/ /\ found.inode \in visited
              /\ todo' = todo \ {q}
              /\ UNCHANGED <<files, bytes, flags>>
           \/ /\ found.inode \notin visited /\ size[found.inode] > MaxBytes - bytes
              /\ todo' = {} /\ flags' = flags \cup {"partial"}
              /\ UNCHANGED <<files, bytes>>
           \/ /\ found.inode \notin visited /\ size[found.inode] =< MaxBytes - bytes
              /\ todo' = todo \ {q}
              /\ files' = [i \in DOMAIN files \cup {found.inode} |->
                             IF i = found.inode THEN size[i] ELSE files[i]]
              /\ bytes' = bytes + size[found.inode]
              /\ UNCHANGED flags
  BY DEF Count
<1>3. Grounded(fs)
  BY DEF IInv, TypeOK
\* The file that is found is counted, or the tree is not complete.
<1>4. /\ flags' = {} => found.inode \in DOMAIN files' /\ flags = {} /\ todo' = todo \ {q}
      /\ DOMAIN files \subseteq DOMAIN files' /\ DOMAIN files' \subseteq DOMAIN files \cup {found.inode}
      /\ \A i \in DOMAIN files' : files'[i] = size[i] \/ (i \in DOMAIN files /\ files'[i] = files[i])
      /\ \A i \in DOMAIN files : files'[i] = files[i] \/ files'[i] = size[i]
      /\ todo' \subseteq todo
      /\ flags' = {} => visited' \subseteq DOMAIN files'
  <2>1. CASE found.inode \in visited
    <3>1. flags' = flags /\ files' = files /\ todo' = todo \ {q}
      BY <1>2, <2>1
    <3>2. flags = {} => visited \subseteq DOMAIN files
      BY <1>1 DEF IInv, Covered
    <3> QED
      BY <1>2, <2>1, <3>1, <3>2
  <2>2. CASE todo' = {} /\ flags' = flags \cup {"partial"} /\ UNCHANGED files
    <3>1. flags' # {}
      BY <2>2
    <3> QED
      BY <2>2, <3>1
  <2>3. CASE /\ found.inode \notin visited /\ todo' = todo \ {q} /\ flags' = flags
             /\ files' = [i \in DOMAIN files \cup {found.inode} |->
                            IF i = found.inode THEN size[i] ELSE files[i]]
    <3>1. /\ DOMAIN files' = DOMAIN files \cup {found.inode}
          /\ \A i \in DOMAIN files' :
               files'[i] = IF i = found.inode THEN size[i] ELSE files[i]
      BY <2>3
    <3>2. flags = {} => visited \subseteq DOMAIN files
      BY <1>1 DEF IInv, Covered
    <3> QED
      BY <1>2, <2>3, <3>1, <3>2
  <2> QED
    BY <1>2, <2>1, <2>2, <2>3
<1>5. ASSUME NEW p \in Path, fs[p].kind = "file", Untouched(p, turn), fs[p].inode \in DOMAIN files'
      PROVE  Counted(p, files')
  <2>1. fs[p].inode \in DOMAIN files => files[fs[p].inode] = size[fs[p].inode]
    BY <1>1, <1>5 DEF IInv, Covered, Counted
  <2> QED
    BY <1>4, <1>5, <2>1 DEF Counted
<1>6. ASSUME NEW p \in Path, fs[p].kind = "file", Untouched(p, turn), p \in Tree(Root), flags' = {}
      PROVE  Counted(p, files') \/ Ahead(p)'
  <2>1. Counted(p, files) \/ \E a \in Above[p] \cup {p} : a \in todo
    BY <1>1, <1>4, <1>6 DEF IInv, Covered, Ahead
  <2>2. CASE Counted(p, files)
    BY <1>4, <1>5, <1>6, <2>2 DEF Counted
  <2>3. CASE \E a \in Above[p] \cup {p} : a \in todo /\ a # q
    BY <1>4, <1>6, <2>3 DEF Ahead
  <2>4. CASE q \in Above[p]
    <3>1. Reachable(q) /\ fs[q].kind = "dir"
      BY <1>3, <1>6, <2>4, AboveIsDirectory
    <3>2. found = fs[q]
      BY <1>2, <1>3, <3>1, LstatOfPresent
    <3> QED
      BY <1>2, <3>1, <3>2
  <2>5. CASE p = q
    <3>1. Reachable(q)
      BY <1>3, <1>6, <2>5, PresentIsReachable
    <3>2. found = fs[q]
      BY <1>2, <1>3, <3>1, LstatOfPresent
    <3> QED
      BY <1>4, <1>5, <1>6, <2>5, <3>2
  <2> QED
    BY <2>1, <2>2, <2>3, <2>4, <2>5
<1>7. todo' \subseteq Tree(Root)
  BY <1>1, <1>4 DEF IInv, Covered
<1>8. ASSUME Reachable(Root), Quiet
      PROVE  /\ \A p \in todo' : Reachable(p)
             /\ DOMAIN files' \subseteq FilesIn(Root)
             /\ \A i \in DOMAIN files' : files'[i] = size[i]
  <2>1. /\ \A p \in todo : Reachable(p)
        /\ DOMAIN files \subseteq FilesIn(Root)
        /\ \A i \in DOMAIN files : files[i] = size[i]
    BY <1>1, <1>8 DEF IInv, Inside, NothingOverstated, Quiet
  <2>2. found = fs[q]
    BY <1>1, <1>2, <1>3, <2>1, LstatOfPresent
  <2>3. q \in Tree(Root)
    BY <1>1 DEF IInv, Covered
  <2>4. found.inode \in FilesIn(Root)
    BY <1>2, <2>2, <2>3 DEF FilesIn
  <2> QED
    BY <1>4, <2>1, <2>4
<1> QED
  BY <1>1, <1>4, <1>5, <1>6, <1>7, <1>8, WalkStep

LEMMA ReadStep == IInv /\ Read => (Covered /\ Inside /\ NothingOverstated /\ Totalled)'
<1> SUFFICES ASSUME IInv, Read
             PROVE  (Covered /\ Inside /\ NothingOverstated /\ Totalled)'
  OBVIOUS
<1>1. /\ UNCHANGED <<others, turn, report, at, files, visited>>
      /\ stage = "read" /\ stage' = "visit" /\ at \in Path /\ at \in Tree(Root)
      /\ TypeOK /\ Grounded(fs)
  BY DEF Read, IInv, TypeOK, Covered
<1>2. PICK listing \in ReadDir(at) :
        \/ /\ listing = Denied
           /\ flags' = flags \cup
                {IF at = Root /\ DOMAIN files = {} THEN "unknown" ELSE "partial"}
           /\ UNCHANGED todo
        \/ /\ listing # Denied /\ Depth(at) >= MaxDepth /\ listing # {}
           /\ flags' = flags \cup {"partial"}
           /\ UNCHANGED todo
        \/ /\ listing # Denied /\ (Depth(at) < MaxDepth \/ listing = {})
           /\ todo' = todo \cup listing
           /\ UNCHANGED flags
  BY DEF Read
<1>3. \/ flags' # {} /\ todo' = todo
      \/ listing # Denied /\ todo' = todo \cup listing /\ flags' = flags
  BY <1>2
<1>4. listing # Denied => listing \subseteq Children(at)
  BY DEF ReadDir, Present
<1>5. todo' \subseteq Tree(Root)
  <2>1. todo \subseteq Tree(Root)
    BY <1>1 DEF IInv, Covered
  <2>2. Children(at) \subseteq Tree(Root)
    BY <1>1, ChildInTree
  <2> QED
    BY <1>3, <1>4, <2>1, <2>2
<1>6. flags' = {} => flags = {} /\ listing # Denied /\ todo' = todo \cup listing
  BY <1>3
<1>7. ASSUME NEW p \in Path, fs[p].kind = "file", Untouched(p, turn), p \in Tree(Root), flags' = {}
      PROVE  Counted(p, files') \/ Ahead(p)'
  <2>1. Counted(p, files) \/ (\E a \in Above[p] \cup {p} : a \in todo) \/ at \in Above[p]
    BY <1>1, <1>6, <1>7 DEF IInv, Covered, Ahead
  <2>2. CASE Counted(p, files)
    BY <1>1, <2>2 DEF Counted, others
  <2>3. CASE \E a \in Above[p] \cup {p} : a \in todo
    BY <1>6, <1>7, <2>3 DEF Ahead
  <2>4. CASE at \in Above[p]
    <3>1. Reachable(at) /\ fs[at].kind = "dir"
      BY <1>1, <1>7, <2>4, AboveIsDirectory
    <3>2. listing = Present(at)
      BY <1>6, <1>7, <3>1 DEF ReadDir
    <3>3. PICK c \in Above[p] \cup {p} : c \in Path /\ c \in Children(at)
      BY <2>4, NextComponent
    <3>4. fs[c].kind # "none"
      BY <1>1, <1>7, <3>3, AboveIsDirectory
    <3>5. c \in listing
      BY <3>2, <3>3, <3>4 DEF Present, Absent
    <3> QED
      BY <1>6, <1>7, <3>3, <3>5 DEF Ahead
  <2> QED
    BY <2>1, <2>2, <2>3, <2>4
<1>8. ASSUME Reachable(Root), Quiet
      PROVE  /\ \A p \in todo' : Reachable(p)
             /\ DOMAIN files' \subseteq FilesIn(Root)
             /\ \A i \in DOMAIN files' : files'[i] = size[i]
  <2>1. /\ \A p \in todo : Reachable(p)
        /\ Reachable(at) /\ fs[at].kind = "dir"
        /\ DOMAIN files \subseteq FilesIn(Root)
        /\ \A i \in DOMAIN files : files[i] = size[i]
    BY <1>1, <1>8 DEF IInv, Inside, NothingOverstated, Quiet
  <2>2. \A c \in Children(at) : Reachable(c)
    BY <2>1 DEF Children, Reachable
  <2> QED
    BY <1>1, <1>3, <1>4, <2>1, <2>2
<1>9. \A p \in Path : fs[p].kind = "file" /\ Untouched(p, turn) =>
        (fs[p].inode \in DOMAIN files' => Counted(p, files'))
  BY <1>1 DEF IInv, Covered
<1>10. flags' = {} => visited' \subseteq DOMAIN files'
  BY <1>1, <1>6 DEF IInv, Covered
<1> QED
  BY <1>1, <1>5, <1>7, <1>8, <1>9, <1>10, WalkStep

-----------------------------------------------------------------------------
(* The end of a tree.                                                      *)

\* What must be shown of the files of the tree that is concluded.
LEMMA ConcludeStep ==
  ASSUME IInv, turn =< Len(Roots), UNCHANGED others,
         NEW status \in {"complete", "partial", "unknown", "not-present"}, Conclude(status),
         \A q \in Path : fs[q].kind = "file" /\ Untouched(q, 1) =>
           /\ fs[q].inode \in DOMAIN total'.files => Counted(q, total'.files)
           /\ Counted(q, total.files) => Counted(q, total'.files)
           /\ q \in Tree(Root) /\ status \in {"complete", "not-present"} =>
                Counted(q, total'.files)
  PROVE  (Covered /\ Inside /\ NothingOverstated /\ Totalled)'
<1>1. stage' = "root" /\ turn' = turn + 1 /\ statuses' = Append(statuses, status)
  BY DEF Conclude
<1>2. Covered' /\ Inside' /\ NothingOverstated'
  BY <1>1 DEF Covered, Inside, NothingOverstated
<1>3. turn \in Int /\ turn >= 1 /\ Len(statuses) = turn - 1
      /\ statuses \in Seq({"complete", "partial", "unknown", "not-present"})
  BY DEF IInv, TypeOK
<1>4. ASSUME NEW q \in Path, fs[q].kind = "file", Untouched(q, 1),
             NEW k \in 1 .. turn' - 1,
             q \in Tree(Roots[k]), statuses'[k] \in {"complete", "not-present"}
      PROVE  Counted(q, total'.files)
  <2>1. CASE k = turn
    <3>1. statuses'[k] = status
      BY <1>1, <1>3, <2>1
    <3> QED
      BY <1>4, <2>1, <3>1 DEF Root
  <2>2. CASE k # turn
    <3>1. k \in 1 .. turn - 1
      BY <1>1, <1>3, <2>2
    <3>2. statuses'[k] = statuses[k]
      BY <1>1, <1>3, <3>1
    <3>3. Counted(q, total.files)
      BY <1>4, <3>1, <3>2 DEF IInv, Totalled
    <3> QED
      BY <1>4, <3>3
  <2> QED
    BY <2>1, <2>2
<1>5. Totalled'
  BY <1>4 DEF Totalled, Counted, Untouched, others, Tree
<1> QED
  BY <1>2, <1>5

LEMMA NoTreeStep == IInv /\ NoTree => (Covered /\ Inside /\ NothingOverstated /\ Totalled)'
<1> SUFFICES ASSUME IInv, NoTree
             PROVE  (Covered /\ Inside /\ NothingOverstated /\ Totalled)'
  OBVIOUS
<1>1. /\ turn =< Len(Roots) /\ UNCHANGED <<others, total>>
      /\ TypeOK /\ Grounded(fs)
  BY DEF NoTree, IInv, TypeOK
<1>2. PICK found \in Lstat(Root), status \in {"unknown", "not-present"} :
        /\ Conclude(status)
        /\ status = "not-present" => found = Absent
  BY DEF NoTree
<1>3. Root \in Path
  BY <1>1, RootIsPath
<1>4. ASSUME NEW q \in Path, fs[q].kind = "file", q \in Tree(Root), status # "unknown"
      PROVE  FALSE
  <2>1. Reachable(Root) /\ fs[Root].kind # "none"
    <3>1. CASE q = Root
      BY <1>1, <1>4, <3>1, PresentIsReachable
    <3>2. CASE Root \in Above[q]
      BY <1>1, <1>3, <1>4, <3>2, AboveIsDirectory
    <3> QED
      BY <1>4, <3>1, <3>2 DEF Tree
  <2>2. found = Absent /\ found # Denied
    <3>1. Absent \in Entry
      BY DEF Absent, Entry
    <3> QED
      BY <1>2, <1>4, <3>1, MeasureAssumption
  <2>3. found = fs[Root]
    BY <1>1, <1>3, <2>1, <2>2, LstatOfPresent
  <2> QED
    BY <2>1, <2>2, <2>3 DEF Absent
<1>5. \A q \in Path : fs[q].kind = "file" /\ Untouched(q, 1) =>
        (fs[q].inode \in DOMAIN total.files => Counted(q, total.files))
  BY DEF IInv, Totalled
<1>6. ASSUME NEW q \in Path, fs[q].kind = "file", Untouched(q, 1)
      PROVE  /\ fs[q].inode \in DOMAIN total'.files => Counted(q, total'.files)
             /\ Counted(q, total.files) => Counted(q, total'.files)
             /\ q \in Tree(Root) /\ status \in {"complete", "not-present"} =>
                  Counted(q, total'.files)
  <2>1. total' = total
    BY <1>1
  <2>2. ~(q \in Tree(Root) /\ status \in {"complete", "not-present"})
    BY <1>4, <1>6
  <2> QED
    BY <1>5, <1>6, <2>1, <2>2
<1>7. status \in {"complete", "partial", "unknown", "not-present"} /\ UNCHANGED others
      /\ Conclude(status) /\ turn =< Len(Roots)
  BY <1>1, <1>2
<1> QED
  BY <1>6, <1>7, ConcludeStep

LEMMA FinishStep == IInv /\ Finish => (Covered /\ Inside /\ NothingOverstated /\ Totalled)'
<1> SUFFICES ASSUME IInv, Finish
             PROVE  (Covered /\ Inside /\ NothingOverstated /\ Totalled)'
  OBVIOUS
<1>1. /\ stage = "visit" /\ todo = {} /\ Conclude(TreeStatus) /\ total' = Merged(total, files)
      /\ UNCHANGED others /\ turn =< Len(Roots) /\ turn \in Int /\ turn >= 1
  BY DEF Finish, IInv, TypeOK
<1>2. /\ DOMAIN total'.files = DOMAIN total.files \cup DOMAIN files
      /\ \A i \in DOMAIN total'.files :
           total'.files[i] = IF i \in DOMAIN total.files THEN total.files[i] ELSE files[i]
  BY <1>1 DEF Merged
<1>3. TreeStatus \in {"complete", "partial", "unknown"} /\ (TreeStatus = "complete" => flags = {})
  BY DEF TreeStatus
<1>4. ASSUME NEW q \in Path, fs[q].kind = "file", Untouched(q, 1)
      PROVE  /\ fs[q].inode \in DOMAIN total'.files => Counted(q, total'.files)
             /\ Counted(q, total.files) => Counted(q, total'.files)
             /\ q \in Tree(Root) /\ TreeStatus \in {"complete", "not-present"} =>
                  Counted(q, total'.files)
  <2>1. Untouched(q, turn)
    <3>1. \A a \in Above[q] \cup {q} : a \in Path /\ last[a] \in Int /\ last[a] < 1
      BY <1>4, AboveIsPath DEF Untouched, IInv, TypeOK
    <3> QED
      BY <1>1, <3>1 DEF Untouched
  <2>2. fs[q].inode \in DOMAIN files => Counted(q, files)
    BY <1>1, <1>4, <2>1 DEF IInv, Covered
  <2>3. fs[q].inode \in DOMAIN total.files => Counted(q, total.files)
    BY <1>4 DEF IInv, Totalled
  <2>4. fs[q].inode \in DOMAIN total'.files => Counted(q, total'.files)
    BY <1>2, <2>2, <2>3 DEF Counted
  <2>5. Counted(q, total.files) => fs[q].inode \in DOMAIN total'.files
    BY <1>2 DEF Counted
  <2>6. q \in Tree(Root) /\ TreeStatus \in {"complete", "not-present"} =>
          fs[q].inode \in DOMAIN total'.files
    <3> SUFFICES ASSUME q \in Tree(Root), TreeStatus = "complete"
                 PROVE  fs[q].inode \in DOMAIN total'.files
      BY <1>3
    <3>1. Counted(q, files) \/ Ahead(q)
      BY <1>1, <1>3, <1>4, <2>1 DEF IInv, Covered
    <3>2. ~Ahead(q)
      BY <1>1 DEF Ahead
    <3> QED
      BY <1>2, <3>1, <3>2 DEF Counted
  <2> QED
    BY <2>4, <2>5, <2>6
<1>5. TreeStatus \in {"complete", "partial", "unknown", "not-present"}
  BY <1>3
<1> QED
  BY <1>1, <1>4, <1>5, ConcludeStep

-----------------------------------------------------------------------------
(* The theorems.                                                           *)

\* The inductive invariant: every file that nobody has touched is counted, or
\* ahead of the walk, or the tree is not complete.
THEOREM CoverageInductive == Spec => []IInv
<1>1. Init => IInv
  <2> SUFFICES ASSUME Init PROVE IInv
    OBVIOUS
  <2>1. turn = 1 /\ stage = "root" /\ DOMAIN total.files = {}
    BY DEF Init, NoTotal
  <2>2. Covered /\ Inside /\ NothingOverstated
    BY <2>1 DEF Covered, Inside, NothingOverstated
  <2>3. Totalled
    BY <2>1 DEF Totalled
  <2> QED
    BY <2>2, <2>3, TypeInit DEF IInv
<1>2. IInv /\ [Next]_vars => IInv'
  <2> SUFFICES ASSUME IInv, [Next]_vars PROVE IInv'
    OBVIOUS
  <2>1. TypeOK'
    <3>1. CASE UNCHANGED vars
      BY <3>1 DEF vars, others, tree, report, IInv, TypeOK, Grounded
    <3> QED
      BY <3>1, TypeMeasure, TypeOthers DEF Next, IInv
  <2>2. CASE UNCHANGED vars
    BY <2>1, <2>2 DEF vars, others, tree, report, IInv, Covered, Inside, NothingOverstated,
         Totalled, Counted, Ahead, Untouched, Root, Tree, Reachable, FilesIn
  <2>3. CASE OthersNext
    BY <2>1, <2>3, OthersStep DEF IInv
  <2>4. CASE NoTree
    BY <2>1, <2>4, NoTreeStep DEF IInv
  <2>5. CASE OpenTree
    BY <2>1, <2>5, OpenTreeStep DEF IInv
  <2>6. CASE StopAtBound
    <3>1. /\ UNCHANGED <<others, turn, report, stage, at, files, visited>> /\ stage = "visit"
          /\ todo' \subseteq todo /\ flags' # {}
      BY <2>6 DEF StopAtBound
    <3> QED
      BY <2>1, <3>1, FlaggedStep DEF IInv
  <2>7. CASE Read
    BY <2>1, <2>7, ReadStep DEF IInv
  <2>8. CASE Finish
    BY <2>1, <2>8, FinishStep DEF IInv
  <2>9. ASSUME NEW q \in Path, Skip(q) PROVE IInv'
    <3>1. /\ UNCHANGED <<others, turn, report, stage, at, files, visited>> /\ stage = "visit"
          /\ todo' \subseteq todo /\ flags' # {}
      BY <2>9 DEF Skip, Visiting
    <3> QED
      BY <2>1, <3>1, FlaggedStep DEF IInv
  <2>10. ASSUME NEW q \in Path, Enter(q) PROVE IInv'
    BY <2>1, <2>10, EnterStep DEF IInv
  <2>11. ASSUME NEW q \in Path, Count(q) PROVE IInv'
    BY <2>1, <2>11, CountStep DEF IInv
  <2> QED
    BY <2>2, <2>3, <2>4, <2>5, <2>6, <2>7, <2>8, <2>9, <2>10, <2>11 DEF Next, MeasureNext
<1> QED
  BY <1>1, <1>2, PTL DEF Spec

\* A tree that is said to be complete has every file that nobody has touched
\* while it was measured, with its size.
THEOREM CompleteAlwaysCovers == Spec => []CompleteCoversUntouched
<1>1. IInv => CompleteCoversUntouched
  <2> SUFFICES ASSUME IInv, Measured, TreeStatus = "complete",
                      NEW q \in Tree(Root), fs[q].kind = "file", Untouched(q, turn)
               PROVE  Counted(q, files)
    BY DEF CompleteCoversUntouched, Counted
  <2>1. flags = {} /\ stage = "visit" /\ todo = {}
    BY DEF TreeStatus, Measured
  <2>2. Counted(q, files) \/ Ahead(q)
    BY <2>1 DEF IInv, Covered, Tree
  <2> QED
    BY <2>1, <2>2 DEF Ahead
<1> QED
  BY <1>1, CoverageInductive, PTL

\* What is counted while nobody touches anything is in the tree, as large as
\* that: a partial size is a lower bound.
THEOREM NeverOverstated == Spec => []NothingOverstated
<1>1. IInv => NothingOverstated
  BY DEF IInv
<1> QED
  BY <1>1, CoverageInductive, PTL

\* A total that is said to be complete has every file of every tree that
\* nobody has touched.
THEOREM TotalAlwaysCovers == Spec => []TotalCovers
<1>1. IInv => TotalCovers
  <2> SUFFICES ASSUME IInv, turn > Len(Roots), TotalStatus = "complete",
                      NEW k \in DOMAIN Roots, NEW q \in Tree(Roots[k]),
                      fs[q].kind = "file", Untouched(q, 1)
               PROVE  Counted(q, total.files)
    BY DEF TotalCovers, Counted
  <2>1. /\ Len(Roots) \in Nat /\ DOMAIN Roots = 1 .. Len(Roots)
        /\ turn \in 1 .. Len(Roots) + 1 /\ Len(statuses) = turn - 1
        /\ statuses \in Seq({"complete", "partial", "unknown", "not-present"})
    BY MeasureAssumption DEF IInv, TypeOK
  <2>2. k \in 1 .. turn - 1 /\ k \in DOMAIN statuses
    BY <2>1
  <2>3. statuses[k] \in {"complete", "partial", "unknown", "not-present"}
    BY <2>1, <2>2
  <2>4. statuses[k] \in Statuses
    BY <2>2 DEF Statuses
  <2>5. Statuses \cap {"unknown", "partial"} = {}
    BY DEF TotalStatus
  <2>6. statuses[k] \in {"complete", "not-present"}
    BY <2>3, <2>4, <2>5
  <2> QED
    BY <2>2, <2>6 DEF IInv, Totalled, Tree
<1> QED
  BY <1>1, CoverageInductive, PTL
-----------------------------------------------------------------------------
(* The bytes of the total.  They are added up as the trees are done, while *)
(* what they are to be is the sum over all files of the total at the end.  *)

\* SumOf is the sum of FiniteSetLemmas.
LEMMA SumOfIsSum == ASSUME NEW f, NEW S PROVE SumOf(f, S) = Sum(f, S)
BY Zenon DEF SumOf, Sum, Next1, MapThenSumSet, MapThenFoldSet

\* What one tree has counted is added to the total, but for what is in it.
LEMMA MergedSum ==
  ASSUME NEW t, NEW counted, Finite(t.files), Finite(counted),
         t.bytes = SumOf(t.files, DOMAIN t.files)
  PROVE  LET m == Merged(t, counted) IN
         Finite(m.files) /\ m.bytes = SumOf(m.files, DOMAIN m.files)
<1> DEFINE A == DOMAIN t.files
           B == DOMAIN counted \ DOMAIN t.files
           both == [i \in A \cup DOMAIN counted |-> IF i \in A THEN t.files[i] ELSE counted[i]]
           m == Merged(t, counted)
<1>1. m.files = both /\ m.bytes = t.bytes + Sum(counted, B)
  BY SumOfIsSum DEF Merged
<1>2. IsFiniteSet(A) /\ IsFiniteSet(B) /\ IsFiniteSet(DOMAIN counted)
  BY FS_Difference DEF Finite
<1>3. DOMAIN both = A \cup B /\ IsFiniteSet(DOMAIN both) /\ A \cap B = {}
  BY <1>2, FS_Union
<1>4. /\ \A i \in A : both[i] = t.files[i] /\ t.files[i] \in Nat
      /\ \A i \in B : both[i] = counted[i] /\ counted[i] \in Nat
  BY DEF Finite
<1>5. t.bytes = Sum(t.files, A)
  BY SumOfIsSum
<1> HIDE DEF A, B, both
<1>6. /\ Summable(both, A) /\ Summable(both, B)
      /\ Summable(t.files, A) /\ Summable(counted, B)
  BY <1>2, <1>4 DEF Summable
<1>7. Sum(both, A) = Sum(t.files, A) /\ Sum(both, B) = Sum(counted, B)
  BY <1>4, <1>6, SumSame
<1>8. Sum(both, A \cup B) = Sum(both, A) + Sum(both, B)
  BY <1>3, <1>6, SumDisjoint
<1>9. m.bytes = Sum(m.files, DOMAIN m.files)
  BY <1>1, <1>3, <1>5, <1>7, <1>8
<1>10. Finite(m.files)
  BY <1>1, <1>3, <1>4 DEF Finite
<1>11. QED
  BY <1>9, <1>10, SumOfIsSum

\* Every step adds to the total what it adds to its files.
LEMMA TotalNextOK ==
  ASSUME TypeOK, TotalInv, [Next]_vars
  PROVE  TotalInv'
<1>1. Finite([i \in {} |-> 0])
  BY FS_EmptySet DEF Finite
<1>2. CASE UNCHANGED <<files, total>>
  BY <1>2 DEF TotalInv, TotalCountsOnce, Finite
<1>3. CASE OpenTree
  <2>1. files' = [i \in {} |-> 0] /\ UNCHANGED total
    BY <1>3 DEF OpenTree, report
  <2>2. Finite(files')
    BY <1>1, <2>1
  <2>3. QED
    BY <2>1, <2>2 DEF TotalInv, TotalCountsOnce, Finite
<1>4. CASE Finish
  <2>1. total' = Merged(total, files) /\ UNCHANGED files
    BY <1>4 DEF Finish, tree
  <2>2. Finite(total'.files) /\ total'.bytes = SumOf(total'.files, DOMAIN total'.files)
    BY <2>1, MergedSum DEF TotalInv, TotalCountsOnce
  <2>3. QED
    BY <2>1, <2>2 DEF TotalInv, TotalCountsOnce, Finite
<1>5. ASSUME NEW q \in Path, Count(q)
      PROVE  TotalInv'
  <2>1. UNCHANGED total
    BY <1>5 DEF Count, report
  <2>2. \/ UNCHANGED files
        \/ \E i \in Inode : files' = [j \in DOMAIN files \cup {i} |->
                                        IF j = i THEN size[j] ELSE files[j]]
    <3>1. PICK found \in Lstat(q) :
            /\ found # Denied /\ found.kind = "file"
            /\ \/ UNCHANGED files
               \/ files' = [j \in DOMAIN files \cup {found.inode} |->
                              IF j = found.inode THEN size[j] ELSE files[j]]
      BY <1>5 DEF Count
    <3>2. found \in Entry
      BY <3>1, LstatType
    <3>3. found.inode \in Inode
      BY <3>1, <3>2 DEF Entry
    <3>4. QED
      BY <3>1, <3>3
  <2>3. Finite(files')
    <3>1. CASE UNCHANGED files
      BY <3>1 DEF TotalInv
    <3>2. ASSUME NEW i \in Inode,
                 files' = [j \in DOMAIN files \cup {i} |-> IF j = i THEN size[j] ELSE files[j]]
          PROVE  Finite(files')
      <4>1. IsFiniteSet(DOMAIN files \cup {i})
        BY FS_AddElement DEF TotalInv, Finite
      <4>2. size[i] \in Nat
        BY MeasureAssumption DEF TypeOK
      <4>3. QED
        BY <3>2, <4>1, <4>2 DEF TotalInv, Finite
    <3>3. QED
      BY <2>2, <3>1, <3>2
  <2>4. QED
    BY <2>1, <2>3 DEF TotalInv, TotalCountsOnce, Finite
<1>6. ASSUME NEW q \in Path, Skip(q) \/ Enter(q)
      PROVE  UNCHANGED <<files, total>>
  BY <1>6 DEF Skip, Enter, report
<1>7. CASE NoTree \/ StopAtBound \/ Read \/ OthersNext \/ UNCHANGED vars
  <2>1. UNCHANGED <<files, total>>
    BY <1>7 DEF NoTree, StopAtBound, Read, OthersNext, vars, tree, report
  <2>2. QED
    BY <1>2, <2>1
<1>8. QED
  BY <1>2, <1>3, <1>4, <1>5, <1>6, <1>7 DEF Next, MeasureNext

\* A file that several trees contain is in the bytes of the total once, for
\* any file system and whatever others do to it meanwhile (mergeEntrySize).
THEOREM TotalAlwaysCountsOnce == Spec => []TotalCountsOnce
<1>1. Init => TotalInv
  <2> SUFFICES ASSUME Init PROVE TotalInv
    OBVIOUS
  <2>1. files = [i \in {} |-> 0] /\ total.files = [i \in {} |-> 0] /\ total.bytes = 0
    BY DEF Init, NoTotal
  <2>2. Finite([i \in {} |-> 0])
    BY FS_EmptySet DEF Finite
  <2>3. SumOf(total.files, DOMAIN total.files) = 0
    <3>1. DOMAIN total.files = {}
      BY <2>1
    <3>2. QED
      BY <3>1, SumOfIsSum, SumEmpty
  <2>4. QED
    BY <2>1, <2>2, <2>3 DEF TotalInv, TotalCountsOnce
<1>2. TypeOK /\ TotalInv /\ [Next]_vars => TotalInv'
  BY TotalNextOK
<1>3. TotalInv => TotalCountsOnce
  BY DEF TotalInv
<1>4. QED
  BY <1>1, <1>2, <1>3, TypeCorrect, PTL DEF Spec
=============================================================================
