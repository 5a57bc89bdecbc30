------------------------ MODULE ResidueHistoryProofs ------------------------
(***************************************************************************)
(* Theorems about ResidueHistory, for every set of processes, contents and *)
(* bounds, and any number of commands that end early.                      *)
(*                                                                         *)
(* All but one follow from the inductive invariant IInv.  What a           *)
(* comparison says is a lemma about CompareEntry alone; that what is to be *)
(* pruned stays exceeded rests on `published' only ever growing.  For      *)
(* these Readable is never expanded: that the bounds are these bounds      *)
(* plays no part.  How far the history may exceed its bytes needs          *)
(* OversizeInv on top of it, and sums.                                     *)
(***************************************************************************)
EXTENDS ResidueHistory, FiniteSetLemmas

-----------------------------------------------------------------------------
(* Lemmas about comparisons.                                               *)

\* What is known of an entry of a snapshot.
LEMMA EntryTypes ==
  ASSUME NEW s \in Snapshot, NEW i \in DOMAIN Entries(s)
  PROVE  /\ SizeOK(Entries(s)[i])
         /\ Entries(s)[i].kind = "git-worktree" =>
              Entries(s)[i].status \in {"unknown", "not-present"}
<1>1. s.content \in Contents
  BY DEF Snapshot
<1>2. ContentOK(s.content)
  BY <1>1, CompareAssumption
<1>3. QED
  BY <1>2 DEF ContentOK, Entries

\* A claim about one entry has complete measurements of one directory behind
\* it, and so has the claim that it is unchanged, unless it is a worktree's or
\* both are absent.
LEMMA EntryClaims ==
  ASSUME NEW b, NEW a, SizeOK(b), SizeOK(a)
  PROVE  LET c == CompareEntry(b, a) IN
         /\ c.kind \in {"growth", "shrink"} =>
              /\ b.status = "complete" /\ a.status = "complete"
              /\ b.identity = a.identity /\ b.identity # None
              /\ c.delta = a.bytes - b.bytes /\ (c.delta > 0 <=> c.kind = "growth")
         /\ c.kind = "unchanged" =>
              \/ b.kind = "git-worktree" /\ a.kind = "git-worktree"
              \/ b.status = "not-present" /\ a.status = "not-present"
              \/ /\ b.status = "complete" /\ a.status = "complete"
                 /\ b.identity = a.identity /\ b.bytes = a.bytes
         /\ c.kind \in {"growth", "shrink", "unchanged", "replaced", "unknown"}
BY DEF CompareEntry, Change, SizeOK

\* Two reports that do not match are not compared entry by entry.
LEMMA Mismatch ==
  ASSUME NEW b, NEW a, NEW history, NEW cleanings, ~Matching(b, a)
  PROVE  /\ Compare(b, a, history, cleanings).status = "unknown"
         /\ DOMAIN Compare(b, a, history, cleanings).changes = {}
BY DEF Compare

\* What the comparison of two reports that match is made of.
LEMMA Match ==
  ASSUME NEW b, NEW a, NEW history, NEW cleanings, Matching(b, a)
  PROVE  Compare(b, a, history, cleanings).changes = Changes(b, a, history, cleanings)
BY DEF Compare

\* A comparison that is trusted knows every change, and both reports are.
LEMMA TrustedComparison ==
  ASSUME NEW b, NEW a, NEW history, NEW cleanings,
         Compare(b, a, history, cleanings).status \in Trusted
  PROVE  /\ Matching(b, a)
         /\ Status(b.content) \in Trusted /\ Status(a.content) \in Trusted
<1>1. Matching(b, a)
  BY Mismatch DEF Trusted
<1>2. QED
  BY <1>1 DEF Compare, Trusted

\* A report that is trusted has no entry of unknown size.
LEMMA TrustedStatus ==
  ASSUME NEW c, Status(c) \in Trusted, NEW i \in DOMAIN c.entries
  PROVE  c.entries[i].status # "unknown"
BY DEF Status, Trusted

\* One change of a comparison.
LEMMA OneChange ==
  ASSUME NEW b, NEW a, NEW history, NEW cleanings, NEW i \in DOMAIN Entries(a)
  PROVE  LET c == Changes(b, a, history, cleanings)[i]
             e == CompareEntry(Entries(b)[i], Entries(a)[i])
         IN /\ c.kind = e.kind /\ c.delta = e.delta
            /\ c.regrowth => /\ c.kind = "growth"
                             /\ Regrown(i, b, a, history, cleanings)
BY DEF Changes

\* What a report says is what the comparison says.
LEMMA ReportFields ==
  ASSUME NEW b, NEW a, NEW history, NEW cleanings, NEW threshold, NEW quiet
  PROVE  LET r == Compared(b, a, history, cleanings, threshold, quiet)
             c == Compare(b, a, history, cleanings)
         IN /\ r.from = b /\ r.to = a /\ r.threshold = threshold
            /\ r.changes = c.changes
            /\ r.suppressed => CanSuppress(c, threshold)
BY DEF Compared

\* A report that is suppressed differs by no more than the threshold.
LEMMA SuppressedIsSafe ==
  ASSUME NEW b \in Snapshot, NEW a \in Snapshot, NEW history, NEW cleanings,
         NEW threshold \in Nat,
         CanSuppress(Compare(b, a, history, cleanings), threshold)
  PROVE  /\ Matching(b, a)
         /\ Status(b.content) \in Trusted /\ Status(a.content) \in Trusted
         /\ \A i \in DOMAIN Entries(a) :
              SameWithin(Entries(b)[i], Entries(a)[i], threshold)
<1>1. /\ Matching(b, a)
      /\ Status(b.content) \in Trusted /\ Status(a.content) \in Trusted
  BY TrustedComparison DEF CanSuppress
<1>2. ASSUME NEW i \in DOMAIN Entries(a)
      PROVE  SameWithin(Entries(b)[i], Entries(a)[i], threshold)
  <2> DEFINE c == Changes(b, a, history, cleanings)[i]
             e == CompareEntry(Entries(b)[i], Entries(a)[i])
  <2>1. i \in DOMAIN Entries(b) /\ i \in DOMAIN Changes(b, a, history, cleanings)
    BY <1>1, <1>2 DEF Matching, Changes
  <2>2. c.kind = e.kind /\ c.delta = e.delta
    BY <1>2, OneChange
  <2>3. /\ c.kind \notin {"unknown", "replaced"}
        /\ c.kind \in {"growth", "shrink"} =>
             c.delta =< threshold /\ c.delta >= -threshold
    BY <1>1, <2>1, Match DEF CanSuppress
  <2>4. SizeOK(Entries(b)[i]) /\ SizeOK(Entries(a)[i])
    BY <1>2, <2>1, EntryTypes
  <2>5. Entries(b)[i].kind = "git-worktree" /\ Entries(a)[i].kind = "git-worktree"
        => Entries(b)[i].status = "not-present" /\ Entries(a)[i].status = "not-present"
    <3>1. Entries(b)[i].status # "unknown" /\ Entries(a)[i].status # "unknown"
      BY <1>1, <1>2, <2>1, TrustedStatus DEF Entries
    <3>2. QED
      BY <1>2, <2>1, <3>1, EntryTypes
  <2> HIDE DEF c, e
  <2>6. CASE e.kind = "unchanged"
    <3>1. \/ Entries(b)[i].kind = "git-worktree" /\ Entries(a)[i].kind = "git-worktree"
          \/ Entries(b)[i].status = "not-present" /\ Entries(a)[i].status = "not-present"
          \/ /\ Entries(b)[i].status = "complete" /\ Entries(a)[i].status = "complete"
             /\ Entries(b)[i].identity = Entries(a)[i].identity
             /\ Entries(b)[i].bytes = Entries(a)[i].bytes
      BY <2>4, <2>6, EntryClaims DEF e
    <3>2. QED
      BY <2>4, <2>5, <3>1 DEF SameWithin, SizeOK
  <2>7. CASE e.kind \in {"growth", "shrink"}
    <3>1. /\ Entries(b)[i].status = "complete" /\ Entries(a)[i].status = "complete"
          /\ Entries(b)[i].identity = Entries(a)[i].identity
          /\ e.delta = Entries(a)[i].bytes - Entries(b)[i].bytes
      BY <2>4, <2>7, EntryClaims DEF e
    <3>2. e.delta =< threshold /\ e.delta >= -threshold
      BY <2>2, <2>3, <2>7
    <3>3. QED
      BY <2>4, <3>1, <3>2 DEF SameWithin, SizeOK
  <2>8. e.kind \in {"growth", "shrink", "unchanged", "replaced", "unknown"}
    BY <2>4, EntryClaims DEF e
  <2>9. QED
    BY <2>2, <2>3, <2>6, <2>7, <2>8
<1>3. QED
  BY <1>1, <1>2

\* A claim of a comparison is backed by measurements of its history.
LEMMA ClaimIsBacked ==
  ASSUME NEW b \in Snapshot, NEW a \in Snapshot,
         NEW history \in SUBSET Snapshot, NEW cleanings \in SUBSET Time,
         NEW i \in DOMAIN Compare(b, a, history, cleanings).changes
  PROVE  LET c == Compare(b, a, history, cleanings).changes[i] IN
         /\ c.kind \in {"growth", "shrink"} =>
              /\ Entries(b)[i].status = "complete" /\ Entries(a)[i].status = "complete"
              /\ Entries(b)[i].identity = Entries(a)[i].identity
              /\ Entries(b)[i].identity # None
              /\ c.delta = Entries(a)[i].bytes - Entries(b)[i].bytes
              /\ (c.delta > 0 <=> c.kind = "growth")
         /\ c.regrowth =>
              /\ c.kind = "growth"
              /\ \E s \in history :
                   /\ s.at < b.at /\ i \in DOMAIN Entries(s)
                   /\ Entries(s)[i].status = "complete"
                   /\ Entries(s)[i].bytes > Entries(b)[i].bytes
<1> DEFINE c == Changes(b, a, history, cleanings)[i]
           e == CompareEntry(Entries(b)[i], Entries(a)[i])
<1>1. Matching(b, a)
  BY Mismatch
<1>2. /\ Compare(b, a, history, cleanings).changes[i] = c
      /\ i \in DOMAIN Changes(b, a, history, cleanings)
  BY <1>1, Match
<1>3. i \in DOMAIN Entries(a) /\ i \in DOMAIN Entries(b)
  BY <1>1, <1>2 DEF Changes, Matching
<1>4. SizeOK(Entries(b)[i]) /\ SizeOK(Entries(a)[i])
  BY <1>3, EntryTypes
<1>5. /\ c.kind = e.kind /\ c.delta = e.delta
      /\ c.regrowth => c.kind = "growth" /\ Regrown(i, b, a, history, cleanings)
  BY <1>3, OneChange
<1>6. e.kind \in {"growth", "shrink"} =>
        /\ Entries(b)[i].status = "complete" /\ Entries(a)[i].status = "complete"
        /\ Entries(b)[i].identity = Entries(a)[i].identity
        /\ Entries(b)[i].identity # None
        /\ e.delta = Entries(a)[i].bytes - Entries(b)[i].bytes
        /\ (e.delta > 0 <=> e.kind = "growth")
  BY <1>4, EntryClaims
<1>7. ASSUME Regrown(i, b, a, history, cleanings)
      PROVE  \E s \in history :
               /\ s.at < b.at /\ i \in DOMAIN Entries(s)
               /\ Entries(s)[i].status = "complete"
               /\ Entries(s)[i].bytes > Entries(b)[i].bytes
  <2>1. PICK t \in cleanings, s \in history :
          /\ s.at < t /\ t < b.at
          /\ i \in DOMAIN Entries(s)
          /\ Entries(s)[i].status = "complete" /\ Entries(b)[i].status = "complete"
          /\ Entries(b)[i].bytes < Entries(s)[i].bytes
    BY <1>7 DEF Regrown
  <2>2. s.at \in Int /\ t \in Int /\ b.at \in Int /\ SizeOK(Entries(s)[i])
    BY <2>1, EntryTypes, CompareAssumption DEF Snapshot
  <2>3. QED
    BY <1>4, <2>1, <2>2 DEF SizeOK
<1> HIDE DEF c, e
<1>8. QED
  BY <1>2, <1>5, <1>6, <1>7

-----------------------------------------------------------------------------
(* Lemmas about the directory.                                             *)

\* What is exceeded stays exceeded: nothing leaves `published'.
LEMMA ExceededForEver ==
  ASSUME NEW s, Exceeded(s), IsFiniteSet(published), IsFiniteSet(published'),
         published \subseteq published'
  PROVE  Exceeded(s)'
<1> DEFINE L == {t \in published : Before(s, t)}
           M == {t \in published' : Before(s, t)}
<1>1. L \subseteq M /\ M \subseteq published' /\ IsFiniteSet(M)
  BY FS_Subset
<1>2. Cardinality(L) =< Cardinality(M)
  BY <1>1, FS_Subset
<1>3. Cardinality(L) \in Nat /\ Cardinality(M) \in Nat
  BY <1>1, FS_Subset, FS_CardinalityType
<1>4. QED
  BY <1>2, <1>3, ResidueAssumption DEF Exceeded

\* A listing has no more snapshots after one than were published.
LEMMA ExcessIsExceeded ==
  ASSUME NEW S \in SUBSET published, IsFiniteSet(published), NEW s \in Excess(S)
  PROVE  s \in S /\ Exceeded(s)
<1> DEFINE L == {t \in S : Before(s, t)}
           M == {t \in published : Before(s, t)}
<1>1. L \subseteq M /\ M \subseteq published /\ IsFiniteSet(M)
  BY FS_Subset
<1>2. Cardinality(L) =< Cardinality(M)
  BY <1>1, FS_Subset
<1>3. Cardinality(L) \in Nat /\ Cardinality(M) \in Nat
  BY <1>1, FS_Subset, FS_CardinalityType
<1>4. s \in S /\ Cardinality(L) >= HistoryLimit
  BY DEF Excess
<1>5. QED
  BY <1>2, <1>3, <1>4, ResidueAssumption DEF Exceeded

\* A report stays the comparison of what is published.
LEMMA ReportedForEver ==
  ASSUME NEW r, Reported(r), published \subseteq published'
  PROVE  Reported(r)'
BY DEF Reported

-----------------------------------------------------------------------------
(* The inductive invariant.                                                *)

LEMMA InitOK == Init => IInv
<1> SUFFICES ASSUME Init PROVE IInv
  OBVIOUS
<1>1. TypeOK
  BY ResidueAssumption DEF Init, TypeOK, PCs, Listing
<1>2. IsFiniteSet(published)
  BY DEF Init
<1>3. WorkOK /\ DoomedOK
  BY DEF Init, WorkOK, DoomedOK
<1>4. ReportsOK
  BY DEF Init, ReportsOK
<1>5. QED
  BY <1>1, <1>2, <1>3, <1>4 DEF IInv

\* A step that publishes and reports nothing, and dooms only what is exceeded,
\* preserves what the invariant says of reports and of what is doomed.
LEMMA UnreportedOK ==
  ASSUME IInv, UNCHANGED published,
         report' = report \/ \E p \in Process : report' = [report EXCEPT ![p] = None],
         \A p \in Process : \A s \in doomed'[p] : s \in doomed[p] \/ Exceeded(s)
  PROVE  IsFiniteSet(published)' /\ DoomedOK' /\ ReportsOK'
<1>1. IsFiniteSet(published)'
  BY DEF IInv
<1>2. DoomedOK'
  BY DEF IInv, DoomedOK, Exceeded
<1>3. report' = [p \in Process |-> report'[p]]
  BY DEF IInv, ReportsOK
<1>4. \A p \in Process : report'[p] = None \/ Reported(report'[p])
  BY DEF IInv, ReportsOK
<1>5. ReportsOK'
  BY <1>3, <1>4, ReportedForEver DEF ReportsOK
<1>6. QED
  BY <1>1, <1>2, <1>5

\* The return of a command preserves the invariant, unless it leaves its
\* temporary file behind.
LEMMA ReturnOK ==
  ASSUME IInv, NEW p \in Process, Return(p), UNCHANGED <<files, published>>,
         temps' \subseteq temps, stops' \in 0 .. MaxStops,
         stops' = 0 => stops = 0 /\ p \notin temps'
  PROVE  IInv'
<1> USE DEF Return, Go
<1>1. TypeOK'
  BY DEF IInv, TypeOK, PCs
<1>2. WorkOK'
  BY DEF IInv, TypeOK, WorkOK
<1>3. IsFiniteSet(published)' /\ DoomedOK' /\ ReportsOK'
  <2>1. \A q \in Process : doomed'[q] \subseteq doomed[q]
    BY DEF IInv, TypeOK
  <2>2. QED
    BY <2>1, UnreportedOK
<1>4. QED
  BY <1>1, <1>2, <1>3 DEF IInv

LEMMA BeginOK ==
  ASSUME IInv, NEW p \in Process, NEW c \in {"snapshot", "session", "changes"},
         Begin(p, c)
  PROVE  IInv'
<1> USE DEF Begin, Go, directory
<1>1. TypeOK'
  BY DEF IInv, TypeOK, PCs, Listing
<1>2. WorkOK'
  BY DEF IInv, TypeOK, WorkOK
<1>3. QED
  BY <1>1, <1>2, UnreportedOK DEF IInv

LEMMA ListOK ==
  ASSUME IInv, NEW p \in Process, List(p)
  PROVE  IInv'
<1> USE DEF List, directory
<1>1. pc[p] \in Listing /\ pc[p] # "publish"
  BY DEF Listing
<1>2. CASE Return(p)
  BY <1>1, <1>2, ReturnOK DEF IInv, TypeOK
<1>3. CASE /\ Go(p, Loading[pc[p]])
           /\ listed' = [listed EXCEPT ![p] = files]
           /\ UNCHANGED <<command, seen, current, doomed, report>>
  <2>1. /\ Loading[pc[p]] \in {"load", "append.load", "prune.load"}
        /\ Loading[pc[p]] = "append.load" => pc[p] = "append.list"
        /\ Loading[pc[p]] = "prune.load" => pc[p] = "prune.list"
    BY <1>1 DEF Loading, Listing
  <2>2. TypeOK'
    BY <1>1, <1>3, <2>1 DEF IInv, TypeOK, PCs, Go
  <2>3. WorkOK'
    BY <1>3, <2>1 DEF IInv, TypeOK, WorkOK, Go
  <2>4. QED
    BY <1>3, <2>2, <2>3, UnreportedOK DEF IInv
<1>4. QED
  BY <1>2, <1>3

LEMMA LoadFailsOK ==
  ASSUME IInv, NEW p \in Process, LoadFails(p)
  PROVE  IInv'
BY ReturnOK DEF LoadFails, directory, IInv, TypeOK

LEMMA LoadHistoryOK ==
  ASSUME IInv, NEW p \in Process, LoadHistory(p)
  PROVE  IInv'
<1> USE DEF LoadHistory, Loaded, Go, directory
<1>1. TypeOK'
  BY DEF IInv, TypeOK, PCs
<1>2. WorkOK'
  BY DEF IInv, TypeOK, WorkOK
<1>3. QED
  BY <1>1, <1>2, UnreportedOK DEF IInv

LEMMA CaptureOK ==
  ASSUME IInv, NEW p \in Process, NEW s \in Snapshot, Capture(p, s)
  PROVE  IInv'
<1> USE DEF Capture, Go, directory
<1>1. TypeOK'
  BY DEF IInv, TypeOK, PCs, Listing
<1>2. WorkOK'
  BY DEF IInv, TypeOK, WorkOK
<1>3. QED
  BY <1>1, <1>2, UnreportedOK DEF IInv

\* Only here does a report come into being: `changes' compares two snapshots
\* that it has read, and a session the latest of them with its own.
LEMMA ReportOK ==
  ASSUME IInv, NEW p \in Process, Report(p)
  PROVE  IInv'
<1> USE DEF Go, directory
<1>1. pc[p] = "report"
  BY DEF Report
<1>2. TypeOK'
  BY <1>1 DEF IInv, TypeOK, PCs, Report
<1>3. WorkOK'
  BY <1>1 DEF IInv, TypeOK, WorkOK, Report
<1>4. IsFiniteSet(published)' /\ DoomedOK'
  BY DEF IInv, DoomedOK, Exceeded, Report
<1>5. seen[p] \subseteq published /\ published \subseteq Snapshot
  BY DEF IInv, TypeOK
<1>6. \/ UNCHANGED report
      \/ \E r : Reported(r) /\ report' = [report EXCEPT ![p] = r]
  <2>1. PICK cleanings \in SUBSET Time, threshold \in Thresholds, quiet \in BOOLEAN :
          \/ /\ command[p] = "session"
             /\ \E from \in seen[p] :
                  report' = [report EXCEPT ![p] =
                    Compared(from, current[p], seen[p] \cup {current[p]}, cleanings,
                             threshold, quiet)]
          \/ /\ command[p] = "changes"
             /\ \E from, to \in seen[p] :
                  report' = [report EXCEPT ![p] =
                    Compared(from, to, seen[p], cleanings, threshold, quiet)]
          \/ UNCHANGED report
    BY DEF Report
  <2>2. CASE /\ command[p] = "session"
             /\ \E from \in seen[p] :
                  report' = [report EXCEPT ![p] =
                    Compared(from, current[p], seen[p] \cup {current[p]}, cleanings,
                             threshold, quiet)]
    <3>1. PICK from \in seen[p] :
            report' = [report EXCEPT ![p] =
              Compared(from, current[p], seen[p] \cup {current[p]}, cleanings,
                       threshold, quiet)]
      BY <2>2
    <3>2. current[p] \in published
      BY <1>1, <2>2 DEF IInv, WorkOK
    <3>3. Reported(Compared(from, current[p], seen[p] \cup {current[p]}, cleanings,
                            threshold, quiet))
      BY <1>5, <3>2 DEF Reported
    <3>4. QED
      BY <3>1, <3>3
  <2>3. CASE \E from, to \in seen[p] :
               report' = [report EXCEPT ![p] =
                 Compared(from, to, seen[p], cleanings, threshold, quiet)]
    <3>1. PICK from \in seen[p], to \in seen[p] :
            report' = [report EXCEPT ![p] =
              Compared(from, to, seen[p], cleanings, threshold, quiet)]
      BY <2>3
    <3>2. Reported(Compared(from, to, seen[p], cleanings, threshold, quiet))
      BY <1>5 DEF Reported
    <3>3. QED
      BY <3>1, <3>2
  <2>4. QED
    BY <2>1, <2>2, <2>3
<1>7. published' = published
  BY DEF Report
<1>8. ReportsOK'
  <2>1. /\ report' = [q \in Process |-> report'[q]]
        /\ \A q \in Process : report'[q] = None \/ Reported(report'[q])
    BY <1>6 DEF IInv, ReportsOK
  <2>2. QED
    BY <1>7, <2>1, ReportedForEver DEF ReportsOK
<1>9. QED
  BY <1>2, <1>3, <1>4, <1>8 DEF IInv

LEMMA DoneOK ==
  ASSUME IInv, NEW p \in Process, Done(p)
  PROVE  IInv'
BY ReturnOK DEF Done, directory, IInv, TypeOK

LEMMA LoadAppendOK ==
  ASSUME IInv, NEW p \in Process, LoadAppend(p)
  PROVE  IInv'
<1> USE DEF LoadAppend, Loaded
<1>1. CASE Return(p) /\ UNCHANGED temps
  BY <1>1, ReturnOK DEF IInv, TypeOK
<1>2. CASE /\ Go(p, "publish")
           /\ temps' = temps \cup {p}
           /\ listed' = [listed EXCEPT ![p] = {}]
           /\ UNCHANGED <<command, seen, current, doomed, report>>
  <2>1. TypeOK'
    BY <1>2 DEF IInv, TypeOK, PCs, Go
  <2>2. WorkOK'
    BY <1>2 DEF IInv, TypeOK, WorkOK, Go
  <2>3. QED
    BY <1>2, <2>1, <2>2, UnreportedOK DEF IInv
<1>3. QED
  BY <1>1, <1>2

\* Only here does `published' grow.
LEMMA PublishOK ==
  ASSUME IInv, NEW p \in Process, Publish(p)
  PROVE  IInv'
<1> USE DEF Publish
<1>1. CASE Return(p) /\ UNCHANGED <<files, published>>
  BY <1>1, ReturnOK DEF IInv, TypeOK
<1>2. CASE /\ Go(p, "prune.list") /\ UNCHANGED locals
           /\ files' = files \cup {current[p]}
           /\ published' = published \cup {current[p]}
  <2> USE DEF Go, locals
  <2>1. current[p] \in Snapshot
    BY DEF IInv, WorkOK
  <2>2. TypeOK'
    BY <1>2, <2>1 DEF IInv, TypeOK, PCs, Listing
  <2>3. IsFiniteSet(published') /\ published \subseteq published'
    BY <1>2, FS_AddElement DEF IInv
  <2>4. WorkOK'
    BY <1>2 DEF IInv, TypeOK, WorkOK
  <2>5. DoomedOK'
    BY <1>2, <2>3, ExceededForEver DEF IInv, DoomedOK
  <2>6. ReportsOK'
    BY <1>2, <2>3, ReportedForEver DEF IInv, ReportsOK
  <2>7. QED
    BY <2>2, <2>3, <2>4, <2>5, <2>6 DEF IInv
<1>3. QED
  BY <1>1, <1>2

LEMMA LoadPruneOK ==
  ASSUME IInv, NEW p \in Process, LoadPrune(p)
  PROVE  IInv'
<1> USE DEF LoadPrune, Loaded, Go, directory
<1>1. listed[p] \in SUBSET published /\ IsFiniteSet(published)
  BY DEF IInv, TypeOK
<1>2. \A s \in Excess(listed[p]) : s \in listed[p] /\ Exceeded(s)
  BY <1>1, ExcessIsExceeded
<1>3. TypeOK'
  BY <1>1, <1>2 DEF IInv, TypeOK, PCs
<1>4. WorkOK'
  BY DEF IInv, TypeOK, WorkOK
<1>5. \A q \in Process : \A s \in doomed'[q] : s \in doomed[q] \/ Exceeded(s)
  BY <1>2 DEF IInv, TypeOK
<1>6. QED
  BY <1>3, <1>4, <1>5, UnreportedOK DEF IInv

\* What is removed was doomed.
LEMMA PruneOK ==
  ASSUME IInv, NEW p \in Process, Prune(p)
  PROVE  IInv' /\ files \ files' \subseteq doomed[p]
<1> USE DEF Prune
<1>1. CASE Return(p) /\ UNCHANGED files
  BY <1>1, ReturnOK DEF IInv, TypeOK
<1>2. CASE \E s \in doomed[p] :
             /\ files' = files \ {s}
             /\ doomed' = [doomed EXCEPT ![p] = @ \ {s}]
             /\ UNCHANGED <<pc, command, seen, current, listed, report>>
  <2>1. TypeOK'
    BY <1>2 DEF IInv, TypeOK
  <2>2. WorkOK'
    BY <1>2 DEF IInv, WorkOK
  <2>3. \A q \in Process : doomed'[q] \subseteq doomed[q]
    BY <1>2 DEF IInv, TypeOK
  <2>4. QED
    BY <1>2, <2>1, <2>2, <2>3, UnreportedOK DEF IInv
<1>3. CASE /\ command[p] = "session" /\ Go(p, "report")
           /\ UNCHANGED locals /\ UNCHANGED files
  <2> USE DEF Go, locals
  <2>1. TypeOK'
    BY <1>3 DEF IInv, TypeOK, PCs
  <2>2. WorkOK'
    BY <1>3 DEF IInv, TypeOK, WorkOK
  <2>3. QED
    BY <1>3, <2>1, <2>2, UnreportedOK DEF IInv
<1>4. QED
  BY <1>1, <1>2, <1>3

LEMMA StopOK ==
  ASSUME IInv, NEW p \in Process, Stop(p)
  PROVE  IInv'
<1>1. stops' \in 0 .. MaxStops /\ stops' # 0
  BY ResidueAssumption DEF IInv, TypeOK, Stop
<1>2. QED
  BY <1>1, ReturnOK DEF Stop

\* No step but a pruning removes a snapshot.
LEMMA StepOK ==
  ASSUME IInv, NEW p \in Process, CommandNext(p) \/ AppendNext(p) \/ Stop(p)
  PROVE  IInv' /\ files \ files' \subseteq doomed[p]
<1>1. CASE CommandNext(p)
  <2>1. IInv'
    BY <1>1, BeginOK, ListOK, LoadFailsOK, LoadHistoryOK, CaptureOK, ReportOK, DoneOK
    DEF CommandNext
  <2>2. files' = files
    BY <1>1 DEF CommandNext, Begin, List, LoadFails, LoadHistory, Capture, Report,
                Done, directory
  <2>3. QED
    BY <2>1, <2>2
<1>2. CASE LoadAppend(p) \/ LoadPrune(p)
  BY <1>2, LoadAppendOK, LoadPruneOK DEF LoadAppend, LoadPrune, directory
<1>3. CASE Publish(p)
  BY <1>3, PublishOK DEF Publish
<1>4. CASE Prune(p)
  BY <1>4, PruneOK
<1>5. CASE Stop(p)
  BY <1>5, StopOK DEF Stop
<1>6. QED
  BY <1>1, <1>2, <1>3, <1>4, <1>5 DEF AppendNext

LEMMA StutterOK == IInv /\ UNCHANGED vars => IInv'
<1> SUFFICES ASSUME IInv, UNCHANGED vars PROVE IInv'
  OBVIOUS
<1> USE DEF vars
<1>1. TypeOK' /\ WorkOK'
  BY DEF IInv, TypeOK, WorkOK
<1>2. QED
  BY <1>1, UnreportedOK DEF IInv

LEMMA Invariance == Spec => []IInv
<1>1. IInv /\ [Next]_vars => IInv'
  BY StepOK, StutterOK DEF Next
<1>2. QED
  BY <1>1, InitOK, PTL DEF Spec

-----------------------------------------------------------------------------
(* Theorems.                                                               *)

\* What a command has read, or is to remove, was published, and as long as no
\* command has ended early every temporary file has a process that renames it.
THEOREM TypeCorrect == Spec => []TypeOK
<1>1. IInv => TypeOK
  BY DEF IInv
<1>2. QED
  BY <1>1, Invariance, PTL

\* Pruning removes no snapshot that is not older than HistoryLimit others,
\* whatever the other commands do and whatever the clock says.
THEOREM OldestArePruned == Spec => PrunesOnlyOldest
<1>1. IInv /\ [Next]_vars => [OldestGo]_vars
  <2> SUFFICES ASSUME IInv, Next PROVE OldestGo
    OBVIOUS
  <2>1. PICK p \in Process : files \ files' \subseteq doomed[p]
    BY StepOK DEF Next
  <2>2. QED
    BY <2>1 DEF OldestGo, IInv, DoomedOK
<1>2. QED
  BY <1>1, Invariance, PTL DEF Spec, PrunesOnlyOldest

\* A session report that keeps quiet hides no change beyond its threshold, and
\* nothing that was not measured.
THEOREM QuietReportsAreSafe == Spec => []QuietIsSafe
<1>1. IInv => QuietIsSafe
  <2> SUFFICES ASSUME IInv, NEW r \in Printed, r.suppressed
               PROVE  /\ Matching(r.from, r.to)
                      /\ \A s \in {r.from, r.to} :
                           Status(s.content) \in {"complete", "not-present"}
                      /\ \A i \in DOMAIN Entries(r.to) :
                           SameWithin(Entries(r.from)[i], Entries(r.to)[i], r.threshold)
    BY DEF QuietIsSafe
  <2>1. Reported(r)
    BY DEF IInv, ReportsOK, Printed
  <2>2. PICK from \in Snapshot, to \in Snapshot, history \in SUBSET published,
             cleanings \in SUBSET Time, threshold \in Thresholds, quiet \in BOOLEAN :
          r = Compared(from, to, history, cleanings, threshold, quiet)
    BY <2>1 DEF Reported
  <2>3. /\ r.from = from /\ r.to = to /\ r.threshold = threshold
        /\ CanSuppress(Compare(from, to, history, cleanings), threshold)
    BY <2>2, ReportFields
  <2>4. threshold \in Nat
    BY ResidueAssumption
  <2>5. /\ Matching(from, to)
        /\ Status(from.content) \in Trusted /\ Status(to.content) \in Trusted
        /\ \A i \in DOMAIN Entries(to) :
             SameWithin(Entries(from)[i], Entries(to)[i], threshold)
    BY <2>3, <2>4, SuppressedIsSafe
  <2>6. QED
    BY <2>3, <2>5 DEF Trusted
<1>2. QED
  BY <1>1, Invariance, PTL

\* What a report claims to have grown or shrunk was measured completely twice,
\* and a claim of regrowth has an earlier, larger measurement in the history.
THEOREM ClaimsAreBacked == Spec => []ClaimsBacked
<1>1. IInv => ClaimsBacked
  <2> SUFFICES ASSUME IInv, NEW r \in Printed, NEW i \in DOMAIN r.changes
               PROVE  LET b == Entries(r.from)[i]
                          a == Entries(r.to)[i]
                          c == r.changes[i]
                      IN
                      /\ c.kind \in {"growth", "shrink"} =>
                           /\ b.status = "complete" /\ a.status = "complete"
                           /\ b.identity = a.identity /\ b.identity # None
                           /\ c.delta = a.bytes - b.bytes
                           /\ (c.delta > 0 <=> c.kind = "growth")
                      /\ c.regrowth =>
                           /\ c.kind = "growth"
                           /\ \E s \in published :
                                /\ s.at < r.from.at /\ i \in DOMAIN Entries(s)
                                /\ Entries(s)[i].status = "complete"
                                /\ Entries(s)[i].bytes > b.bytes
    BY DEF ClaimsBacked
  <2>1. Reported(r)
    BY DEF IInv, ReportsOK, Printed
  <2>2. PICK from \in Snapshot, to \in Snapshot, history \in SUBSET published,
             cleanings \in SUBSET Time, threshold \in Thresholds, quiet \in BOOLEAN :
          r = Compared(from, to, history, cleanings, threshold, quiet)
    BY <2>1 DEF Reported
  <2>3. /\ r.from = from /\ r.to = to
        /\ r.changes = Compare(from, to, history, cleanings).changes
    BY <2>2, ReportFields
  <2>4. history \in SUBSET Snapshot
    BY DEF IInv, TypeOK
  <2>5. i \in DOMAIN Compare(from, to, history, cleanings).changes
    BY <2>3
  <2>6. QED
    BY <2>3, <2>4, <2>5, ClaimIsBacked
<1>2. QED
  BY <1>1, Invariance, PTL
-----------------------------------------------------------------------------
(* What is too large.  A process adds its snapshot long after it listed the *)
(* directory, and others that listed the same add theirs meanwhile; but     *)
(* each has to list once more before it adds another.                       *)

\* The bytes of the files, as a function, and their sum as Bytes defines it.
Encoded == [s \in Snapshot |-> FileBytes(s)]

AddsBytes(g, S) ==
  g = [T \in SUBSET S |-> IF T = {} THEN 0 ELSE FileBytes(Next1(T)) + g[T \ {Next1(T)}]]

LEMMA FileBytesType == \A s \in Snapshot : FileBytes(s) \in Nat /\ Encoded[s] = FileBytes(s)
BY CompareAssumption DEF Snapshot, ContentOK, FileBytes, Encoded

\* Bytes is a sum.
LEMMA BytesIsSum ==
  ASSUME NEW S \in SUBSET Snapshot, IsFiniteSet(S)
  PROVE  Bytes(S) = Sum(Encoded, S)
<1> DEFINE h == CHOOSE g : AddsBytes(g, S)
<1>1. Summable(Encoded, S)
  BY FileBytesType DEF Summable
<1>2. \A T \in SUBSET S : T # {} => Encoded[Next1(T)] = FileBytes(Next1(T))
  BY FileBytesType, Next1InSet
<1>3. PICK g : AddsUp(g, Encoded, S)
  BY <1>1, SumsExist
<1>4. AddsBytes(g, S)
  BY <1>2, <1>3 DEF AddsUp, AddsBytes
<1>5. AddsBytes(h, S)
  BY <1>4, Zenon
<1>6. Bytes(S) = h[S]
  BY Zenon DEF Bytes, MapThenSumSet, MapThenFoldSet, AddsBytes, Next1
<1> HIDE DEF h
<1>7. IsSum(h, Encoded, S)
  BY <1>2, <1>5 DEF IsSum, AddsBytes
<1>8. QED
  BY <1>1, <1>6, <1>7, SumIs

\* Fewer files have no more bytes.
LEMMA BytesMonotone ==
  ASSUME NEW S \in SUBSET Snapshot, IsFiniteSet(S), NEW T \in SUBSET S
  PROVE  Bytes(T) =< Bytes(S) /\ Bytes(S) \in Nat /\ Bytes(T) \in Nat
<1>1. IsFiniteSet(T)
  BY FS_Subset
<1>2. \A s \in S : Encoded[s] \in Nat
  BY FileBytesType
<1>3. QED
  BY <1>1, <1>2, BytesIsSum, SumMonotone, SumNatural

\* If no more files are left, the excess over the bound is no larger.
LEMMA StillBounded ==
  ASSUME IInv, NEW S \in SUBSET published, NEW T \in SUBSET S, Bytes(S) =< MaxBytes
  PROVE  Bytes(T) =< MaxBytes
<1>1. S \in SUBSET Snapshot /\ IsFiniteSet(S)
  BY FS_Subset DEF IInv, TypeOK
<1>2. QED
  BY <1>1, BytesMonotone, ResidueAssumption

\* A step after which no process is further on the way to an addition, and no
\* file more is there, leaves the account as it is.
LEMMA IdleStepOK ==
  ASSUME IInv, OversizeInv, files' \subseteq files, published \subseteq published',
         \A p \in Process :
           /\ pc'[p] = "publish" => pc[p] = "publish"
           /\ pc'[p] = "append.load" => pc[p] = "append.load" /\ listed'[p] = listed[p]
  PROVE  OversizeInv'
<1>1. PICK extra \in [Process -> published \cup {None}],
           since \in [Process -> SUBSET Process] : ExtraOK(extra, since)
  BY DEF OversizeInv
<1> DEFINE R == {extra[p] : p \in Process}
<1>2. files \ R \in SUBSET published /\ files' \ R \in SUBSET (files \ R)
  BY DEF IInv, TypeOK
<1>3. Bytes(files' \ R) =< MaxBytes
  BY <1>1, <1>2, StillBounded DEF ExtraOK
<1>4. ASSUME NEW p \in Process, pc'[p] = "append.load", extra[p] # None
      PROVE  ListingOK(p, extra, since)'
  <2>1. ListingOK(p, extra, since) /\ listed'[p] = listed[p]
    BY <1>1, <1>4 DEF ExtraOK
  <2>2. QED
    BY <2>1 DEF ListingOK
<1>5. \A p \in Process : pc'[p] = "publish" => extra[p] = None
  BY <1>1 DEF ExtraOK
<1>6. ExtraOK(extra, since)'
  BY <1>3, <1>4, <1>5 DEF ExtraOK, Bytes, MapThenSumSet, MapThenFoldSet
<1>7. extra \in [Process -> published' \cup {None}]
  OBVIOUS
<1>8. QED
  BY <1>6, <1>7 DEF OversizeInv

\* A process lists the directory to append: nobody has added anything since.
LEMMA AppendListed ==
  ASSUME IInv, OversizeInv, NEW p \in Process, pc[p] = "append.list",
         Go(p, "append.load"), listed' = [listed EXCEPT ![p] = files],
         UNCHANGED <<files, published>>
  PROVE  OversizeInv'
<1>1. PICK extra \in [Process -> published \cup {None}],
           since \in [Process -> SUBSET Process] : ExtraOK(extra, since)
  BY DEF OversizeInv
<1> DEFINE after == [since EXCEPT ![p] = {}]
<1>2. after \in [Process -> SUBSET Process] /\ after[p] = {}
      /\ \A q \in Process \ {p} : after[q] = since[q]
  OBVIOUS
<1>3. pc' = [pc EXCEPT ![p] = "append.load"] /\ pc \in [Process -> PCs]
      /\ listed'[p] = files /\ \A q \in Process \ {p} : listed'[q] = listed[q]
  BY DEF Go, IInv, TypeOK
<1> HIDE DEF after
<1>4. ASSUME NEW q \in Process, pc'[q] = "append.load", extra[q] # None
      PROVE  ListingOK(q, extra, after)'
  <2>1. CASE q = p
    BY <1>2, <1>3, <2>1 DEF ListingOK
  <2>2. CASE q # p
    <3>1. ListingOK(q, extra, since) /\ after[q] = since[q] /\ listed'[q] = listed[q]
      BY <1>1, <1>2, <1>3, <1>4, <2>2 DEF ExtraOK
    <3>2. ASSUME NEW o \in since[q]
          PROVE  /\ extra[o] # None /\ pc'[o] # "publish"
                 /\ pc'[o] = "append.load" => after[o] \subseteq since[q]
      <4>1. o \in Process /\ extra[o] # None /\ pc[o] # "publish"
            /\ (pc[o] = "append.load" => since[o] \subseteq since[q])
        BY <1>1, <3>1 DEF ListingOK
      <4>2. QED
        BY <1>2, <1>3, <4>1
    <3>3. QED
      BY <3>1, <3>2 DEF ListingOK
  <2>3. QED
    BY <2>1, <2>2
<1>5. \A q \in Process : pc'[q] = "publish" => extra[q] = None
  BY <1>1, <1>3 DEF ExtraOK
<1>6. Bytes(files' \ {extra[q] : q \in Process}) =< MaxBytes
  BY <1>1 DEF ExtraOK
<1>7. ExtraOK(extra, after)'
  BY <1>4, <1>5, <1>6 DEF ExtraOK, Bytes, MapThenSumSet, MapThenFoldSet
<1>8. QED
  BY <1>2, <1>7 DEF OversizeInv

\* A process has read the directory and finds that it is not too large.  If it
\* has added something since the point of reference, its own listing is the
\* point of reference from now on.
LEMMA AppendPassed ==
  ASSUME IInv, OversizeInv, NEW p \in Process, Loaded(p, "append.load"), Go(p, "publish"),
         listed' = [listed EXCEPT ![p] = {}], UNCHANGED <<files, published>>
  PROVE  OversizeInv'
<1>1. PICK extra \in [Process -> published \cup {None}],
           since \in [Process -> SUBSET Process] : ExtraOK(extra, since)
  BY DEF OversizeInv
<1>2. pc' = [pc EXCEPT ![p] = "publish"] /\ pc \in [Process -> PCs] /\ pc[p] = "append.load"
      /\ \A q \in Process \ {p} : listed'[q] = listed[q]
  BY DEF Go, IInv, TypeOK, Loaded
<1>3. listed[p] \in SUBSET published /\ Bytes(listed[p]) =< MaxBytes
  BY ResidueAssumption DEF Loaded, Readable, Extra, IInv, TypeOK
<1>4. CASE extra[p] = None
  <2>1. ASSUME NEW q \in Process, pc'[q] = "append.load", extra[q] # None
        PROVE  ListingOK(q, extra, since)'
    <3>1. q # p /\ pc[q] = "append.load" /\ listed'[q] = listed[q]
      BY <1>2, <2>1
    <3>2. ListingOK(q, extra, since)
      BY <1>1, <2>1, <3>1 DEF ExtraOK
    <3>3. p \notin since[q]
      BY <1>4, <3>2 DEF ListingOK
    <3>4. since[q] \subseteq Process
      BY <1>1
    <3>5. QED
      BY <1>2, <3>1, <3>2, <3>3, <3>4 DEF ListingOK
  <2>2. \A q \in Process : pc'[q] = "publish" => extra[q] = None
    BY <1>1, <1>2, <1>4 DEF ExtraOK
  <2>3. Bytes(files' \ {extra[q] : q \in Process}) =< MaxBytes
    BY <1>1 DEF ExtraOK
  <2>4. ExtraOK(extra, since)'
    BY <2>1, <2>2, <2>3 DEF ExtraOK, Bytes, MapThenSumSet, MapThenFoldSet
  <2>5. QED
    BY <1>1, <2>4 DEF OversizeInv
<1>5. CASE extra[p] # None
  <2> DEFINE rest == [q \in Process |-> IF q \in since[p] THEN extra[q] ELSE None]
  <2>1. ListingOK(p, extra, since)
    BY <1>1, <1>2, <1>5 DEF ExtraOK
  <2>2. rest \in [Process -> published \cup {None}]
        /\ \A q \in Process : rest[q] = IF q \in since[p] THEN extra[q] ELSE None
    OBVIOUS
  <2> HIDE DEF rest
  <2>3. since[p] \subseteq Process /\ p \notin since[p]
    BY <1>1, <2>1 DEF ListingOK
  <2>4. Bytes(files \ {rest[q] : q \in Process}) =< MaxBytes
    <3>1. files \ {rest[q] : q \in Process} \subseteq listed[p]
      BY <2>1, <2>2, <2>3 DEF ListingOK
    <3>2. QED
      BY <1>3, <3>1, StillBounded
  <2>5. ASSUME NEW q \in Process, pc'[q] = "publish"
        PROVE  rest[q] = None
    BY <1>2, <2>1, <2>2, <2>3, <2>5 DEF ListingOK
  <2>6. ASSUME NEW q \in Process, pc'[q] = "append.load", rest[q] # None
        PROVE  ListingOK(q, rest, since)'
    <3>1. q # p /\ pc[q] = "append.load" /\ listed'[q] = listed[q]
      BY <1>2, <2>6
    <3>2. q \in since[p] /\ extra[q] # None
      BY <2>2, <2>6
    <3>3. since[q] \subseteq since[p] /\ since[q] \subseteq Process
      BY <1>1, <2>1, <3>1, <3>2 DEF ListingOK
    <3>4. ListingOK(q, extra, since)
      BY <1>1, <3>1, <3>2 DEF ExtraOK
    <3>5. \A o \in since[q] : rest[o] = extra[o] /\ o # p
      BY <2>2, <2>3, <3>3
    <3>6. {rest[o] : o \in since[q]} = {extra[o] : o \in since[q]}
      BY <3>5
    <3>7. ASSUME NEW o \in since[q]
          PROVE  /\ rest[o] # None /\ pc'[o] # "publish"
                 /\ pc'[o] = "append.load" => since[o] \subseteq since[q]
      <4>1. o \in Process /\ pc'[o] = pc[o] /\ rest[o] = extra[o]
        BY <1>2, <3>3, <3>5
      <4>2. QED
        BY <3>4, <4>1 DEF ListingOK
    <3>8. QED
      BY <3>1, <3>4, <3>6, <3>7 DEF ListingOK
  <2>7. ExtraOK(rest, since)'
    BY <2>4, <2>5, <2>6 DEF ExtraOK, Bytes, MapThenSumSet, MapThenFoldSet
  <2>8. QED
    BY <1>1, <2>2, <2>7 DEF OversizeInv
<1>6. QED
  BY <1>4, <1>5

\* A process adds its snapshot: it is its first since the point of reference.
LEMMA Added ==
  ASSUME IInv, OversizeInv, NEW p \in Process, pc[p] = "publish", Go(p, "prune.list"),
         UNCHANGED listed, files' = files \cup {current[p]},
         published' = published \cup {current[p]}
  PROVE  OversizeInv'
<1>1. PICK extra \in [Process -> published \cup {None}],
           since \in [Process -> SUBSET Process] : ExtraOK(extra, since)
  BY DEF OversizeInv
<1>2. PICK more \in [Process -> published' \cup {None}], after \in [Process -> SUBSET Process] :
        /\ more[p] = current[p] /\ \A q \in Process \ {p} : more[q] = extra[q]
        /\ \A q \in Process : after[q] = since[q] \cup {p}
  <2> DEFINE more  == [extra EXCEPT ![p] = current[p]]
             after == [q \in Process |-> since[q] \cup {p}]
  <2>1. /\ more \in [Process -> published' \cup {None}] /\ more[p] = current[p]
        /\ \A q \in Process \ {p} : more[q] = extra[q]
    OBVIOUS
  <2>2. /\ after \in [Process -> SUBSET Process]
        /\ \A q \in Process : after[q] = since[q] \cup {p}
    OBVIOUS
  <2> HIDE DEF more, after
  <2>3. QED
    BY <2>1, <2>2
<1>3. pc' = [pc EXCEPT ![p] = "prune.list"] /\ pc \in [Process -> PCs]
  BY DEF Go, IInv, TypeOK
<1>4. extra[p] = None
  BY <1>1 DEF ExtraOK
<1>5. current[p] # None
  BY ResidueAssumption DEF IInv, WorkOK
<1>6. Bytes(files' \ {more[q] : q \in Process}) =< MaxBytes
  <2>1. None \notin files
    BY ResidueAssumption DEF IInv, TypeOK
  <2>2. files' \ {more[q] : q \in Process} \subseteq files \ {extra[q] : q \in Process}
    <3> SUFFICES ASSUME NEW s \in files', s \notin {more[q] : q \in Process},
                        NEW q \in Process, s = extra[q]
                 PROVE  FALSE
      BY <1>2
    <3>1. s # current[p] /\ s \in files
      BY <1>2
    <3>2. q # p
      BY <1>4, <2>1, <3>1
    <3>3. QED
      BY <1>2, <3>2
  <2>3. files \ {extra[q] : q \in Process} \in SUBSET published
    BY DEF IInv, TypeOK
  <2>4. QED
    BY <1>1, <2>2, <2>3, StillBounded DEF ExtraOK
<1>7. \A q \in Process : pc'[q] = "publish" => more[q] = None
  BY <1>1, <1>2, <1>3 DEF ExtraOK
<1>8. ASSUME NEW q \in Process, pc'[q] = "append.load", more[q] # None
      PROVE  ListingOK(q, more, after)'
  <2>1. q # p /\ pc[q] = "append.load" /\ extra[q] # None
    BY <1>2, <1>3, <1>8
  <2>2. ListingOK(q, extra, since) /\ since[q] \subseteq Process
    BY <1>1, <2>1 DEF ExtraOK
  <2>3. p \notin since[q]
    BY <1>4, <2>2 DEF ListingOK
  <2>4. files' \subseteq listed[q] \cup {more[o] : o \in after[q]}
    <3>1. \A o \in since[q] : more[o] = extra[o] /\ o \in after[q]
      BY <1>2, <2>2, <2>3
    <3>2. p \in after[q] /\ more[p] = current[p]
      BY <1>2
    <3>3. QED
      BY <2>2, <3>1, <3>2 DEF ListingOK
  <2>5. q \notin after[q]
    BY <1>2, <2>1, <2>2 DEF ListingOK
  <2>6. ASSUME NEW o \in after[q]
        PROVE  /\ more[o] # None /\ pc'[o] # "publish"
               /\ pc'[o] = "append.load" => after[o] \subseteq after[q]
    <3>1. CASE o = p
      BY <1>2, <1>3, <1>5, <3>1
    <3>2. CASE o # p
      <4>1. o \in since[q] /\ o \in Process /\ pc'[o] = pc[o] /\ more[o] = extra[o]
        BY <1>2, <1>3, <2>2, <2>6, <3>2
      <4>2. QED
        BY <1>2, <2>2, <4>1 DEF ListingOK
    <3>3. QED
      BY <3>1, <3>2
  <2>7. QED
    BY <2>4, <2>5, <2>6 DEF ListingOK
<1>9. ExtraOK(more, after)'
  BY <1>6, <1>7, <1>8 DEF ExtraOK, Bytes, MapThenSumSet, MapThenFoldSet
<1>10. QED
  BY <1>2, <1>9 DEF OversizeInv

\* The account is kept by every step.
LEMMA OversizeNextOK ==
  ASSUME IInv, OversizeInv, [Next]_vars
  PROVE  OversizeInv'
<1>1. pc \in [Process -> PCs] /\ listed \in [Process -> SUBSET published]
  BY DEF IInv, TypeOK
<1>2. ASSUME NEW p \in Process, Return(p), files' = files, published' = published
      PROVE  OversizeInv'
  BY <1>1, <1>2, IdleStepOK DEF Return, Go
<1>3. ASSUME NEW p \in Process, CommandNext(p)
      PROVE  OversizeInv'
  <2>1. files' = files /\ published' = published
    BY <1>3 DEF CommandNext, Begin, List, LoadFails, LoadHistory, Capture, Report, Done,
                directory
  <2>2. CASE List(p) /\ ~Return(p)
    <3>1. /\ pc[p] \in Listing /\ Go(p, Loading[pc[p]])
          /\ listed' = [listed EXCEPT ![p] = files]
      BY <2>2 DEF List
    <3>2. CASE pc[p] = "append.list"
      <4>1. Loading[pc[p]] = "append.load"
        BY <3>2 DEF Loading, Listing
      <4>2. QED
        BY <2>1, <3>1, <3>2, <4>1, AppendListed
    <3>3. CASE pc[p] # "append.list"
      <4>1. Loading[pc[p]] \in {"load", "prune.load"}
        BY <3>1, <3>3 DEF Loading, Listing
      <4>2. QED
        BY <1>1, <2>1, <3>1, <4>1, IdleStepOK DEF Go
    <3>4. QED
      BY <3>2, <3>3
  <2>3. CASE \/ \E c \in {"snapshot", "session", "changes"} : Begin(p, c)
             \/ LoadHistory(p) \/ Report(p)
             \/ \E s \in Snapshot : Capture(p, s)
    <3>1. \E next \in PCs \ {"publish", "append.load"} : Go(p, next)
      BY <2>3 DEF Begin, LoadHistory, Report, Capture, PCs, Listing
    <3>2. \A q \in Process \ {p} : listed'[q] = listed[q]
      BY <1>1, <2>3 DEF Begin, LoadHistory, Report, Capture
    <3>3. QED
      BY <1>1, <2>1, <3>1, <3>2, IdleStepOK DEF Go
  <2>4. CASE Return(p)
    BY <1>2, <2>1, <2>4
  <2>5. QED
    BY <1>3, <2>2, <2>3, <2>4 DEF CommandNext, LoadFails, Done
<1>4. ASSUME NEW p \in Process, LoadAppend(p)
      PROVE  OversizeInv'
  BY <1>2, <1>4, AppendPassed DEF LoadAppend
<1>5. ASSUME NEW p \in Process, Publish(p)
      PROVE  OversizeInv'
  BY <1>2, <1>5, Added DEF Publish, locals
<1>6. ASSUME NEW p \in Process, LoadPrune(p) \/ Prune(p)
      PROVE  OversizeInv'
  <2>1. files' \subseteq files /\ published' = published
    BY <1>6 DEF LoadPrune, Prune, directory
  <2>2. CASE Return(p)
    <3>1. \A q \in Process : pc'[q] # pc[q] => pc'[q] = "idle"
      BY <1>1, <2>2 DEF Return, Go
    <3>2. \A q \in Process : pc'[q] = "append.load" => q # p
      BY <1>1, <2>2 DEF Return, Go
    <3>3. \A q \in Process \ {p} : listed'[q] = listed[q]
      BY <1>1, <2>2 DEF Return
    <3>4. QED
      BY <2>1, <3>1, <3>2, <3>3, IdleStepOK
  <2>3. CASE LoadPrune(p)
    BY <1>1, <2>1, <2>3, IdleStepOK DEF LoadPrune, Go
  <2>4. CASE Prune(p) /\ ~Return(p)
    <3>1. UNCHANGED listed /\ (UNCHANGED pc \/ Go(p, "report"))
      BY <2>4 DEF Prune, locals
    <3>2. QED
      BY <1>1, <2>1, <3>1, IdleStepOK DEF Go
  <2>5. QED
    BY <1>6, <2>2, <2>3, <2>4
<1>7. ASSUME NEW p \in Process, Stop(p)
      PROVE  OversizeInv'
  BY <1>2, <1>7 DEF Stop
<1>8. CASE UNCHANGED vars
  BY <1>8, IdleStepOK DEF vars
<1>9. QED
  BY <1>3, <1>4, <1>5, <1>6, <1>7, <1>8 DEF Next, AppendNext

\* However many snapshots, faults and backward steps of the clock there are,
\* the files that make the history too large are at most one for each process:
\* pruning looks at the number only, but what is too large is never added to.
THEOREM OversizeIsBounded ==
  ASSUME IsFiniteSet(Process)
  PROVE  Spec => []OversizeByOneEach
<1>1. Init => OversizeInv
  <2> SUFFICES ASSUME Init PROVE OversizeInv
    OBVIOUS
  <2> DEFINE extra == [p \in Process |-> None]
             since == [p \in Process |-> {}]
  <2>1. IInv /\ Bytes(files) =< MaxBytes /\ files \in SUBSET published
    BY InitOK, ResidueAssumption DEF Init, Readable
  <2>2. Bytes(files \ {extra[p] : p \in Process}) =< MaxBytes
    BY <2>1, StillBounded
  <2>3. \A p \in Process : pc[p] = "idle" /\ extra[p] = None
    BY DEF Init
  <2>4. ExtraOK(extra, since)
    BY <2>2, <2>3 DEF ExtraOK
  <2>5. extra \in [Process -> published \cup {None}] /\ since \in [Process -> SUBSET Process]
    OBVIOUS
  <2>6. QED
    BY <2>4, <2>5 DEF OversizeInv
<1>2. IInv /\ OversizeInv /\ [Next]_vars => OversizeInv'
  BY OversizeNextOK
<1>3. IInv /\ OversizeInv => OversizeByOneEach
  <2> SUFFICES ASSUME IInv, OversizeInv PROVE OversizeByOneEach
    OBVIOUS
  <2>1. PICK extra \in [Process -> published \cup {None}],
             since \in [Process -> SUBSET Process] : ExtraOK(extra, since)
    BY DEF OversizeInv
  <2> DEFINE R == {extra[p] : p \in Process}
             S == R \cap files
  <2>2. IsFiniteSet(R) /\ Cardinality(R) =< Cardinality(Process)
        /\ Cardinality(R) \in Nat /\ Cardinality(Process) \in Nat
    <3>1. extra \in Surjection(Process, R)
      BY DEF Surjection
    <3>2. QED
      BY <3>1, FS_Surjection, FS_CardinalityType
  <2>3. IsFiniteSet(S) /\ Cardinality(S) =< Cardinality(R) /\ Cardinality(S) \in Nat
    BY <2>2, FS_Subset, FS_CardinalityType
  <2>4. files \ S = files \ R
    OBVIOUS
  <2>5. Bytes(files \ S) =< MaxBytes
    BY <2>1, <2>4 DEF ExtraOK
  <2>6. S \in SUBSET files /\ Cardinality(S) =< Cardinality(Process)
    BY <2>2, <2>3
  <2>7. QED
    BY <2>5, <2>6 DEF OversizeByOneEach
<1>4. QED
  BY <1>1, <1>2, <1>3, Invariance, PTL DEF Spec
=============================================================================
