--------------------------- MODULE ResidueCompare ---------------------------
(***************************************************************************)
(* What two snapshots of the residue say about each other (pure;           *)
(* src/internal/residue/compare.go).                                       *)
(*                                                                         *)
(* A snapshot is its capture time and its content: the bindings of the     *)
(* scopes, the entries by their identifiers, the size of its encoding and  *)
(* the rank of its identifier, which is a hash.  The family, the rule      *)
(* version and the scope of an entry are one field, `rule'; the state of a *)
(* linked worktree is in `state'.  Sizes are non-negative, so that the     *)
(* difference of two never overflows.                                      *)
(***************************************************************************)
EXTENDS Integers, FiniteSets

CONSTANTS Time, Contents, None

SizeStatus   == {"complete", "partial", "unknown", "not-present"}
ReportStatus == {"complete", "partial", "unknown", "not-present"}
\* A "go-cache" is the Go build cache as a candidate of the cleanup.
EntryKind    == {"go-cache", "other", "git-worktree"}

\* validateSize: a complete size has a number, an absent or unknown one none.
SizeOK(e) ==
  /\ e.status \in SizeStatus
  /\ e.bytes \in Nat \cup {None}
  /\ e.status = "complete" => e.bytes \in Nat
  /\ e.status \in {"unknown", "not-present"} => e.bytes = None

\* Nothing measures the linked worktrees themselves.
ContentOK(c) ==
  /\ \A i \in DOMAIN c.entries :
       LET e == c.entries[i] IN
       /\ SizeOK(e) /\ e.kind \in EntryKind
       /\ e.kind = "git-worktree" => e.status \in {"unknown", "not-present"}
  /\ c.bytes \in Nat /\ c.rank \in Nat
  /\ \A s \in DOMAIN c.bindings : c.bindings[s].status \in ReportStatus

ASSUME CompareAssumption ==
  /\ Time \subseteq Int /\ None \notin Nat
  /\ \A c \in Contents : ContentOK(c)
  /\ \A c, d \in Contents : c.rank = d.rank => c = d

Snapshot == [at: Time, content: Contents]

\* The order of readSnapshots: by time, then by identifier.
Before(s, t) ==
  \/ s.at < t.at
  \/ s.at = t.at /\ s.content.rank < t.content.rank

Entries(s) == s.content.entries

\* captureStatus: the status of a report, from its bindings and its entries.
Status(c) ==
  LET sizes     == {c.entries[i].status : i \in DOMAIN c.entries}
      bound     == {c.bindings[s].status : s \in DOMAIN c.bindings}
      unknown   == "unknown" \in sizes \cup bound
      partial   == "partial" \in sizes \cup bound
  IN IF unknown /\ "complete" \notin sizes /\ ~partial THEN "unknown"
     ELSE IF unknown \/ partial THEN "partial"
     ELSE IF "complete" \notin sizes THEN "not-present"
     ELSE "complete"

-----------------------------------------------------------------------------
(* One entry.                                                              *)

Change(kind, delta) == [kind |-> kind, delta |-> delta]

\* Mutant of CompareEntry: a lower bound is taken for a size.
CompareEntryLoose(b, a) ==
  IF b.bytes = None \/ a.bytes = None THEN Change("unknown", None)
  ELSE Change(IF a.bytes > b.bytes THEN "growth"
              ELSE IF a.bytes < b.bytes THEN "shrink" ELSE "unchanged",
              a.bytes - b.bytes)

CompareEntry(b, a) ==
  IF b.rule # a.rule THEN Change("unknown", None)
  ELSE IF b.kind = "git-worktree" /\ a.kind = "git-worktree" THEN
    Change(IF b.identity # None /\ b.identity = a.identity /\ b.state = a.state
           THEN "unchanged" ELSE "replaced", None)
  ELSE IF b.status = "not-present" /\ a.status = "not-present" THEN
    Change("unchanged", None)
  ELSE IF b.status # "complete" \/ a.status # "complete" THEN
    Change("unknown", None)
  ELSE IF b.identity = None \/ a.identity = None THEN Change("unknown", None)
  ELSE IF b.identity # a.identity THEN Change("replaced", None)
  ELSE Change(IF a.bytes > b.bytes THEN "growth"
              ELSE IF a.bytes < b.bytes THEN "shrink" ELSE "unchanged",
              a.bytes - b.bytes)

\* regrowthEvidence: `cleanings' are the times of the receipts of successful
\* cleanings of the Go cache that removed something.
Regrown(i, previous, current, history, cleanings) ==
  /\ Entries(current)[i].kind = "go-cache"
  /\ \E t \in cleanings, earlier \in history \ {previous} :
       /\ earlier.at < t /\ t < previous.at
       /\ earlier.content.bindings = previous.content.bindings
       /\ i \in DOMAIN Entries(earlier) /\ i \in DOMAIN Entries(previous)
       /\ LET e == Entries(earlier)[i]
              f == Entries(previous)[i]
          IN /\ e.status = "complete" /\ f.status = "complete"
             /\ e.identity = f.identity
             /\ f.bytes < e.bytes

-----------------------------------------------------------------------------
(* Two reports.                                                            *)

\* compareReports compares entries only of one and the same set of scopes.
Matching(previous, current) ==
  /\ previous.content.bindings = current.content.bindings
  /\ DOMAIN Entries(previous) = DOMAIN Entries(current)

Changes(previous, current, history, cleanings) ==
  [i \in DOMAIN Entries(current) |->
     LET change == CompareEntry(Entries(previous)[i], Entries(current)[i])
     IN [kind |-> change.kind, delta |-> change.delta,
         regrowth |-> /\ change.kind = "growth"
                      /\ Regrown(i, previous, current, history, cleanings)]]

Trusted == {"complete", "not-present"}   \* comparableReportStatus

Compare(previous, current, history, cleanings) ==
  IF ~Matching(previous, current)
  THEN [status |-> "unknown", changes |-> [i \in {} |-> None]]
  ELSE
    LET changes == Changes(previous, current, history, cleanings)
        known   == {i \in DOMAIN changes : changes[i].kind # "unknown"}
        absent  == \A i \in DOMAIN changes :
                     /\ changes[i].kind = "unchanged"
                     /\ Entries(previous)[i].status = "not-present"
                     /\ Entries(current)[i].status = "not-present"
    IN [changes |-> changes,
        status |->
          IF \/ known # DOMAIN changes
             \/ Status(previous.content) \notin Trusted
             \/ Status(current.content) \notin Trusted
          THEN IF known = {} THEN "unknown" ELSE "partial"
          ELSE IF absent THEN "not-present" ELSE "complete"]

\* Mutant of CanSuppress: shrinking is not looked at.
CanSuppressShrink(comparison, threshold) ==
  /\ comparison.status \in Trusted
  /\ \A i \in DOMAIN comparison.changes :
       LET c == comparison.changes[i] IN
       /\ c.kind \notin {"unknown", "replaced"}
       /\ c.kind = "growth" => c.delta =< threshold

\* canSuppress: nothing that is unknown, replaced, or changed by more than
\* the threshold is kept quiet.
CanSuppress(comparison, threshold) ==
  /\ comparison.status \in Trusted
  /\ \A i \in DOMAIN comparison.changes :
       LET c == comparison.changes[i] IN
       /\ c.kind \notin {"unknown", "replaced"}
       /\ c.kind \in {"growth", "shrink"} =>
            c.delta =< threshold /\ c.delta >= -threshold
=============================================================================
