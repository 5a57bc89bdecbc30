--------------------------- MODULE ResidueHistory ---------------------------
(***************************************************************************)
(* The snapshots of the residue (src/internal/residue/history.go) and the  *)
(* commands that write and compare them (compare.go, engine.go).           *)
(*                                                                         *)
(* `snapshot' captures and appends; `session-report' reads the history,    *)
(* captures, appends and compares with the latest snapshot that it has     *)
(* read; `changes' reads and compares.  Each command is a process and      *)
(* there is no lock.  Append reads the history, writes a temporary file,   *)
(* renames it, reads the history once more and removes the oldest          *)
(* snapshots.  The clock is not trusted: a capture may have any time.      *)
(***************************************************************************)
EXTENDS ResidueCompare, FiniteSetsExt

CONSTANTS
  Process,
  Thresholds,        \* values of --threshold-bytes
  HistoryLimit,      \* 32 in the code
  MaxEntries,        \* 256: what a reader accepts
  MaxSnapshotBytes,  \* 4 MiB
  MaxBytes,          \* 32 MiB: what a reader accepts
  MaxStops,          \* bound of the instance: commands that end early
  MaxPublished       \* bound of the instance: snapshots that are written

ASSUME ResidueAssumption ==
  /\ Thresholds \subseteq Nat
  /\ HistoryLimit \in Nat \ {0} /\ MaxEntries \in Nat /\ HistoryLimit =< MaxEntries
  /\ MaxSnapshotBytes \in Nat /\ MaxBytes \in Nat /\ MaxStops \in Nat
  /\ MaxPublished \in Nat
  /\ None \notin Snapshot

VARIABLES
  files,       \* the snapshot files
  temps,       \* the processes with a temporary file in the directory
  pc, command, \* per process: its next step and its command
  seen,        \* per process: the history that session-report has read
  current,     \* per process: the snapshot it has captured
  listed,      \* per process: the directory listing it is reading
  doomed,      \* per process: the snapshots it is going to prune
  report,      \* per process: the comparison it is about to print
  stops,       \* how many commands ended early
  published    \* history: every snapshot that was ever in the directory

directory == <<files, temps, published>>
locals == <<command, seen, current, listed, doomed, report>>
vars == <<files, temps, pc, command, seen, current, listed, doomed, report,
          stops, published>>

Listing == {"list", "append.list", "prune.list"}
PCs == Listing \cup {"idle", "load", "append.load", "prune.load", "capture",
                     "publish", "prune", "report", "done"}

Go(p, next) == pc' = [pc EXCEPT ![p] = next]

Return(p) ==
  /\ Go(p, "idle")
  /\ command' = [command EXCEPT ![p] = None]
  /\ seen'    = [seen EXCEPT ![p] = {}]
  /\ current' = [current EXCEPT ![p] = None]
  /\ listed'  = [listed EXCEPT ![p] = {}]
  /\ doomed'  = [doomed EXCEPT ![p] = {}]
  /\ report'  = [report EXCEPT ![p] = None]

-----------------------------------------------------------------------------
(* readSnapshotsBounded: pruning accepts one entry and one snapshot's      *)
(* bytes more than every other reader.                                     *)

\* The encoding is measured before its newline is added.
FileBytes(s) == s.content.bytes + 1
Bytes(S) == MapThenSumSet(FileBytes, S)

Readable(S, extra) ==
  /\ Cardinality(S) =< MaxEntries + extra
  /\ Bytes(S) =< MaxBytes + extra * MaxSnapshotBytes
  /\ \A s \in S : FileBytes(s) =< MaxSnapshotBytes

\* Mutant of Extra: every reader accepts as much as pruning.
ExtraAlways(here) == 1

Extra(here) == IF here \in {"prune.list", "prune.load"} THEN 1 ELSE 0

\* readSnapshots returns them in order; this is the last one.
IsLatest(s, S) == s \in S /\ \A t \in S \ {s} : Before(t, s)

Loading == [l \in Listing |->
              CASE l = "list"        -> "load"
                [] l = "append.list" -> "append.load"
                [] l = "prune.list"  -> "prune.load"]

\* A temporary file, of whatever process, is an unknown entry.
List(p) ==
  /\ pc[p] \in Listing
  /\ \/ /\ temps = {} /\ Cardinality(files) =< MaxEntries + Extra(pc[p])
        /\ Go(p, Loading[pc[p]])
        /\ listed' = [listed EXCEPT ![p] = files]
        /\ UNCHANGED <<command, seen, current, doomed, report>>
     \/ /\ temps # {} \/ Cardinality(files) > MaxEntries + Extra(pc[p])
        /\ Return(p)
  /\ UNCHANGED <<directory, stops>>

\* A listed file that has gone fails the read, as does what is too large.
LoadFails(p) ==
  /\ pc[p] \in {"load", "append.load", "prune.load"}
  /\ ~(listed[p] \subseteq files) \/ ~Readable(listed[p], Extra(pc[p]))
  /\ Return(p)
  /\ UNCHANGED <<directory, stops>>

Loaded(p, here) ==
  pc[p] = here /\ listed[p] \subseteq files /\ Readable(listed[p], Extra(here))

-----------------------------------------------------------------------------
(* The commands.                                                           *)

Begin(p, c) ==
  /\ pc[p] = "idle"
  /\ c # "changes" => Cardinality(published) < MaxPublished
  /\ Go(p, IF c = "snapshot" THEN "capture" ELSE "list")
  /\ command' = [command EXCEPT ![p] = c]
  /\ UNCHANGED <<directory, seen, current, listed, doomed, report, stops>>

LoadHistory(p) ==
  /\ Loaded(p, "load")
  /\ Go(p, IF command[p] = "session" THEN "capture" ELSE "report")
  /\ seen'   = [seen EXCEPT ![p] = listed[p]]
  /\ listed' = [listed EXCEPT ![p] = {}]
  /\ UNCHANGED <<directory, command, current, doomed, report, stops>>

Capture(p, s) ==
  /\ pc[p] = "capture" /\ Go(p, "append.list")
  /\ current' = [current EXCEPT ![p] = s]
  /\ UNCHANGED <<directory, command, seen, listed, doomed, report, stops>>

\* What a session report or `changes' prints.
Compared(from, to, history, cleanings, threshold, quiet) ==
  LET comparison == Compare(from, to, history, cleanings) IN
  [from |-> from, to |-> to, threshold |-> threshold,
   status |-> comparison.status, changes |-> comparison.changes,
   suppressed |-> quiet /\ CanSuppress(comparison, threshold)]

\* The first session report compares nothing, nor does `changes' without two
\* snapshots, or with identifiers that are unknown.  `cleanings' is what the
\* receipts of the cleanup say meanwhile; what was read is of no more use.
Report(p) ==
  /\ pc[p] = "report" /\ Go(p, "done")
  /\ \E cleanings \in SUBSET Time, threshold \in Thresholds,
        quiet \in IF command[p] = "session" THEN BOOLEAN ELSE {FALSE} :
       LET say(from, to, history) ==
             report' = [report EXCEPT ![p] =
               Compared(from, to, history, cleanings, threshold, quiet)]
       IN
       \/ /\ command[p] = "session"
          /\ \E from \in seen[p] :
               /\ IsLatest(from, seen[p])
               /\ say(from, current[p], seen[p] \cup {current[p]})
       \/ /\ command[p] = "changes"
          /\ \E from, to \in seen[p] : say(from, to, seen[p])
       \/ UNCHANGED report
          /\ \/ command[p] = "session" /\ seen[p] = {}
             \/ command[p] = "changes"
  /\ seen'    = [seen EXCEPT ![p] = {}]
  /\ current' = [current EXCEPT ![p] = None]
  /\ UNCHANGED <<directory, command, listed, doomed, stops>>

Done(p) == pc[p] = "done" /\ Return(p) /\ UNCHANGED <<directory, stops>>

-----------------------------------------------------------------------------
(* appendSnapshot and pruneSnapshots.                                      *)

\* The temporary file is created, written and synced.
LoadAppend(p) ==
  /\ Loaded(p, "append.load")
  /\ \/ /\ current[p] \notin listed[p]
        /\ current[p].content.bytes =< MaxSnapshotBytes
        /\ Go(p, "publish")
        /\ temps' = temps \cup {p}
        /\ listed' = [listed EXCEPT ![p] = {}]
        /\ UNCHANGED <<command, seen, current, doomed, report>>
     \/ /\ \/ current[p] \in listed[p]
           \/ current[p].content.bytes > MaxSnapshotBytes
        /\ Return(p) /\ UNCHANGED temps
  /\ UNCHANGED <<files, published, stops>>

\* Mutant of Publish: the temporary file stays when the name is taken.
PublishLeavesTemporary(p) ==
  /\ pc[p] = "publish"
  /\ \/ /\ Go(p, "prune.list") /\ UNCHANGED locals
        /\ files' = files \cup {current[p]}
        /\ published' = published \cup {current[p]}
        /\ temps' = temps \ {p}
     \/ /\ current[p] \in files
        /\ Return(p) /\ UNCHANGED directory
  /\ UNCHANGED stops

\* The name is the hash of the snapshot.  One that is there already is refused,
\* or replaced by the same if it came after the look for it.
Publish(p) ==
  /\ pc[p] = "publish"
  /\ \/ /\ Go(p, "prune.list") /\ UNCHANGED locals
        /\ files' = files \cup {current[p]}
        /\ published' = published \cup {current[p]}
     \/ /\ current[p] \in files
        /\ Return(p) /\ UNCHANGED <<files, published>>
  /\ temps' = temps \ {p}
  /\ UNCHANGED stops

\* Mutant of Excess: it keeps the oldest snapshots.
ExcessNewest(S) == {s \in S : Cardinality({t \in S : Before(t, s)}) >= HistoryLimit}

\* What has HistoryLimit snapshots after it goes.
Excess(S) == {s \in S : Cardinality({t \in S : Before(s, t)}) >= HistoryLimit}

LoadPrune(p) ==
  /\ Loaded(p, "prune.load") /\ Go(p, "prune")
  /\ doomed' = [doomed EXCEPT ![p] = Excess(listed[p])]
  /\ listed' = [listed EXCEPT ![p] = {}]
  /\ UNCHANGED <<directory, command, seen, current, report, stops>>

\* The oldest first; one that another process has removed ends the command.
Prune(p) ==
  /\ pc[p] = "prune"
  /\ \/ \E s \in doomed[p] :
          /\ \A t \in doomed[p] \ {s} : Before(s, t)
          /\ \/ /\ s \in files /\ files' = files \ {s}
                /\ doomed' = [doomed EXCEPT ![p] = @ \ {s}]
                /\ UNCHANGED <<pc, command, seen, current, listed, report>>
             \/ s \notin files /\ Return(p) /\ UNCHANGED files
     \/ /\ doomed[p] = {} /\ UNCHANGED files
        /\ \/ /\ command[p] = "session" /\ Go(p, "report")
              /\ UNCHANGED locals
           \/ command[p] = "snapshot" /\ Return(p)
  /\ UNCHANGED <<temps, published, stops>>

-----------------------------------------------------------------------------

\* An I/O error, or the death of the process, which may leave its temporary
\* file behind.
Stop(p) ==
  /\ pc[p] \notin {"idle", "done"} /\ stops < MaxStops
  /\ stops' = stops + 1
  /\ Return(p)
  /\ temps' \in {temps, temps \ {p}}
  /\ UNCHANGED <<files, published>>

\* A history that earlier commands can have left.
Init ==
  /\ files \in {S \in SUBSET Snapshot :
               IsFiniteSet(S) /\ Cardinality(S) =< HistoryLimit /\ Readable(S, 0)}
  /\ temps = {}
  /\ pc      = [p \in Process |-> "idle"]
  /\ command = [p \in Process |-> None]
  /\ seen    = [p \in Process |-> {}]
  /\ current = [p \in Process |-> None]
  /\ listed  = [p \in Process |-> {}]
  /\ doomed  = [p \in Process |-> {}]
  /\ report  = [p \in Process |-> None]
  /\ stops = 0 /\ published = files

AppendNext(p) ==
  LoadAppend(p) \/ Publish(p) \/ LoadPrune(p) \/ Prune(p)

CommandNext(p) ==
  \/ \E c \in {"snapshot", "session", "changes"} : Begin(p, c)
  \/ List(p) \/ LoadFails(p) \/ LoadHistory(p)
  \/ \E s \in Snapshot : Capture(p, s)
  \/ Report(p) \/ Done(p)

Next == \E p \in Process : CommandNext(p) \/ AppendNext(p) \/ Stop(p)

Spec == Init /\ [][Next]_vars

-----------------------------------------------------------------------------
(* Properties.                                                             *)

\* Types.  What a process has read, listed or is to remove was in the
\* directory once, and unless a command ended early every temporary file
\* belongs to a process that is about to rename it.
TypeOK ==
  /\ files \subseteq published /\ published \subseteq Snapshot
  /\ pc \in [Process -> PCs]
  /\ command \in [Process -> {None, "snapshot", "session", "changes"}]
  /\ seen \in [Process -> SUBSET published]
  /\ current \in [Process -> Snapshot \cup {None}]
  /\ listed \in [Process -> SUBSET published]
  /\ doomed \in [Process -> SUBSET published]
  /\ stops \in 0 .. MaxStops
  /\ temps \subseteq Process
  /\ stops = 0 => \A p \in temps : pc[p] = "publish"

\* As many snapshots as the history holds were published that are later.
Exceeded(s) == Cardinality({t \in published : Before(s, t)}) >= HistoryLimit

\* A snapshot is removed only when as many later ones as the history holds
\* were taken: not by a stale listing, another process or a clock that runs
\* backwards (pruneSnapshots: "the oldest").
OldestGo == \A s \in files \ files' : Exceeded(s)

PrunesOnlyOldest == [][OldestGo]_vars

Quiet == \A p \in Process : pc[p] = "idle"

\* The history may have more bytes than a reader accepts, since pruning looks
\* at the number only; but the excess is one snapshot for each process,
\* whether it lives or died: what is too large is never added to.
OversizeByOneEach ==
  \E S \in SUBSET files :
    Cardinality(S) =< Cardinality(Process) /\ Bytes(files \ S) =< MaxBytes

\* What a process is about to print.
Printed == {report[p] : p \in Process} \ {None}

\* A session report that keeps quiet has compared two observations of the
\* same scopes and entries, all of them absent or completely measured both
\* times, in the same directories, and no size differs by more than the
\* threshold (docs/RESIDUE-CONTRACT.md, "Session reports").
SameWithin(b, a, threshold) ==
  \/ b.status = "not-present" /\ a.status = "not-present"
  \/ /\ b.status = "complete" /\ a.status = "complete"
     /\ b.identity = a.identity
     /\ a.bytes - b.bytes \in -threshold .. threshold

QuietIsSafe ==
  \A r \in Printed : r.suppressed =>
    /\ Matching(r.from, r.to)
    /\ \A s \in {r.from, r.to} : Status(s.content) \in {"complete", "not-present"}
    /\ \A i \in DOMAIN Entries(r.to) :
         SameWithin(Entries(r.from)[i], Entries(r.to)[i], r.threshold)

\* Growth and shrinkage are claimed only between complete measurements of one
\* directory, in the right direction; and regrowth only if a snapshot that was
\* taken earlier shows more than there was before the growth.
ClaimsBacked ==
  \A r \in Printed : \A i \in DOMAIN r.changes :
    LET b == Entries(r.from)[i]
        a == Entries(r.to)[i]
        c == r.changes[i]
    IN
    /\ c.kind \in {"growth", "shrink"} =>
         /\ b.status = "complete" /\ a.status = "complete"
         /\ b.identity = a.identity /\ b.identity # None
         /\ c.delta = a.bytes - b.bytes /\ (c.delta > 0 <=> c.kind = "growth")
    /\ c.regrowth =>
         /\ c.kind = "growth"
         /\ \E s \in published :
              /\ s.at < r.from.at /\ i \in DOMAIN Entries(s)
              /\ Entries(s)[i].status = "complete"
              /\ Entries(s)[i].bytes > b.bytes

-----------------------------------------------------------------------------
(* The inductive invariant of the proofs.                                  *)

\* What is captured and appended is a snapshot, published before the pruning.
WorkOK ==
  \A p \in Process :
    /\ pc[p] \in {"append.list", "append.load", "publish"} =>
         current[p] \in Snapshot
    /\ \/ pc[p] \in {"prune.list", "prune.load", "prune"}
       \/ pc[p] = "report" /\ command[p] = "session"
       => current[p] \in published

DoomedOK == \A p \in Process : \A s \in doomed[p] : Exceeded(s)

\* A report compares two snapshots in the light of a published history.
Reported(r) ==
  \E from, to \in Snapshot, history \in SUBSET published,
     cleanings \in SUBSET Time, threshold \in Thresholds, quiet \in BOOLEAN :
    r = Compared(from, to, history, cleanings, threshold, quiet)

ReportsOK ==
  /\ report = [p \in Process |-> report[p]]
  /\ \A p \in Process : report[p] = None \/ Reported(report[p])

IInv == TypeOK /\ IsFiniteSet(published) /\ WorkOK /\ DoomedOK /\ ReportsOK

\* What is too large.  Let the last listing that led to an addition be the
\* point of reference: `extra' tells what each process has published since,
\* and `since' which of them did so after a process listed that is still
\* reading.
ListingOK(p, extra, since) ==
  /\ files \subseteq listed[p] \cup {extra[q] : q \in since[p]}
  /\ p \notin since[p]
  /\ \A q \in since[p] :
       /\ extra[q] # None /\ pc[q] # "publish"
       /\ pc[q] = "append.load" => since[q] \subseteq since[p]

ExtraOK(extra, since) ==
  /\ Bytes(files \ {extra[p] : p \in Process}) =< MaxBytes
  /\ \A p \in Process :
       /\ pc[p] = "publish" => extra[p] = None
       /\ pc[p] = "append.load" /\ extra[p] # None => ListingOK(p, extra, since)

OversizeInv ==
  \E extra \in [Process -> published \cup {None}], since \in [Process -> SUBSET Process] :
    ExtraOK(extra, since)
=============================================================================
