---------------------------- MODULE SampleHistory ----------------------------
(***************************************************************************)
(* The bounded history of samples (src/internal/state/store.go).           *)
(*                                                                         *)
(* Append adds one file to the directory `samples' and removes the oldest  *)
(* ones beyond the bounds; ReadAll returns what is there.  Each command is *)
(* a process of its own and there is no lock.  Every file-system call that *)
(* changes the directory is a step, any call may fail, a failed call is    *)
(* undone by a rollback whose calls may fail too, and the process may die  *)
(* between two calls.                                                      *)
(*                                                                         *)
(* A sample is its capture time, which is also its file name, and its      *)
(* encoded size.  A file with any other name is hidden: a temporary, a     *)
(* placeholder or a backup of some process.                                *)
(***************************************************************************)
EXTENDS HistoryBounds, Sequences

CONSTANTS
  Process,                 \* processes that run `sample', `status', `report'
  Legacies,                \* the samples a current-sample.json may hold
  MaxFaults, MaxCrashes,   \* bounds of the instance
  None

ASSUME HistoryAssumption ==
  /\ Legacies \subseteq Sample
  /\ MaxFaults \in Nat /\ MaxCrashes \in Nat
  /\ None \notin Sample

VARIABLES
  stored,      \* the sample files
  hidden,      \* the other files of the directory
  legacy,      \* the sample in current-sample.json, or None
  pc, answer,  \* per process: its next step, and what its last command returned
  sample,      \* per process: the sample to append
  listed,      \* per process: the directory listing it is reading
  entries,     \* per process: the entries it has read
  prune,       \* per process: the entries to remove
  removed,     \* per process: the entries it has renamed to backups
  faults, crashes,   \* how many there were so far
  published,   \* history: every sample that was ever in the directory
  acked        \* history: every sample whose Append returned nil

directory == <<stored, hidden>>
call      == <<sample, listed, entries, prune, removed>>
history   == <<published, acked>>
vars == <<stored, hidden, legacy, pc, answer, sample, listed, entries, prune,
          removed, faults, crashes, published, acked>>

Kinds  == {"sample", "placeholder", "backup", "restore"}
Hidden == [kind: Kinds, by: Process, sample: Sample]
PCs == {"idle", "legacy.list", "legacy.load", "list", "load", "create", "link",
        "unlink", "unpublish", "retract", "discard", "stage", "placed",
        "rename", "clear", "sync", "rollback", "restore", "return", "recreate",
        "relink", "finish", "withdraw", "abandon", "drop",
        "read.list", "read.load", "read.legacy.list", "read.legacy.load"}

-----------------------------------------------------------------------------
(* Steps.                                                                  *)

Go(p, next) == pc' = [pc EXCEPT ![p] = next]

NoFault  == UNCHANGED faults
Fault(n) == faults + n =< MaxFaults /\ faults' = faults + n

\* The command returns.
Return(p, a) ==
  /\ Go(p, "idle")
  /\ answer'  = [answer EXCEPT ![p] = a]
  /\ sample'  = [sample EXCEPT ![p] = None]
  /\ listed'  = [listed EXCEPT ![p] = {}]
  /\ entries' = [entries EXCEPT ![p] = {}]
  /\ prune'   = [prune EXCEPT ![p] = {}]
  /\ removed' = [removed EXCEPT ![p] = <<>>]

\* A step within Append that changes the directory only.
Step(p, here, next) ==
  /\ pc[p] = here
  /\ Go(p, next)
  /\ UNCHANGED <<legacy, answer, call, crashes, history>>

Temporary(p)   == [kind |-> "sample", by |-> p, sample |-> sample[p]]
Placeholder(p) == [kind |-> "placeholder", by |-> p, sample |-> sample[p]]
Backup(p, e)   == [kind |-> "backup", by |-> p, sample |-> e]
Replica(p, e)  == [kind |-> "restore", by |-> p, sample |-> e]
Backups(p)     == {f \in hidden : f.kind = "backup" /\ f.by = p}

-----------------------------------------------------------------------------
(* Reading: the directory is listed, then every listed file is read.  Any  *)
(* hidden file, and one file too many, refuses the whole history.          *)

Listing == {"legacy.list", "list", "read.list", "read.legacy.list"}
Loading == [l \in Listing |->
             CASE l = "legacy.list"      -> "legacy.load"
               [] l = "list"             -> "load"
               [] l = "read.list"        -> "read.load"
               [] l = "read.legacy.list" -> "read.legacy.load"]

List(p) ==
  /\ pc[p] \in Listing
  /\ \/ /\ hidden = {} /\ Cardinality(stored) =< MaxSamples
        /\ Go(p, Loading[pc[p]])
        /\ listed' = [listed EXCEPT ![p] = stored]
        /\ UNCHANGED <<answer, sample, entries, prune, removed>>
     \/ /\ hidden # {} \/ Cardinality(stored) > MaxSamples
        /\ Return(p, "error")
  /\ UNCHANGED <<directory, legacy, faults, crashes, history>>

\* A listed file that has gone meanwhile fails the read.
LoadFails(p) ==
  /\ pc[p] \in {"legacy.load", "load", "read.load", "read.legacy.load"}
  /\ ~(listed[p] \subseteq stored)
  /\ Return(p, "error")
  /\ UNCHANGED <<directory, legacy, faults, crashes, history>>

\* Append: with a current-sample.json, all of the state is read before the
\* history is read again; its timestamp may not be the new sample's.
Begin(p, s) ==
  /\ pc[p] = "idle"
  /\ Go(p, IF legacy # None THEN "legacy.list" ELSE "list")
  /\ sample' = [sample EXCEPT ![p] = s]
  /\ answer' = [answer EXCEPT ![p] = "none"]
  /\ UNCHANGED <<directory, legacy, listed, entries, prune, removed, faults,
                 crashes, history>>

LegacyLoad(p) ==
  /\ pc[p] = "legacy.load"
  /\ \/ /\ Fits(listed[p]) /\ legacy.at # sample[p].at
        /\ Go(p, "list")
        /\ UNCHANGED <<answer, call>>
     \/ /\ ~Fits(listed[p]) \/ legacy.at = sample[p].at
        /\ Return(p, "error")
  /\ UNCHANGED <<directory, legacy, faults, crashes, history>>

\* The sample is refused when its timestamp is there already, and when it is
\* itself what the bounds would prune.
Load(p) ==
  LET candidate == listed[p] \cup {sample[p]}
      accepted  == /\ Named(listed[p], sample[p].at) = {}
                   /\ sample[p] \in Kept(candidate)
  IN
  /\ pc[p] = "load"
  /\ \/ /\ accepted
        /\ Go(p, "create")
        /\ entries' = [entries EXCEPT ![p] = listed[p]]
        /\ prune'   = [prune EXCEPT ![p] = candidate \ Kept(candidate)]
        /\ UNCHANGED <<answer, sample, listed, removed>>
     \/ ~accepted /\ Return(p, "error")
  /\ UNCHANGED <<directory, legacy, faults, crashes, history>>

\* ReadAll: the history, then the legacy sample (whose reader reads the
\* history once more), and the bounds of both together.
BeginRead(p) ==
  /\ pc[p] = "idle"
  /\ Go(p, "read.list")
  /\ answer' = [answer EXCEPT ![p] = "none"]
  /\ UNCHANGED <<directory, legacy, call, faults, crashes, history>>

ReadLoad(p) ==
  /\ pc[p] = "read.load"
  /\ \/ /\ legacy # None
        /\ Go(p, "read.legacy.list")
        /\ entries' = [entries EXCEPT ![p] = listed[p]]
        /\ UNCHANGED <<answer, sample, listed, prune, removed>>
     \/ /\ legacy = None
        /\ Return(p, IF listed[p] # {} /\ Fits(listed[p]) THEN "ok" ELSE "error")
  /\ UNCHANGED <<directory, legacy, faults, crashes, history>>

ReadLegacyLoad(p) ==
  /\ pc[p] = "read.legacy.load"
  /\ Return(p, IF /\ Fits(listed[p])
                  /\ Fits(entries[p] \cup {legacy})
                  /\ Named(entries[p], legacy.at) = {}
               THEN "ok" ELSE "error")
  /\ UNCHANGED <<directory, legacy, faults, crashes, history>>

-----------------------------------------------------------------------------
(* Append: publication.  A failure before the link removes the temporary;  *)
(* the link itself never replaces a file.                                  *)

Create(p) ==
  \/ /\ hidden' = hidden \cup {Temporary(p)}
     /\ Step(p, "create", "link")
     /\ NoFault /\ UNCHANGED stored
  \/ /\ pc[p] = "create" /\ Fault(1)
     /\ Return(p, "error")
     /\ UNCHANGED <<directory, legacy, crashes, history>>

\* Mutant of Link: the sample is renamed into place, over what is there.
LinkReplacing(p) ==
  \/ /\ pc[p] = "link" /\ Go(p, "unlink")
     /\ stored' = (stored \ Named(stored, sample[p].at)) \cup {sample[p]}
     /\ published' = published \cup {sample[p]}
     /\ NoFault /\ UNCHANGED <<hidden, legacy, answer, call, crashes, acked>>
  \/ /\ Step(p, "link", "discard")
     /\ Fault(1)
     /\ UNCHANGED directory

Link(p) ==
  \/ /\ pc[p] = "link" /\ Go(p, "unlink")
     /\ Named(stored, sample[p].at) = {}
     /\ stored' = stored \cup {sample[p]}
     /\ published' = published \cup {sample[p]}
     /\ NoFault /\ UNCHANGED <<hidden, legacy, answer, call, crashes, acked>>
  \/ /\ Step(p, "link", "discard")
     /\ \/ Named(stored, sample[p].at) # {} /\ NoFault
        \/ Fault(1)
     /\ UNCHANGED directory

\* Mutant of Unlink: a failed removal is ignored.
UnlinkIgnored(p) ==
  /\ Step(p, "unlink", "stage")
  /\ \/ hidden' = hidden \ {Temporary(p)} /\ NoFault
     \/ UNCHANGED hidden /\ Fault(1)
  /\ UNCHANGED stored

Unlink(p) ==
  /\ \/ /\ Step(p, "unlink", "stage")
        /\ hidden' = hidden \ {Temporary(p)} /\ NoFault
     \/ /\ Step(p, "unlink", "unpublish")
        /\ UNCHANGED hidden /\ Fault(1)
  /\ UNCHANGED stored

\* Removals on a failure path are tried twice.
Unpublish(p) ==
  /\ Step(p, "unpublish", "retract")
  /\ \/ stored' = stored \ Named(stored, sample[p].at) /\ NoFault
     \/ UNCHANGED stored /\ Fault(2)
  /\ UNCHANGED hidden

\* The removal of the temporary after a failure, and the deferred one.
Discard(p) ==
  \/ /\ pc[p] \in {"retract", "discard"}
     /\ \/ hidden' = hidden \ {Temporary(p)} /\ NoFault
        \/ pc[p] = "discard" /\ UNCHANGED hidden /\ Fault(2)
     /\ Return(p, "error")
     /\ UNCHANGED <<stored, legacy, crashes, history>>
  \/ /\ Step(p, "retract", "discard")
     /\ Fault(2) /\ UNCHANGED directory

-----------------------------------------------------------------------------
(* Append: pruning.  Every entry to prune is renamed to a backup, whose    *)
(* name is found by creating and removing an empty file; then the backups  *)
(* are removed and the directory is synced.                                *)

Stage(p) ==
  \/ /\ Step(p, "stage", "clear") /\ prune[p] = {}
     /\ NoFault /\ UNCHANGED directory
  \/ /\ Step(p, "stage", "placed") /\ prune[p] # {}
     /\ hidden' = hidden \cup {Placeholder(p)}
     /\ NoFault /\ UNCHANGED stored
  \/ /\ Step(p, "stage", "rollback") /\ prune[p] # {}
     /\ Fault(1) /\ UNCHANGED directory

\* When closing the placeholder fails it is removed as well.
Unplace(p) ==
  /\ \/ /\ Step(p, "placed", "rename")
        /\ hidden' = hidden \ {Placeholder(p)} /\ NoFault
     \/ /\ Step(p, "placed", "rollback")
        /\ \/ hidden' = hidden \ {Placeholder(p)} /\ Fault(1)
           \/ UNCHANGED hidden /\ Fault(2)
  /\ UNCHANGED stored

\* Mutant of Rename: the entry itself is not retained.
RenameForgetful(p) ==
  \/ \E e \in prune[p], f \in stored :
       /\ pc[p] = "rename" /\ f.at = e.at
       /\ stored'  = stored \ {f}
       /\ hidden'  = hidden \cup {Backup(p, f)}
       /\ prune'   = [prune EXCEPT ![p] = @ \ {e}]
       /\ removed' = [removed EXCEPT ![p] = Append(@, None)]
       /\ Go(p, "stage")
       /\ NoFault
       /\ UNCHANGED <<legacy, answer, sample, listed, entries, crashes, history>>
  \/ /\ Step(p, "rename", "rollback")
     /\ Fault(1)
     /\ UNCHANGED directory

Rename(p) ==
  \/ \E e \in prune[p], f \in stored :
       /\ pc[p] = "rename" /\ f.at = e.at
       /\ stored'  = stored \ {f}
       /\ hidden'  = hidden \cup {Backup(p, f)}
       /\ prune'   = [prune EXCEPT ![p] = @ \ {e}]
       /\ removed' = [removed EXCEPT ![p] = Append(@, e)]
       /\ Go(p, "stage")
       /\ NoFault
       /\ UNCHANGED <<legacy, answer, sample, listed, entries, crashes, history>>
  \/ /\ Step(p, "rename", "rollback")
     /\ \/ (\E e \in prune[p] : Named(stored, e.at) = {}) /\ NoFault
        \/ Fault(1)
     /\ UNCHANGED directory

Clear(p) ==
  /\ \/ \E f \in Backups(p) :
          Step(p, "clear", "clear") /\ hidden' = hidden \ {f} /\ NoFault
     \/ /\ Step(p, "clear", "sync")
        /\ Backups(p) = {} /\ UNCHANGED hidden /\ NoFault
     \/ /\ Step(p, "clear", "rollback")
        /\ Backups(p) # {} /\ UNCHANGED hidden /\ Fault(1)
  /\ UNCHANGED stored

Sync(p) ==
  \/ /\ pc[p] = "sync"
     /\ Return(p, "ok")
     /\ acked' = acked \cup {sample[p]}
     /\ NoFault /\ UNCHANGED <<directory, legacy, crashes, published>>
  \/ /\ Step(p, "sync", "rollback")
     /\ Fault(1) /\ UNCHANGED directory

-----------------------------------------------------------------------------
(* Append: rollback.  The new sample is removed and the entries come back  *)
(* in reverse order: by renaming the backup, or else by writing the entry  *)
(* anew from memory and linking it.                                        *)

Rollback(p) ==
  /\ Step(p, "rollback", "restore")
  /\ \/ stored' = stored \ Named(stored, sample[p].at) /\ NoFault
     \/ UNCHANGED stored /\ Fault(2)
  /\ UNCHANGED hidden

Last(s)  == s[Len(s)]
Front(s) == SubSeq(s, 1, Len(s) - 1)

\* The target is looked at first: one that exists, or cannot be looked at, is
\* left alone.
Restore(p) ==
  \/ /\ pc[p] = "restore" /\ removed[p] = <<>>
     /\ Return(p, "error")
     /\ NoFault /\ UNCHANGED <<directory, legacy, crashes, history>>
  \/ /\ removed[p] # <<>>
     /\ Step(p, "restore", IF Named(stored, Last(removed[p]).at) = {}
                           THEN "return" ELSE "drop")
     /\ NoFault /\ UNCHANGED directory
  \/ /\ removed[p] # <<>>
     /\ Step(p, "restore", "drop")
     /\ Fault(1) /\ UNCHANGED directory

RenameBack(p) ==
  LET b == Last(removed[p])
      backup == {f \in Backups(p) : f.sample.at = b.at}
  IN
  /\ pc[p] = "return"
  /\ \/ \E f \in backup :
          /\ Step(p, "return", "drop")
          /\ stored' = (stored \ Named(stored, b.at)) \cup {f.sample}
          /\ hidden' = hidden \ {f}
          /\ NoFault
     \/ /\ Step(p, "return", "recreate")
        /\ \/ backup = {} /\ NoFault
           \/ Fault(2)
        /\ UNCHANGED directory

\* Mutant of Recreate: an entry whose backup is gone is given up.
RecreateNothing(p) ==
  Step(p, "recreate", "drop") /\ NoFault /\ UNCHANGED directory

Recreate(p) ==
  /\ \/ /\ Step(p, "recreate", "relink")
        /\ hidden' = hidden \cup {Replica(p, Last(removed[p]))} /\ NoFault
     \/ /\ Step(p, "recreate", "drop")
        /\ UNCHANGED hidden /\ Fault(1)
  /\ UNCHANGED stored

Relink(p) ==
  LET b == Last(removed[p]) IN
  /\ \/ /\ Step(p, "relink", "finish")
        /\ Named(stored, b.at) = {}
        /\ stored' = stored \cup {b} /\ NoFault
     \/ /\ Step(p, "relink", "abandon")
        /\ UNCHANGED stored
        /\ \/ Named(stored, b.at) # {} /\ NoFault
           \/ Fault(1)
  /\ UNCHANGED hidden

Finish(p) ==
  /\ \/ /\ Step(p, "finish", "drop")
        /\ hidden' = hidden \ {Replica(p, Last(removed[p]))} /\ NoFault
     \/ /\ Step(p, "finish", "withdraw")
        /\ UNCHANGED hidden /\ Fault(2)
  /\ UNCHANGED stored

Withdraw(p) ==
  /\ Step(p, "withdraw", "abandon")
  /\ \/ stored' = stored \ Named(stored, Last(removed[p]).at) /\ NoFault
     \/ UNCHANGED stored /\ Fault(2)
  /\ UNCHANGED hidden

Abandon(p) ==
  /\ Step(p, "abandon", "drop")
  /\ \/ hidden' = hidden \ {Replica(p, Last(removed[p]))} /\ NoFault
     \/ UNCHANGED hidden /\ Fault(2)
  /\ UNCHANGED stored

\* What is left of the backup is removed, and the next entry follows.
Drop(p) ==
  LET backup == {f \in Backups(p) : f.sample.at = Last(removed[p]).at} IN
  /\ pc[p] = "drop" /\ Go(p, "restore")
  /\ removed' = [removed EXCEPT ![p] = Front(@)]
  /\ \/ hidden' = hidden \ backup /\ NoFault
     \/ backup # {} /\ UNCHANGED hidden /\ Fault(2)
  /\ UNCHANGED <<stored, legacy, answer, sample, listed, entries, prune,
                 crashes, history>>

-----------------------------------------------------------------------------

Crash(p) ==
  /\ pc[p] # "idle"
  /\ crashes < MaxCrashes
  /\ crashes' = crashes + 1
  /\ Return(p, "none")
  /\ UNCHANGED <<directory, legacy, faults, history>>

AppendNext(p) ==
  \/ \E s \in Sample : Begin(p, s)
  \/ LegacyLoad(p) \/ Load(p)
  \/ Create(p) \/ Link(p) \/ Unlink(p) \/ Unpublish(p) \/ Discard(p)
  \/ Stage(p) \/ Unplace(p) \/ Rename(p) \/ Clear(p) \/ Sync(p)
  \/ Rollback(p) \/ Restore(p) \/ RenameBack(p) \/ Recreate(p) \/ Relink(p)
  \/ Finish(p) \/ Withdraw(p) \/ Abandon(p) \/ Drop(p)

ReadNext(p) == List(p) \/ LoadFails(p) \/ BeginRead(p) \/ ReadLoad(p) \/ ReadLegacyLoad(p)

\* A history that earlier appends can have left, without or with the state
\* file of an earlier version.
Init ==
  /\ stored \in {S \in SUBSET Sample : Fits(S) /\ NamesDiffer(S)}
  /\ legacy \in Legacies \cup {None}
  /\ legacy # None => /\ Fits(stored \cup {legacy})
                      /\ Named(stored, legacy.at) = {}
  /\ hidden = {}
  /\ pc = [p \in Process |-> "idle"]
  /\ answer = [p \in Process |-> "none"]
  /\ sample = [p \in Process |-> None]
  /\ listed = [p \in Process |-> {}]
  /\ entries = [p \in Process |-> {}]
  /\ prune = [p \in Process |-> {}]
  /\ removed = [p \in Process |-> <<>>]
  /\ faults = 0 /\ crashes = 0
  /\ published = stored /\ acked = stored

Next == \E p \in Process : AppendNext(p) \/ ReadNext(p) \/ Crash(p)

Spec == Init /\ [][Next]_vars

-----------------------------------------------------------------------------
(* Properties.                                                             *)

\* Types.  The names in the directory differ, and what a process has put
\* aside is kept as the entry itself, since it may be written anew from it.
TypeOK ==
  /\ stored \subseteq Sample /\ NamesDiffer(stored)
  /\ hidden \subseteq Hidden
  /\ legacy \in Sample \cup {None}
  /\ pc \in [Process -> PCs]
  /\ answer \in [Process -> {"none", "ok", "error"}]
  /\ sample \in [Process -> Sample \cup {None}]
  /\ listed \in [Process -> SUBSET Sample]
  /\ entries \in [Process -> SUBSET Sample]
  /\ prune \in [Process -> SUBSET Sample]
  /\ removed \in [Process -> Seq(Sample)]
  /\ faults \in 0 .. MaxFaults /\ crashes \in 0 .. MaxCrashes
  /\ published \subseteq Sample /\ acked \subseteq Sample

\* The bounds account for the loss of the file of that time: together with
\* what is newer in some set of entries it was more than the history may hold.
BeyondBounds(t) ==
  \E C \in SUBSET published : Named(C, t) # {} /\ ~Fits(From(C, t))

\* A file leaves the history only because it is beyond the bounds, or because
\* it is the new sample of an append that has failed.  Processes, faults and
\* crashes are arbitrary ("an append prunes only entries outside those bounds").
Accounted ==
  \A e \in stored \ stored' :
    \/ BeyondBounds(e.at)'
    \/ \E p \in Process : /\ pc[p] \in {"unpublish", "rollback"}
                          /\ e.at = sample[p].at

PrunesOnlyBeyondBounds == [][Accounted]_vars

\* A sample whose append has returned nil stays in the history until it is
\* beyond the bounds: two appends at once, or one that fails or dies, do not
\* make each other's samples disappear.
AcknowledgedNotLost == \A s \in acked : s \in stored \/ BeyondBounds(s.at)

Quiet == \A p \in Process : pc[p] = "idle"

\* What Append's rollback is written for: no process has died, and no more
\* than one call has failed.
Sound == crashes = 0 /\ faults =< 1

\* When no command is running nothing is left in the directory but samples:
\* anything else makes every later command fail.
NothingLeftBehind == Sound /\ Quiet => hidden = {}

\* The inductive invariant: an append knows its sample, an entry being
\* restored is there, all that is read or put aside was in the history, and
\* what is pruned is what Load has selected, so that it is beyond the bounds
\* once the new sample is in the history.
Reading   == {"read.list", "read.load", "read.legacy.list", "read.legacy.load"}
Appending == PCs \ ({"idle"} \cup Reading)
Preparing == {"create", "link"}
Restoring == {"return", "recreate", "relink", "finish", "withdraw", "abandon", "drop"}
PuttingAside == Restoring \cup {"stage", "placed", "rename", "clear", "sync",
                                "rollback", "restore"}
Pruning   == PuttingAside \cup {"unlink", "unpublish", "retract"}

WorkOK ==
  \A p \in Process :
    /\ pc[p] \in Appending => sample[p] \in Sample
    /\ pc[p] \in Restoring => removed[p] # <<>>
    /\ pc[p] \notin PuttingAside => removed[p] = <<>>

Known ==
  /\ stored \subseteq published
  /\ \A f \in hidden : f.kind = "backup" => f.sample \in published
  /\ \A p \in Process : listed[p] \subseteq published

PlansOK ==
  \A p \in Process : pc[p] \in Preparing =>
    /\ entries[p] \subseteq published
    /\ prune[p] = (entries[p] \cup {sample[p]}) \ Kept(entries[p] \cup {sample[p]})

Justified(e) == e \in published /\ BeyondBounds(e.at)

PruningOK ==
  \A p \in Process : pc[p] \in Pruning =>
    /\ \A e \in prune[p] : Justified(e)
    /\ \A i \in 1 .. Len(removed[p]) : Justified(removed[p][i])

IInv == TypeOK /\ WorkOK /\ Known /\ PlansOK /\ PruningOK

\* The invariant behind AcknowledgedNotLost: from its link until its append is
\* acknowledged or undone the new sample is in the history and its name is
\* nobody else's, or it is beyond the bounds.  So undoing an append by name
\* takes no acknowledged sample away.
Linked == {"unlink", "unpublish", "stage", "placed", "rename", "clear", "sync", "rollback"}

OwnName(p) ==
  \/ BeyondBounds(sample[p].at)
  \/ /\ sample[p] \in stored
     /\ \A s \in acked : s.at # sample[p].at
     /\ \A q \in Process \ {p} : pc[q] \in Linked => sample[q].at # sample[p].at

LinksOK == \A p \in Process : pc[p] \in Linked => OwnName(p)

AckInv == AcknowledgedNotLost /\ LinksOK

\* The invariant behind NothingLeftBehind: every file that is no sample has a
\* process that is at a step from which it removes it, or has it in its list
\* of what is put aside.
Attended(f) ==
  LET p == f.by IN
  \/ f = Temporary(p) /\ pc[p] \in {"link", "unlink", "unpublish", "retract", "discard"}
  \/ f = Placeholder(p) /\ pc[p] = "placed"
  \/ f = Replica(p, Last(removed[p])) /\ pc[p] \in {"relink", "finish", "withdraw", "abandon"}
  \/ /\ f.kind = "backup" /\ pc[p] \in PuttingAside \ {"sync"}
     /\ \E i \in 1 .. Len(removed[p]) : removed[p][i].at = f.sample.at

LeftInv == Sound => \A f \in hidden : Attended(f)

\* One writer: the history, as it is before and after each append, is the one
\* of AtomicHistory.
Writing == Appending \ {"legacy.list", "legacy.load", "list", "load"}
Settled ==
  IF \E p \in Process : pc[p] \in Writing
  THEN entries[CHOOSE p \in Process : pc[p] \in Writing]
  ELSE stored
Atomic == INSTANCE AtomicHistory WITH kept <- Settled, sound <- Sound

\* An append that returns nil has added its sample and dropped exactly what is
\* beyond the bounds; one that fails, at any one file-system call, leaves the
\* history as it was.
ImplementsAtomicHistory == Atomic!Spec

\* The invariant behind it, of a process that runs alone: what the directory
\* holds at each step of an append, in terms of the entries it began with, the
\* new sample and what it has put aside.
Candidate(p) == entries[p] \cup {sample[p]}
Pruned(p)    == Candidate(p) \ Kept(Candidate(p))
PutAside(p)  == {removed[p][i] : i \in 1 .. Len(removed[p])}
ButLast(p)   == {removed[p][i] : i \in 1 .. Len(removed[p]) - 1}

Acceptable(p) ==
  /\ NamesDiffer(entries[p]) /\ Named(entries[p], sample[p].at) = {}
  /\ sample[p] \in Kept(Candidate(p))

AsideOK(p) ==
  /\ PutAside(p) \subseteq Pruned(p)
  /\ \A i, j \in 1 .. Len(removed[p]) : removed[p][i] = removed[p][j] => i = j
  /\ \A f \in Backups(p) : f.sample \in PutAside(p)

DirectoryOK(p) ==
  /\ pc[p] = "load" => listed[p] = stored
  /\ pc[p] \in {"create", "link", "retract", "discard"} => stored = entries[p]
  /\ pc[p] \in {"unlink", "unpublish"} => stored = Candidate(p)
  /\ pc[p] \in {"create", "link", "unlink"} => prune[p] = Pruned(p)
  /\ pc[p] \in {"stage", "placed", "rename"} =>
       /\ stored = Candidate(p) \ PutAside(p)
       /\ prune[p] = Pruned(p) \ PutAside(p)
  /\ pc[p] \in {"clear", "sync"} =>
       /\ stored = Kept(Candidate(p))
       /\ PutAside(p) = Pruned(p)
  /\ pc[p] = "rollback" => stored = Candidate(p) \ PutAside(p)
  /\ pc[p] \in {"restore", "return", "recreate", "relink"} => stored = entries[p] \ PutAside(p)
  /\ pc[p] \in {"finish", "drop"} => stored = entries[p] \ ButLast(p)
  /\ pc[p] \in Restoring \cup {"rollback", "restore"} => faults = 1
  /\ pc[p] \notin {"withdraw", "abandon"}

AloneInv ==
  Sound => \A p \in Process : /\ pc[p] \in Writing => Acceptable(p)
                              /\ pc[p] \in PuttingAside => AsideOK(p)
                              /\ DirectoryOK(p)
=============================================================================
