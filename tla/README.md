# A TLA+ model of StillMac

StillMac is a command-line program that observes a developer's machine and, on
request, removes two kinds of things: the Go build cache and Git linked
worktrees. This directory holds TLA+ modules that model its core, TLC
configurations that check them on small instances, and proofs checked by TLAPS.

Paths below are relative to the root of the repository; `retire/engine.go`
stands for `src/internal/retire/engine.go`, and so on.

## The system

Every command is one operating-system process that runs one operation and
exits. There is no server, no lock and no shared memory. What commands share is
a private directory of JSON files and the file system itself. So all
concurrency is between overlapping commands (a user, a script, several agents),
between a command and whatever else changes the machine (the owner of a
worktree, Git, other tools), and between a command and its own death. A command
typically validates the private directory, reads records, inspects the machine,
decides, acts, and publishes a record by renaming a temporary file.

| component | state it keeps | operations | interacts with |
|---|---|---|---|
| worktree retirement (`retire/`) | registrations, protection records, plans with their target registries, approvals, receipts, a host ID | Register, Release, Protect, Unprotect, Plan, Approve, Apply, Recover, List, History | Git, the worktrees, the clock |
| cleanup (`cleanup/cleanup.go`) | plans, target registries, receipts, a host ID | Scan, Plan, Apply, History | cache directories, the Go cleaner, protection |
| cleanup protection (`cleanup/protection_management.go`) | protection records and a generation counter | Protect, Unprotect, Protections | Plan and Apply of cleanup |
| Go cleaner (`cleanup/go_cleaner.go`) | none | Bind, Clean | the `go` tool |
| Git inventory (`cleanup/git_inventory.go`) | none | inspection of worktrees, never an action | Git |
| sample history (`state/store.go`) | one file per sample, a legacy current sample | Append, ReadAll, Write, Read | observe, report, baseline |
| residue capture (`residue/engine.go`, `measure.go`) | a scan budget during a capture | Inspect, Snapshot | the file system |
| residue history (`residue/history.go`) | one file per snapshot | append, read, prune | capture, comparison |
| residue comparison (`residue/compare.go`) | none | Changes, SessionReport | residue history |
| baseline (`baseline/status.go`) | none | Build | sample history |
| collector (`observe/collector.go`) | none | Collect | `ps`, `sysctl` |
| doctor, report, command line | none | checks, formatting, argument parsing | all of the above |

What makes each component correct, and what makes that hard:

* **Worktree retirement.** A removal happens only for a plan that the owner
  released and someone approved, only when the worktree is still what was
  planned, and never with local changes; it happens once per plan; what the
  records say afterwards is true and the worktree can be reconstructed. Hard:
  time of check and time of use, overlapping Apply commands, registrations that
  are read, changed and renamed into place by several commands, crashes between
  Git's action, the receipt and the registration, expiry in the middle.
* **Cleanup and protection.** Only a root classified SAFE, unprotected, bound
  to the same host, tool and identity is cleaned; a protection that is
  withdrawn does not revive old plans. Hard: the generation is advanced and the
  record rewritten in two steps, and the counter is read, incremented and
  written without a lock.
* **Sample history.** A sample is appended wholly or not at all, an existing one
  is never replaced, and a failed append leaves the history as it was. Hard:
  a rollback that can itself fail, crash leftovers that make every later read
  fail, limits on number, age and bytes, concurrent appends at the limit.
* **Residue history and comparison.** The history stays readable after every
  append; comparisons treat unknown sizes as unknown. Hard: the bounds of
  reading and of pruning differ, a clock that runs backwards, concurrent
  pruning.
* **Residue capture.** A size that is said to be complete misses nothing, a
  partial one is a lower bound, and no file is counted twice. Hard: others write
  into the trees while they are walked, trees overlap and share one budget, and a
  path may lead through a symbolic link from one call to the next.
* **Baseline, collector.** Arithmetic at boundaries: partial intervals, gaps,
  overflow of counts that come from text. Sampling, in the long run: the history
  is pruned while the baseline needs seven days of it, nothing but the user
  repeats a failed sample, and the clock may have been wrong.

`PROJECT.json` lists the components with their status, and under `hazards` the
places in the code where these things bite.

## Plan

The order puts the operation that destroys data, and has the most concurrency,
first. Modules that carry proofs use no RECURSIVE operator.

1. `WorktreeRetirement`, checked by `MCWorktreeRetirement`, proved in
   `WorktreeRetirementProofs`, and with invariants of their own in
   `WorktreeRecordProofs` (done, below).
2. `SampleHistory` over the pure `HistoryBounds`: Append of the sample store
   with a fault or a crash at each file-system call, several writers, the limits
   and the legacy sample; an abstract `AtomicHistory` (append one, drop the
   oldest, or nothing) that it implements as long as the rollback does not fail
   too; checked by `MCSampleHistory`, proved in `SampleHistoryProofs` (done,
   below).
3. `CleanupProtection`: the protection records and the generation, and
   `CacheCleanup` over it: Scan, Plan and Apply of the Go cache; the statement is
   that a plan acts only under the protection it was made under; checked by
   `MCCacheCleanup`, proved in `CacheCleanupProofs` (done, below).
4. `ResidueCompare` (pure) and `ResidueHistory` over it: Snapshot, SessionReport
   and Changes, append and prune; checked by `MCResidueHistory`, proved in
   `ResidueHistoryProofs` (done, below).
5. `BaselineStatus` and `NativeReadings` (pure), and `SampleBaseline`, which
   composes them with the abstract history of 2: sampling for ever; checked by
   `MCSampleBaseline`, proved in `SampleBaselineProofs` (done, below).
6. `ResidueMeasure`: the walk over the artifact trees of a capture; checked by
   `MCResidueMeasure`, proved in `ResidueMeasureProofs` (done, below).
7. `FiniteSetLemmas`: sums over finite sets and least elements, for the proofs
   that count or add up sizes (done).
8. Still open: a model of the doctor's probe and of the rows of linked worktrees
   in a capture.

The number of runs is kept small: one instance asks as many questions as it can
without a larger state space, and each finding has one of its own.

## Worktree retirement

`WorktreeRetirement.tla` models `src/internal/retire`.

**State.** `wt` is what is at each registered path (absent, a linked worktree,
a prunable entry, or something else), with its head, branch, changes, lock and
an identity `id`, which stands for device and inode numbers, index identity and
tree fingerprint: it grows whenever the worktree is created anew or its index
is rewritten by a commit. `refs` maps branches and tags, numbered in the order
of their names, to commits. `registrations`, `protected`, `plans`, `approvals`
and `receipts` are the record directories; a plan stands for the plan file
together with its target registry, since either is of use only with the other.
`stale` is the set of directories with an abandoned temporary file. `proc` is
what each running command has read so far. `removals` is a history variable:
what Git removed, and under which plan.

Hashes are modelled by what they identify. `RegistrationHash` in a plan is the
registration itself, and a plan is its own identifier because the code derives
the identifier from the content. Receipt identifiers, random in the code, are
positions in the sequence of receipts.

**Actions.** A command is a process that reads in one step (`RegisterRead`,
`ReleaseRead`, `ProtectRead`, `PlanRead`, `ApproveRead`, `ApplyRead`,
`RecoverRead`) and writes in later ones (`WriteRegistration`, ...). Apply and
Recover have a step for each thing another actor can get in between: Apply
loads plan, approval and registration, reads the protection record, inspects
and compares, runs Git, verifies, writes the receipt, writes the registration;
Recover checks, runs Git, verifies, writes the receipt, loads the registration
afresh and writes it. `Abort` ends a command at any step: an I/O error or the
death of the process, which may leave the temporary file behind when it happens
inside a write. The owner commits, edits, locks, moves refs, adds, removes or
replaces worktrees; `Tick` is the clock. Git's own operations are external and
modelled from how the code uses them: a removal without `--force` refuses a
locked worktree and one with modified or untracked files, and one that fails or
runs into the time limit may have done all, half or none of its work.

**Runs.** Each is an instance of the same module.

| run | instance | shows |
|---|---|---|
| `RetirementRace` | two processes, one path, all commands, no owner | TypeOK; `RetiredNamesItsReceipt`; `NoRemovalClaimedTwice`; `UsedPlanNeverRevalidates` |
| `RetirementTarget` | one process, one path; the owner edits, commits, adds, replaces and moves refs | `RemovalsAuthorised`; `ReceiptsReadable`; `UsedPlanNeverRevalidates` |
| `RetirementRecovery` | heads attached and detached, the owner locks, no ref is moved; time passes over both expiries | `RetirementsRecoverable`; `RemovalsAuthorised`; `OneReleaseCoversRemoval` |
| `RetirementAnnotatedTag` | one process, detached heads, tags | the finding below |

The bounds are constants of the module: `MaxPlans` and `MaxReceipts` limit how
many are written, `MaxId` how often a worktree is created or committed to,
`MaxTime` the clock, `Commands` and `OwnerMoves` which commands and owner's
changes an instance has. Two processes are enough for every race between
commands that share a path, because they interact only through records of that
path, and one plan with two receipts is enough to act twice, recover and act
again. The clock's unit is the lifetime of a plan (15 minutes); a release lasts
two units. All properties of this module are safety properties: the code has no
scheduler and promises nothing about when a command ends, so no fairness is
assumed here.
The deadlock check is off in these runs because the system really can stop:
after a crash inside a write the abandoned temporary file refuses every later
command.

**Proofs.** `WorktreeRetirementProofs` proves, for any number of processes,
paths, commits and refs and any lifetimes, `TypeCorrect`, `RetiredNamesReceipt`,
`ReceiptsCanBeRead`, `RemovalsAreAuthorised` and `UsedPlanIsSpent`. The only
assumptions are those of `ConstantAssumption`: among them that a commit contains
itself and that `None` is not a value. None of the properties is inductive by
itself. The invariant `IInv` adds what a process knows at each point of its
command (`ProcOK`), that a worktree that is there has a head (`HeadsOK`), and
`RemovalsPast`: whatever is at the path of a removal now has a greater identity
than what was planned. That last conjunct is what makes `UsedPlanIsSpent` true:
a plan passes the final check only with the identity it recorded. `StepOK`,
`ContinueOK`, `PublishOK` and `OutsideOK` say once what a step must satisfy to
preserve `IInv`; there is one lemma per action on top of them. `IInv` was
checked by TLC on small instances before it was proved. That no main worktree and
no worktree below an agent root is removed has no instance of its own: it is part
of `RemovalsAuthorised`, which is proved.

`WorktreeRecordProofs` stands on `IInv` and adds an invariant for each of three
questions. `ReleaseCoversRemoval`: the three times the clock is
compared with a release belong to three commands, and other commands replace the
registration between them; `ReleaseInv` says what the records and each process
know: a release that is recorded was given in the past, and a READY plan was made
while the release it records was in force. Apply goes on only with the very
registration its plan records, so the last check is about that release.

`RemovalsClaimedOnce`: a count of receipts is not inductive, since a process that Git has told of a removal is still to write one:
`ClaimInv` counts the claims written and pending together, and adds
`WorktreesPast`, that what is at the path of a removal now has a greater identity
than the worktree removed, by which no removal is recorded twice.

`RecoverableUnlessAnnotated`: the object a receipt retains was chosen when the plan
was made, and is compared with the ref when Recover runs, two commands later.
`KeptInv` says what is retained on the way, in plans, in receipts and in what
processes carry. The statement can only be about behaviours in which no ref moves,
`[][UNCHANGED refs]_refs`, since a ref that is moved or deleted is what the check is
there to notice. Under that hypothesis a retirement passes the check if and only if
its head is not kept by an annotated tag, which is the finding below in general;
`RetirementsStayRecoverable` is the property of the run `RetirementRecovery`, for
repositories without annotated tags. All three invariants were checked by TLC before
they were proved.

**Not modelled**: parsing of Git's output, path and permission checks (an
inspection that fails on them is an inspection whose gates do not pass), the
Git configuration check, submodules, host binding, and tampering with the
private files. `List` and `History` only read.

**Finding.**

* A detached worktree that is preserved only by an annotated tag is retired with
  recovery "tracked-commit-only" and can never be recovered
  (`RetirementAnnotatedTag`).

Two more limitations are in the model but have no run. Protection is not read by
Recover, while the contract says that a protected registration cannot be
recovered; Approve does not read it either, Apply does. A release is not bound to
the target it was given for.

## Sample history

`HistoryBounds` is pure: a sample is its capture time, which makes the name of
its file, and its encoded size; `Fits` are the three bounds and `Kept` is what
`historyPrune` keeps. `SampleHistory.tla` models `Append` and `ReadAll` of
`src/internal/state/store.go` over them.

**State.** `stored` are the sample files, `hidden` every other file of the
directory: the temporary of a new sample, the empty placeholder whose name
becomes that of a backup, a backup, and the temporary from which an entry is
written anew. `legacy` is the sample of `current-sample.json`, the state file of
an earlier version. Each process has its next step `pc` and the locals of the
Go functions: the sample, what the directory listing and the files gave, what to
prune, and the `backups` of `rollbackHistory` (`removed`). `published` and
`acked` are history variables.

**Actions.** One per file-system call that changes the directory, in the order
of the code: create the temporary, link it, unlink it; per pruned entry create
the placeholder, remove it, rename the entry to its name; then remove the
backups and sync. Reading is two steps, the listing and the files, so that a
file may vanish in between. Any call may fail. A failure starts the rollback:
remove the new sample, then for the backups in reverse order look at the
target, rename back, or else write the entry anew from memory and link it.
`removeOrReport`, which the failure paths use, tries a removal twice, so such a
failure counts as two faults (`Fault(2)`). `Crash` ends the process at any step.

**Runs.**

| run | instance | shows |
|---|---|---|
| `HistoryFaults` | one process, up to seven faults, a crash, a legacy sample, sizes 1 and 2 | `TypeOK`; `PrunesOnlyBeyondBounds`; `ImplementsAtomicHistory`; `NothingLeftBehind` |
| `HistoryConcurrent` | two processes, no fault, one crash | `AcknowledgedNotLost`; `PrunesOnlyBeyondBounds` |

Bounds: `Time` has three or four instants around `MaxAge`, so that a sample can
be inside, at and beyond the age limit; in `HistoryFaults` the age and, by two
sizes, the bytes drop entries that the number does not, in `HistoryConcurrent` it
is the number; one append can prune more than one entry. Seven faults are what the longest chain of failing
calls needs: a failed sync, a failed removal of the new sample, and a
restoration whose rename and writing fail. Commands repeat without a limit; the
state space is finite because there are finitely many samples. The deadlock
check is on: a process can always begin another command.

`ImplementsAtomicHistory` is the refinement of `AtomicHistory`. The mapping
`Settled` is the directory between appends, and during one what the append has
read: the abstract append happens with the last step. It holds for one writer,
and as long as at most one call failed and nothing crashed (`Sound`), which is
what the code's rollback is written for; the abstract history promises nothing
once `sound` is false. With two faults the rollback itself may fail, and two
writers can leave an overfull history; `PrunesOnlyBeyondBounds` and `AcknowledgedNotLost` say what is left of
the promise then.

**Proofs.** `SampleHistoryProofs` proves `TypeCorrect` and `PruningIsBounded`
for any number of processes, samples, faults and crashes and any bounds:
a sample file goes away only if it is beyond the bounds or is the new sample of
an append that failed. The action property is not a consequence of the types.
`IInv` adds what an append knows (`WorkOK`), that all that is read or put aside
was once in the directory (`Known`), that the entries to prune are those that
`Load` selected (`PlansOK`), and that from the link on each of them is beyond
the bounds (`PruningOK`). That the bounds themselves are right is not used: the
proof holds for any predicate in place of `Fits`, while TLC checks `Fits` through
`ImplementsAtomicHistory`. The other three have an invariant of their own on top:

* `AcknowledgedStays`, with `AckInv`: from the link on, an append's sample is in
  the history and nobody else's name, as long as it is within the bounds. That is why
  a rollback, which removes by name, can only remove its own sample.
* `NothingIsLeft`, with `LeftInv`: every temporary file and backup is attended, by a
  process at a step from which it goes on to remove the file, or by one that has it
  in its list of what is put aside.
* `AppendIsAtomic`, with `AloneInv`: what the directory looks like at each step of
  an append and of its rollback, in terms of what was read. Every step maps to
  a stutter, but the one with which a successful append ends, which is
  `AppendSample`, and the one that makes the history unsound. The hypothesis is one
  process (`Process = {p}`), as in the run: with two writers the statement is
  false, because the second prunes by a listing that the first has made stale.

`BeyondBounds` counts every sample that ever had its name in the directory, one
whose append was undone later included: another append may have read it in the
meantime and pruned because of it.

**Not modelled**: `Write`, which no command calls; opening the directories, file
modes, links and decoding; what a file system loses when the power fails before
a sync; read errors other than a file that has gone.

Three limitations are in the model but have no run. Two appends that find one
place free both succeed, because Append prunes what it read before it publishes and
takes no lock: the directory then has one file more than any reader accepts, and
every later command fails, although `docs/V0.1-TRACER-CONTRACT.md` (line 95) says
that the history is bounded. An append that is killed leaves a temporary file or a backup that every later command refuses. A legacy
sample makes every `ReadAll` fail once the history is full or has moved on by 14
days, although Append goes on.

## Cleanup of the Go cache

`CleanupProtection.tla` models the protection records and the generation
(`cleanup/protection_management.go`, and Protect and readProtected of
`cleanup/cleanup.go`); `CacheCleanup.tla` extends it with Scan, Plan and Apply of
`cleanup/cleanup.go` and Bind and Clean of `cleanup/go_cleaner.go`.

**State.** `records` are the protection records by candidate, each with the inode
of its file, because Unprotect rewrites the file it has open and Protect renames
another one into its place. A record is malformed between the truncation and the
tombstone. `generation` is the counter in `protection-generation.json`, `host`
the identity in `host.json`; `plans` and `receipts` are the directories of these
names, a plan together with its target registry; `litter` is where a temporary
file was left behind. `cache` is what is at the cache root, `tool` the installed
Go tool, of which a binding is the number. Each process has its next step `pc`
and what it has read. The history variables `lifted`, `overlapped`, `valid` and
`since` say how often a protection was lifted, beside which commands an
Unprotect ran, and whether the plan was valid and the cache protected when an
Apply began.

**Actions.** Each read and each write of a shared file is a step of its own.
Protect reads the records and renames a new one into place. Unprotect looks the
protection up, opens the record and reads it, reads the generation, writes it
increased by one, truncates the record and writes the tombstone. Plan works on a
scan that may be as old as the user's answer to a prompt: it reads or makes the
host identity, reads the generation, binds the cache and the tool, and writes
the plan. Apply checks state, expiry and host, then the generation, then the
protection, then inspects the cache, binds the tool once more, runs it, measures
and writes the receipt. `Abort` and `Stop` end a command between any two steps,
with an error or because the process dies, which may leave a temporary file in
the directory it was writing to. The temporary file of a process that is alive
can make another command fail too; that is one of the errors of `Abort` and
`Stop`. `Machine` changes the cache and the tool, `Tick` the clock.

**Runs.**

| run | instance | shows |
|---|---|---|
| `CleanupRace` | two processes protect and unprotect, one plans and applies | `TypeOK`; `ReceiptsReadable`; `ProtectedIsSpared`; `CleansOnlyOnValidPlan` |
| `CleanupUnprotect` | one of each | the finding below |

Two keepers are what a lost update of the generation needs. `MaxGeneration` is 2,
so that the counter is exhausted, `MaxInodes` limits the records that are written
to two, so that a record can be replaced under an Unprotect, and one plan lives
for one tick of the clock. `MaxLitter` is the number of directories with an
abandoned file. Nothing is assumed to be fair: all properties are safety
properties. The deadlock check is off because the program can come to a stop: an
abandoned temporary file is refused for ever.

**Proofs.** `CacheCleanupProofs` proves, for any processes, candidates, caches,
tools and bounds, `TypeCorrect`, `ReceiptsCanBeRead`, `ProtectedCacheIsSpared`
and `NoPlanIsRevived`. The assumptions are `ProtectionAssumption`,
`CleanupAssumption` and `MachineAssumption`: ranges of the constants, and that
`None` is no value. The invariant `IInv` is needed because the generation alone
proves nothing: a lost update takes it back. What is inductive is that the
generation is ahead of the one of a plan as soon as a protection was lifted since
the plan (`GenerationsOK`), and that no update that is still pending would take
it back there (`PendingOK`); that holds for plans beside whose making no
Unprotect ran. `ChecksOK` and `SinceOK` are what an Apply knows after each of its
checks, `BindingOK` that the generation a Plan has read is still the present
one. `WorkerStep` and `KeeperStep` say once what a step must satisfy to preserve
`IInv`. TLC checked `IInv` in the instance of `CleanupRace` first.

**Not modelled**: the classification of the other candidates, which can be
protected but never cleaned; hashes and the integrity checks of the private
files; file modes and links; a generation file that cannot be decoded; the bytes
of a cache that cannot be measured, which count as none.

**Finding.** Apply reads the generation before the protection, and Unprotect
writes them in the same order. An Apply that begins while an Unprotect is running
can see the old generation and no protection any more, and clean with a plan that
is older than the protection (`CleanupUnprotect`).

## Residue

`ResidueCompare` is pure: what `compareEntry`, `compareReports`, `canSuppress` and
`regrowthEvidence` of `residue/compare.go` and `captureStatus` of
`residue/engine.go` say of two snapshots. `ResidueHistory.tla` models the
commands Snapshot, SessionReport and Changes over them, with `appendSnapshot`,
`readSnapshotsBounded` and `pruneSnapshots` of `residue/history.go`.

**State.** `files` are the snapshots in the directory, `temps` the processes of
which a temporary file is there. A snapshot is a capture time and a content: the
bindings of its scopes, its entries with kind, size status, bytes and identity,
the size of its encoding, and the rank of its identifier among the others. Each
process has its next step `pc`, its `command`, the history it has `seen`, its
`current` capture, the directory it has `listed`, what it is going to prune
(`doomed`) and the `report` it is about to print. `published`, a history
variable, is every snapshot that was ever in the directory.

**Actions.** `List` and the loads are two steps, so that a listed file may vanish
in between; a temporary file of any process makes a listing fail. `Capture`
takes any time and any content: nothing in the code requires the clock to
advance. `LoadAppend` looks for a duplicate and writes the temporary file,
`Publish` renames it, `LoadPrune` chooses what has `HistoryLimit` later snapshots
and `Prune` removes it one at a time, the oldest first. A reader for pruning
accepts one entry and the bytes of one snapshot more than every other
(`Extra`). `Report` compares; the times of the cleaning receipts, the threshold
and the request to be quiet are chosen there. `Stop` ends a command at any step,
with an error or because the process dies, which may leave its temporary file.

**Runs.**

| run | instance | shows |
|---|---|---|
| `ResidueRace` | two processes, four instants, one content, history of one | `TypeOK`; `PrunesOnlyOldest` |
| `ResidueClaims` | one process, three instants, six contents, history of two | `QuietIsSafe`; `ClaimsBacked`; `OversizeByOneEach` |

The six contents are a small and a large complete cache, one measured in part,
one that is absent, one in another directory, and one of two scopes with a
linked worktree: each branch of `CompareEntry`, `Compare` and `Status` is met by
some pair of them. Three instants are what a claim of regrowth needs, a receipt
between two snapshots and a third snapshot after them. A history of one makes every
append prune, so that two processes prune at once, with listings that the other
has made stale. `MaxPublished` limits the snapshots, `MaxStops` the commands that
end early. Nothing is assumed to be fair. The deadlock check is off because a
temporary file that is left behind, and in the instance also the limit on
snapshots, really stops every command.

**Proofs.** `ResidueHistoryProofs` proves, for any processes, times, contents and
bounds, `TypeCorrect`, `OldestArePruned`, `QuietReportsAreSafe` and
`ClaimsAreBacked`, from `CompareAssumption` (contents are what `validateSnapshot`
accepts, and identifiers differ) and `ResidueAssumption` (ranges of the
constants). `OldestArePruned` needs that what a process dooms stays exceeded
(`DoomedOK`) while others publish and prune; it does because it counts what was
published, which only grows, although the directory itself shrinks. The other
two rest on `ReportsOK`: each report compares two snapshots in the light of a
published history; what it then says is a matter of `SuppressedIsSafe` and
`ClaimIsBacked`, lemmas about the pure module. TLC checked `IInv` first, in
smaller instances.

`OversizeIsBounded` proves `OversizeByOneEach`, for any finite number of processes:
an append refuses a history that it cannot read, so that the directory exceeds what
a reader accepts by the snapshots of the appends that run at once and by no more.
This is no invariant of the directory alone, since a process may publish on the
strength of a listing that others have long added to. `OversizeInv` takes the last
listing that led to an addition as the point of reference, from which on every
process has published at most once (`extra`), and remembers for a process that is
about to follow who published after its own listing (`since`): when it publishes, its
listing becomes the new point of reference.

**Not modelled**: file modes and links, decoding; what Capture measures is the
next section, here a content is chosen as a whole.

Some limitations are in the model but have no run. Pruning looks at the number of
the snapshots only (`history.go:275`): large snapshots, within their number, take
the history beyond the bytes that a reader accepts, and then no command can read,
append or prune any more, although `docs/RESIDUE-CONTRACT.md` (line 106) says that
the files are bounded by count and total bytes. `OversizeByOneEach` says how far
beyond the bound it can get. The size of an encoding is
tested before its newline is added. The temporary file of one command makes the
pruning of another fail after its snapshot was stored. A claim of regrowth rests on
the times of receipts, which are those of the beginning of a cleaning. And because
the entry of a linked worktree is never measured, a report with one in its scope is
never "complete", so that it is never kept quiet.

## Measurement of artifact trees

`ResidueMeasure.tla` models `measureTree` of `residue/measure.go` for the trees of
one capture, one after the other, and how `mergeEntrySize`, `captureStatus` and
`totalSize` of `residue/engine.go` make their total.

**State.** `fs` is the file system: what is at each path, a directory, a symbolic
link, something special, a file with its inode, or nothing; `size` is by inode, so
that hard links are paths with one inode. A path is known by the paths above it
(`Above`). `turn` is the tree that is measured, `stage` and `at` the next call, and
`todo` the paths that are still to be visited: the recursion of `visit` without
its order, since the order of ReadDir means nothing to what is counted. `items`,
`bytes` and `late` are the budget that all trees share; `files`, `visited` and
`flags` belong to one tree; `statuses` and `total` to the report. `last` is a
history variable, the turn in which others last changed a path.

**Actions.** Each Lstat and each ReadDir is a step of its own: `NoTree` and
`OpenTree` look at the root, `StopAtBound` is the end of time or items, `Skip`,
`Enter` and `Count` are the Lstat of an entry that is no use, a directory or a
file, `Read` is the ReadDir of the directory entered, and `Finish` concludes the
tree and adds it to the total. Every call may be refused (`Denied`). Between any
two of them others put anything at any path that can be reached (`Put`), write a
file under all its names (`Write`), and the time runs out. Lstat follows links
above the last component and ReadDir follows all of them; behind a link anything
may be found.

**Run.** `ResidueMeasure` has two roots, one in the other, so that each file of
the inner tree is met twice; two inodes and two sizes; beginnings with two files,
with one file of two names, and with a directory that is too deep; and two changes
by others (`MaxChanges`), which is what replacing a directory and putting something
in it needs. `MaxItems` is 6 and `MaxBytes` 5, so that each bound is reached in the
first tree, in the second, or not at all. No fairness is assumed; the deadlock
check is off because a capture ends.

* `CompleteCoversUntouched`: a tree that is said to be complete has every file
  that nobody touched since its walk began (neither the file nor anything above
  it), with its size.
* `NothingOverstated`: while nobody touches anything, what is counted is there.
* `TotalCountsOnce`: a file of both trees is in the bytes of the total once.
* `TotalCovers`: a total that is said to be complete has every file of every tree
  that nobody touched.

**Proofs.** `ResidueMeasureProofs` proves `TypeCorrect`, `CompleteAlwaysCovers`,
`NeverOverstated` and `TotalAlwaysCovers` for any paths, roots, sizes, limits and
number of changes, from `MeasureAssumption`: above is a tree, with every directory
between two paths among the paths. The invariant (`IInv`, checked by TLC first)
needs `Covered`: a file is counted, or it or a directory above it is still to be
visited, or the tree is flagged. What keeps it when a directory leaves `todo` is
that an untouched file makes everything above it a directory, so that ReadDir has
listed the next component. `Totalled` is the same for the trees that are done.
`TotalAlwaysCountsOnce` says that the total is the sum of what it counted, with the
`mergeEntrySize` of each tree adding only what is new. What a fold over a finite set
yields is an induction over data, for which no library theorem can be used here;
`FiniteSetLemmas` does it with least counterexamples, and says what a proof about
sums needs: that they exist, and how they change with one element or a disjoint set.
`OversizeIsBounded` uses the same lemmas.

**Not modelled**: identities and fingerprints, which come from different calls than
the bytes; the checks of a scope before its trees; linked worktrees, which are rows
without a size; negative sizes and a sum beyond 64 bits, which the byte bound
excludes.

## Sampling and the baseline

`NativeReadings` is pure: what `parseProcessLine`, `parseElapsed`, `parsePressure`,
`parseSwapUsed` and `parseByteQuantity` of `observe/collector.go` make of the
numbers in the output of `ps` and `sysctl`, with 64-bit arithmetic as it is in the
code (`Wrapped`, `Signed`), and what `validSample` of `state/store.go` accepts.
`BaselineStatus` is pure: Build of `baseline/status.go`, with the division of Go,
which rounds towards zero. `SampleBaseline.tla` composes both with the history:
the command `sample` of `cli/app.go`, over and over, and what `status` then says.
An append is `AppendSample` of `AtomicHistory`, which `SampleHistory` implements.

**State.** `kept` is the history, `draft` what a running `sample` has collected and
`stage` what it does next; `misses` are the failures of native commands in a row.
`clock` is the time of day, `skew` how far the machine's clock is ahead, `since`
the ticks since the last `sample`; `honest` is a history variable. Time does not
end: at midnight every time is moved a day back (`DayBack`), which changes nothing
that status says of a history, since a day is a whole number of intervals.

**Actions.** `Invoke`; one action for each native command that gives what is
recognised (`CollectProcesses`, `CollectPressure`, `CollectSwap`, where the capture
time is taken) and one for each that fails or gives something else (`...Missed`);
`Store`, or `StoreRefused` when the sample is not valid, its time is taken, or it is
itself what the bounds would drop. `Tick` and `SetClock` are time.

**Run.** `SampleBaseline`, with all properties. The numbers of the code are scaled
down and keep their order: 30 minutes, a day, 7 days and 14 days are 1, 2, 3 and 6
seconds of two ticks (`Interval`, `Day`, `TargetSpan`, `MaxAge`), so that times have
fractions; `MaxSamples` is 5. `Pause` and `Late` are the least and greatest time
between two runs of `sample`, `Slow` what one run takes, `MaxMisses` the native
failures in a row. The clock may be ahead by more than `MaxAge` at first (`Jump`),
when at most `MaxWrong` samples are stored. The rows and quantities are at the
bounds: the greatest elapsed time and one second more, a process number of 0,
halves of a byte. Calendar days are checked in one time zone, as the code formats
UTC.

* `CollectedIsValid` and `ReadingsExact`: whatever is printed, what Collect accepts
  the store accepts, and no number has been bent on the way.
* `StatusTellsTheTruth`: ready means covered, as a statement on times alone.
* `ReadyStays`: while the clock is right, pruning never takes coverage back. This
  depends on the numbers: with `Pause` = 1 the bound on the number of samples drops
  what the span needs, as 672 samples taken faster than every 15 minutes would.
* `CoverageReached`: from some time on the history is always covered.

The fairness of `FairSpec` is what the program leaves to its user: time passes,
whoever runs `sample` does so in time and lets it go on (the bounds `Late` and
`Slow` are guards of `Tick`), and a wrong clock is set right at some time. The
native commands may fail `MaxMisses` times in a row, and no more. Without these
nothing is promised, and the code has no retry of its own.

**Proofs.** `SampleBaselineProofs` proves `TypeCorrect`, `CollectedAlwaysValid`,
`ReadingsAlwaysExact` and `StatusAlwaysTrue` for all constants: any width of the
integers, any outputs, any interval, day and target. The assumptions are
`ReadingsAssumption`, `BaselineAssumption`, `ScheduleAssumption`,
`OutputsAssumption` (two processes of one output differ in their numbers) and
`DayAssumption` (midnight is the end of an interval, which lets days be moved
back). `StatusAlwaysTrue` rests on `BucketIsFloor`, `ElapsedIsFloor` and
`ProgressBounds`, which say of the arithmetic of Go what mathematics says. The
invariant `Coherent` adds to the types what was read so far (`Drafted`), and that
the history is finite, without which it would have no first and last sample.

`ReadyAlwaysStays` proves `ReadyStays` from one more hypothesis, `Disciplined`, which
relates the constants of the schedule to those of the bounds, and without which the
code does not keep what was achieved. With the numbers of the code it says that two
runs of `sample` are at least 15 minutes apart (671 pauses span seven days), that two
samples stored one after the other are at most two hours apart, failures included
(four intervals: 84 of the 336 in seven days must be met; the day and the seven days
that the age limit leaves ask for less), and that 672 samples of the largest size fit
in 128 MiB (at most 195 KiB each, where the store takes 2 MiB). A sample every 30
minutes, the interval `status` expects, is well within. `MCSampleBaseline` assumes
`Disciplined` as well, so the run shows that its instance satisfies it.

The argument: `InStep` says, while the clock is right, that the samples from any one
on have taken at least their number of pauses (`Spaced`), that none is followed by a
larger gap than `Gap` (`Chained`), and that the last one is no older than the failures
since explain (`Recent`). It is inductive together with `Coherent`: a new sample is
later than all others, so it is never refused, and pruning keeps the later ones. When
something is dropped, what is kept either has `MaxSamples` elements, whose pauses span
the target, or reaches back to within `Gap` of the age limit (`DroppedCovers`); the
bytes are never the tighter bound (`BytesFit`, by `SumBounded` of `FiniteSetLemmas`).
A chain that spans the target meets enough days and intervals, since from one sample
to the next no more than a `Stride` of them is left out (`StepsCounted`,
`SpreadEnough`). TLC checked `InStep` on the instance of the run before the proof.

`CoverageReached` is liveness and is model-checked only.

**Not modelled**: splitting text into columns, safe names, fractions of a percent,
parsing of times, two `sample` commands at once (the history of two writers is
`SampleHistory`).
