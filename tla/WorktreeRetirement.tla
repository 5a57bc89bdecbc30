------------------------- MODULE WorktreeRetirement -------------------------
(***************************************************************************)
(* The retirement of Git linked worktrees (src/internal/retire).           *)
(*                                                                         *)
(* Every command of the program is a process of its own: it validates the  *)
(* private state directory, reads what it needs, decides, and publishes    *)
(* its result by renaming a temporary file into one of six record          *)
(* directories.  There is no lock.  A command is therefore modelled as a   *)
(* process that reads in one step and writes in a later one, and between   *)
(* the two other commands, the owner of the worktree and Git may act, and  *)
(* the process may stop.                                                   *)
(*                                                                         *)
(* Hashes are modelled by what they stand for: a registration hash is the  *)
(* registration, and a plan, which is addressed by its own content, is its *)
(* own identifier.  A receipt has a random identifier; here it is the      *)
(* position at which the receipt was written.                              *)
(***************************************************************************)
EXTENDS Integers, Sequences, FiniteSets

CONSTANTS
  Procs,        \* processes that run commands
  Paths,        \* registered paths; a registration ID is a hash of its path
  AgentRoots,   \* the paths below an agent's own directory
  Main,         \* the main worktree, if it is one of the paths, or None
  Commits,      \* commit objects
  Contains,     \* <<a, b>>: commit a is b or has b among its ancestors
  NumRefs,      \* branches and tags, numbered in the order of their names
  Annotated,    \* the refs that are annotated tags
  PlanTTL, ReleaseTTL,
  Commands,     \* the commands users run in this instance
  OwnerMoves,   \* the changes the owner makes in this instance
  MaxTime, MaxId, MaxPlans, MaxReceipts,   \* bounds of the instance
  None

Refs == 1 .. NumRefs
Branches == Refs \ Annotated     \* those a worktree can have checked out

ASSUME ConstantAssumption ==
  /\ AgentRoots \subseteq Paths
  /\ Contains \subseteq Commits \X Commits
  /\ \A c \in Commits : <<c, c>> \in Contains
  /\ NumRefs \in Nat /\ Annotated \subseteq Refs
  /\ PlanTTL \in Nat \ {0} /\ ReleaseTTL \in Nat \ {0}
  /\ MaxTime \in Nat /\ MaxId \in Nat /\ MaxPlans \in Nat /\ MaxReceipts \in Nat
  /\ None \notin Procs \cup Paths \cup Commits \cup Int
  /\ None \notin {"commit", "tag"} \X Commits

VARIABLES
  now,            \* wall clock, in units of PlanTTL
  \* --- the repository and its worktrees (Git and the file system) ---
  wt,             \* per path: what is there
  refs,           \* per ref: the commit it resolves to, or None
  \* --- private state, one directory per variable ---
  registrations, protected, plans, approvals, receipts,
  stale,          \* directories that hold an abandoned temporary file
  \* --- processes ---
  proc,           \* per process: the command it runs and what it has read
  removals        \* history: the worktrees Git removed, with the plan

world == <<wt, refs>>
files == <<registrations, protected, plans, approvals, receipts>>
vars  == <<now, wt, refs, registrations, protected, plans, approvals,
           receipts, stale, proc, removals>>

-----------------------------------------------------------------------------
(* Types.                                                                  *)

Kinds    == {"absent", "linked", "prunable", "occupied"}
Dirt     == {"clean", "changed", "ignored"}
OIDs     == {"commit", "tag"} \X Commits
Dirs     == {"registrations", "protected", "plans", "approvals", "receipts"}
Decisions == {"RETIRED", "PROTECTED", "BLOCKED", "REVIEW", "READY"}
Results  == {"removed", "blocked_changed", "native_action_failed",
             "action_unverified", "recovered", "recovery_failed"}
Opt(S)   == S \cup {None}

Worktree == [kind: Kinds, head: Opt(Commits), branch: Opt(Refs),
             dirt: Dirt, locked: BOOLEAN, id: Nat]
Snapshot == [head: Opt(Commits), branch: Opt(Refs), ref: Opt(Refs),
             oid: Opt(OIDs), id: Nat]
Registration == [registeredAt: Nat, expires: Opt(Nat), retired: BOOLEAN,
                 last: Nat, snap: Snapshot]
Plan    == [path: Paths, reg: Registration, snap: Snapshot,
            decision: Decisions, expires: Nat]
Receipt == [op: {"retire", "recover"}, result: Results, plan: Plan,
            head: Opt(Commits), ref: Opt(Refs), oid: Opt(OIDs)]
Removal == [plan: Plan, was: Worktree]

PCs == {"idle", "register.write", "release.write", "protect.write",
        "plan.write", "approve.write",
        "apply.protection", "apply.inspect", "apply.remove", "apply.verify",
        "apply.receipt", "apply.register",
        "recover.add", "recover.verify", "recover.receipt", "recover.load",
        "recover.register"}

Process == [pc: PCs, path: Opt(Paths), reg: Opt(Registration),
            plan: Opt(Plan), receipt: Opt(Receipt), rid: Nat, flag: BOOLEAN]

Idle == [pc |-> "idle", path |-> None, reg |-> None, plan |-> None,
         receipt |-> None, rid |-> 0, flag |-> FALSE]

NoSnapshot == [head |-> None, branch |-> None, ref |-> None, oid |-> None,
               id |-> 0]

-----------------------------------------------------------------------------
(* Inspection of a worktree.  `here' tells whether the command runs in a   *)
(* directory below the worktree.                                           *)

\* The object a ref names: for an annotated tag this is the tag object.
ObjectName(r) == <<IF r \in Annotated THEN "tag" ELSE "commit", refs[r]>>

\* The commit a ref resolves to (rev-parse ref^{commit}).
Resolved(r) == <<"commit", refs[r]>>

\* The refs `for-each-ref --contains' lists for a commit.
RefsContaining(c) == {r \in Refs : refs[r] # None /\ <<refs[r], c>> \in Contains}

First(S) == CHOOSE r \in S : \A s \in S : r =< s

\* Mutant of Preserved: it retains the head itself, not the object the ref names.
PreservedHead(w) ==
  LET containing == RefsContaining(w.head)
      r == IF w.branch # None THEN w.branch
           ELSE IF containing # {} THEN First(containing) ELSE None
  IN  [ref |-> r, oid |-> IF r = None THEN None ELSE <<"commit", w.head>>]

\* The reference that keeps the head reachable, and the object ID retained
\* for it: the checked-out branch, or else the first ref that contains it.
Preserved(w) ==
  IF w.branch # None
  THEN IF refs[w.branch] = w.head
       THEN [ref |-> w.branch, oid |-> Resolved(w.branch)]
       ELSE [ref |-> None, oid |-> None]
  ELSE IF RefsContaining(w.head) # {}
       THEN LET r == First(RefsContaining(w.head))
            IN  [ref |-> r, oid |-> ObjectName(r)]
       ELSE [ref |-> None, oid |-> None]

\* The gates whose failure ends the inspection early.
EarlyGates(p, here) ==
  /\ p \notin AgentRoots /\ p # Main
  /\ wt[p].kind = "linked"
  /\ ~here
  /\ ~wt[p].locked

\* Mutant of GatesPass: a head that no ref preserves passes.
GatesPassUnpreserved(p, here) ==
  EarlyGates(p, here) /\ wt[p].dirt = "clean"

GatesPass(p, here) ==
  /\ EarlyGates(p, here)
  /\ wt[p].dirt = "clean"
  /\ Preserved(wt[p]).ref # None

\* What an inspection binds.  `id' stands for the file identities and the
\* tree fingerprint: it changes whenever the worktree is created anew or its
\* index is rewritten by a commit.
TakeSnapshot(p, here) ==
  IF wt[p].kind \notin {"linked", "prunable"} \/ p \in AgentRoots
  THEN NoSnapshot
  ELSE IF ~EarlyGates(p, here)
  THEN [NoSnapshot EXCEPT !.head = wt[p].head, !.branch = wt[p].branch]
  ELSE [head |-> wt[p].head, branch |-> wt[p].branch,
        ref |-> Preserved(wt[p]).ref, oid |-> Preserved(wt[p]).oid,
        id |-> wt[p].id]

\* Mutant of ReleaseValid: the expiry instant still counts.
ReleaseValidTooLong(reg, t) == reg.expires # None /\ t =< reg.expires

ReleaseValid(reg, t) == reg.expires # None /\ t < reg.expires

Decision(reg, pass, prot) ==
  IF reg.retired THEN "RETIRED"
  ELSE IF prot THEN "PROTECTED"
  ELSE IF ~pass THEN "BLOCKED"
  ELSE IF ~ReleaseValid(reg, now) THEN "REVIEW"
  ELSE "READY"

\* Receipts that can be read back.
Recovery(r) == IF r.head # None /\ r.ref # None /\ r.oid # None
               THEN "tracked-commit-only" ELSE "none"

ValidReceipt(r) ==
  \/ r.result = "removed" /\ r.op = "retire" /\ Recovery(r) = "tracked-commit-only"
  \/ r.result = "recovered" /\ r.op = "recover" /\ Recovery(r) = "tracked-commit-only"
  \/ r.result \in Results \ {"removed", "recovered"}

-----------------------------------------------------------------------------
(* Git's own operations (external).                                        *)

Gone(w) == [kind |-> "absent", head |-> None, branch |-> None,
            dirt |-> "clean", locked |-> FALSE, id |-> w.id]

\* Mutant of GitRemoves: --force was passed.
GitRemovesForced(p) == p # Main /\ wt[p].kind \in {"linked", "prunable"}

\* `git worktree remove' without --force: it refuses a locked worktree and
\* one with modified or untracked files; ignored files do not stop it.
\* The main worktree cannot be removed at all.
GitRemoves(p) ==
  LET w == wt[p] IN
  /\ p # Main
  /\ w.kind \in {"linked", "prunable"}
  /\ ~w.locked
  /\ w.kind = "linked" => w.dirt # "changed"

\* `git worktree add --detach': it refuses an occupied or a listed path.
GitAdded(w, c) == [kind |-> "linked", head |-> c, branch |-> None,
                   dirt |-> "clean", locked |-> FALSE, id |-> w.id + 1]

-----------------------------------------------------------------------------
(* Steps every command is made of.                                         *)

\* A command starts by validating the state directory: an entry it does not
\* know, such as an abandoned temporary file, refuses every command.
Begin(q, command, started) ==
  /\ command \in Commands
  /\ proc[q].pc = "idle"
  /\ stale = {}
  /\ proc' = [proc EXCEPT ![q] = started]

Continue(q, next) == proc' = [proc EXCEPT ![q] = next]

\* The rename that publishes a record.  The temporary file has one fixed name
\* per directory and is created exclusively, so an abandoned one blocks it.
Publish(q, dir, next) == dir \notin stale /\ Continue(q, next)

WriteRegistration(q) ==
  /\ proc[q].pc \in {"register.write", "release.write", "apply.register",
                     "recover.register"}
  /\ registrations' = [registrations EXCEPT ![proc[q].path] = proc[q].reg]
  /\ Publish(q, "registrations", Idle)
  /\ UNCHANGED <<now, world, protected, plans, approvals, receipts, stale, removals>>

WriteProtection(q) ==
  /\ proc[q].pc = "protect.write"
  /\ protected' = [protected EXCEPT ![proc[q].path] = proc[q].flag]
  /\ Publish(q, "protected", Idle)
  /\ UNCHANGED <<now, world, registrations, plans, approvals, receipts, stale, removals>>

\* The target registry and the plan that hashes it are two files; a plan is
\* of use only when both are there.
WritePlan(q) ==
  /\ proc[q].pc = "plan.write"
  /\ plans' = plans \cup {proc[q].plan}
  /\ Publish(q, "plans", Idle)
  /\ UNCHANGED <<now, world, registrations, protected, approvals, receipts, stale, removals>>

WriteApproval(q) ==
  /\ proc[q].pc = "approve.write"
  /\ approvals' = approvals \cup {proc[q].plan}
  /\ Publish(q, "approvals", Idle)
  /\ UNCHANGED <<now, world, registrations, protected, plans, receipts, stale, removals>>

\* After a receipt for a completed action the registration follows: Apply
\* writes back the one it loaded, Recover loads it first.
WriteReceipt(q) ==
  LET me == proc[q]
      id == Len(receipts) + 1
  IN
  /\ me.pc \in {"apply.receipt", "recover.receipt"}
  /\ receipts' = Append(receipts, me.receipt)
  /\ Publish(q, "receipts",
       CASE me.receipt.result = "removed" ->
              [me EXCEPT !.pc = "apply.register",
                         !.reg = [@ EXCEPT !.retired = TRUE, !.last = id]]
         [] me.receipt.result = "recovered" ->
              [me EXCEPT !.pc = "recover.load", !.rid = id]
         [] OTHER -> Idle)
  /\ UNCHANGED <<now, world, registrations, protected, plans, approvals, stale, removals>>

\* The directory whose temporary file a process has open at a writing step.
WritesTo(pc) ==
  CASE pc \in {"register.write", "release.write", "apply.register",
               "recover.register"}                    -> {"registrations"}
    [] pc = "protect.write"                           -> {"protected"}
    [] pc = "plan.write"                              -> {"plans"}
    [] pc = "approve.write"                           -> {"approvals"}
    [] pc \in {"apply.receipt", "recover.receipt"}    -> {"receipts"}
    [] OTHER                                          -> {}

\* A command returns an I/O error, or its process dies; one that dies inside
\* a write may leave the temporary file behind.
Abort(q) ==
  /\ proc[q].pc # "idle"
  /\ Continue(q, Idle)
  /\ \E left \in SUBSET WritesTo(proc[q].pc) : stale' = stale \cup left
  /\ UNCHANGED <<now, world, files, removals>>

-----------------------------------------------------------------------------
(* Registration, release, protection, planning, approval.                  *)

\* A path that is not there is refused, unless it is below an agent root:
\* that one is registered unseen, as blocked.
RegisterRead(q, p, here) ==
  /\ wt[p].kind \in {"linked", "occupied"} \/ p \in AgentRoots
  /\ Begin(q, "register",
       [Idle EXCEPT !.pc = "register.write", !.path = p,
          !.reg = [registeredAt |-> now, expires |-> None, retired |-> FALSE,
                   last |-> 0, snap |-> TakeSnapshot(p, here)]])
  /\ UNCHANGED <<now, world, files, stale, removals>>

ReleaseRead(q, p, here) ==
  LET reg == registrations[p] IN
  /\ reg # None
  /\ ~reg.retired
  /\ ~protected[p]
  /\ GatesPass(p, here)
  /\ Begin(q, "release",
       [Idle EXCEPT !.pc = "release.write", !.path = p,
          !.reg = [reg EXCEPT !.expires = now + ReleaseTTL,
                              !.snap = TakeSnapshot(p, here)]])
  /\ UNCHANGED <<now, world, files, stale, removals>>

ProtectRead(q, p, want) ==
  /\ registrations[p] # None
  /\ Begin(q, "protect",
       [Idle EXCEPT !.pc = "protect.write", !.path = p, !.flag = want])
  /\ UNCHANGED <<now, world, files, stale, removals>>

\* A plan is written whatever its decision; a retired one is not inspected.
PlanRead(q, p, here) ==
  LET reg  == registrations[p]
      snap == IF reg.retired THEN NoSnapshot ELSE TakeSnapshot(p, here)
      plan == [path |-> p, reg |-> reg, snap |-> snap,
               decision |-> Decision(reg, GatesPass(p, here), protected[p]),
               expires |-> now + PlanTTL]
  IN
  /\ reg # None
  /\ Cardinality(plans) < MaxPlans
  /\ Begin(q, "plan",
       [Idle EXCEPT !.pc = "plan.write", !.path = p, !.plan = plan])
  /\ UNCHANGED <<now, world, files, stale, removals>>

ApproveRead(q, plan) ==
  /\ plan \in plans
  /\ now < plan.expires
  /\ plan.decision = "READY"
  /\ Begin(q, "approve",
       [Idle EXCEPT !.pc = "approve.write", !.path = plan.path, !.plan = plan])
  /\ UNCHANGED <<now, world, files, stale, removals>>

-----------------------------------------------------------------------------
(* Apply.                                                                  *)

\* Mutant of ReceiptOf: an operation that is not one of the two.
ReceiptOfApply(plan, result) ==
  [op |-> "apply", result |-> result, plan |-> plan,
   head |-> plan.snap.head, ref |-> plan.snap.ref, oid |-> plan.snap.oid]

ReceiptOf(plan, result) ==
  [op |-> "retire", result |-> result, plan |-> plan,
   head |-> plan.snap.head, ref |-> plan.snap.ref, oid |-> plan.snap.oid]

WithReceipt(me, result) ==
  [me EXCEPT !.pc = "apply.receipt", !.receipt = ReceiptOf(me.plan, result)]

\* Plan, expiry and approval; then the registration must be the planned one.
ApplyRead(q, plan) ==
  LET reg == registrations[plan.path]
      me  == [Idle EXCEPT !.path = plan.path, !.plan = plan, !.reg = reg]
  IN
  /\ plan \in plans
  /\ now < plan.expires
  /\ plan \in approvals
  /\ Len(receipts) < MaxReceipts
  /\ Begin(q, "apply",
       IF plan.decision = "READY" /\ reg = plan.reg
       THEN [me EXCEPT !.pc = "apply.protection"]
       ELSE WithReceipt(me, "blocked_changed"))
  /\ UNCHANGED <<now, world, files, stale, removals>>

ApplyProtection(q) ==
  LET me == proc[q] IN
  /\ me.pc = "apply.protection"
  /\ Continue(q, IF protected[me.path] THEN WithReceipt(me, "blocked_changed")
                 ELSE [me EXCEPT !.pc = "apply.inspect"])
  /\ UNCHANGED <<now, world, files, stale, removals>>

\* Mutant of Revalidated: file identities are not compared.
RevalidatedWithoutIdentity(me, here) ==
  /\ GatesPass(me.path, here)
  /\ ReleaseValid(me.reg, now)
  /\ [TakeSnapshot(me.path, here) EXCEPT !.id = 0] = [me.plan.snap EXCEPT !.id = 0]

\* The last check before the action.
Revalidated(me, here) ==
  /\ GatesPass(me.path, here)
  /\ ReleaseValid(me.reg, now)
  /\ TakeSnapshot(me.path, here) = me.plan.snap

ApplyInspect(q, here) ==
  LET me == proc[q] IN
  /\ me.pc = "apply.inspect"
  /\ Continue(q, IF Revalidated(me, here) THEN [me EXCEPT !.pc = "apply.remove"]
                 ELSE WithReceipt(me, "blocked_changed"))
  /\ UNCHANGED <<now, world, files, stale, removals>>

\* Mutant of ActionFailed: Git's exit status is ignored.
ActionFailedUnnoticed(me) == [me EXCEPT !.pc = "apply.verify"]

ActionFailed(me) == WithReceipt(me, "native_action_failed")

\* Git removes the worktree, or reports a failure.  One that hits the time
\* limit of 30 seconds may come when the worktree is gone or half deleted.
ApplyRemove(q) ==
  LET me == proc[q]
      p  == me.path
      failed == ActionFailed(me)
  IN
  /\ me.pc = "apply.remove"
  /\ \/ /\ GitRemoves(p)
        /\ wt' = [wt EXCEPT ![p] = Gone(@)]
        /\ removals' = removals \cup {[plan |-> me.plan, was |-> wt[p]]}
        /\ Continue(q, [me EXCEPT !.pc = "apply.verify"]) \/ Continue(q, failed)
     \/ /\ GitRemoves(p) /\ wt[p].kind = "linked"
        /\ wt' = [wt EXCEPT ![p].dirt = "changed"]
        /\ Continue(q, failed)
        /\ UNCHANGED removals
     \/ Continue(q, failed) /\ UNCHANGED <<wt, removals>>
  /\ UNCHANGED <<now, refs, files, stale>>

\* Mutant of Verified: the registration is written before the receipt.
VerifiedRegisterFirst(me) ==
  [me EXCEPT !.pc = "apply.register",
             !.reg = [@ EXCEPT !.retired = TRUE, !.last = Len(receipts) + 1]]

\* The path must be gone from the list and from the file system.
Verified(me) ==
  WithReceipt(me, IF wt[me.path].kind = "absent" THEN "removed"
                  ELSE "action_unverified")

ApplyVerify(q) ==
  LET me == proc[q] IN
  /\ me.pc = "apply.verify"
  /\ Continue(q, Verified(me))
  /\ UNCHANGED <<now, world, files, stale, removals>>

-----------------------------------------------------------------------------
(* Recover.  Protection is not consulted.                                  *)

WithRecovery(me, result) ==
  [me EXCEPT !.pc = "recover.receipt", !.receipt.result = result]

\* The preservation reference still names the retained object.  A commit it
\* reaches is not collected, so the retained commit is then there too.
StillPreserved(r) == refs[r.ref] # None /\ Resolved(r.ref) = r.oid

Recoverable(r) ==
  /\ r.plan.path \notin AgentRoots
  /\ wt[r.plan.path].kind = "absent"
  /\ StillPreserved(r)

RecoverRead(q, i) ==
  LET r  == receipts[i]
      me == [Idle EXCEPT !.path = r.plan.path,
                         !.receipt = [r EXCEPT !.op = "recover"]]
  IN
  /\ ValidReceipt(r)
  /\ r.op = "retire" /\ r.result = "removed"
  /\ r.head # None /\ r.ref # None /\ r.oid # None
  /\ Len(receipts) < MaxReceipts
  /\ Begin(q, "recover", IF Recoverable(r) THEN [me EXCEPT !.pc = "recover.add"]
                         ELSE WithRecovery(me, "recovery_failed"))
  /\ UNCHANGED <<now, world, files, stale, removals>>

\* A failing `git worktree add' may leave a partial checkout.
RecoverAdd(q) ==
  LET me == proc[q]
      p  == me.path
      added == GitAdded(wt[p], me.receipt.head)
      failed == WithRecovery(me, "recovery_failed")
  IN
  /\ me.pc = "recover.add"
  /\ \/ /\ wt[p].kind = "absent" /\ wt[p].id < MaxId
        /\ \/ /\ wt' = [wt EXCEPT ![p] = added]
              /\ Continue(q, [me EXCEPT !.pc = "recover.verify"])
           \/ /\ wt' = [wt EXCEPT ![p] = [added EXCEPT !.dirt = "changed"]]
              /\ Continue(q, failed)
     \/ Continue(q, failed) /\ UNCHANGED wt
  /\ UNCHANGED <<now, refs, files, stale, removals>>

RecoverVerify(q) ==
  LET me == proc[q]
      w  == wt[me.path]
      verified == w.kind = "linked" /\ w.head = me.receipt.head /\ ~w.locked
  IN
  /\ me.pc = "recover.verify"
  /\ Continue(q, WithRecovery(me, IF verified THEN "recovered" ELSE "recovery_failed"))
  /\ UNCHANGED <<now, world, files, stale, removals>>

\* The registration on disk now is brought back, without its release.
RecoverLoad(q, here) ==
  LET me  == proc[q]
      p   == me.path
      reg == registrations[p]
  IN
  /\ me.pc = "recover.load"
  /\ reg # None
  /\ Continue(q, [me EXCEPT !.pc = "recover.register",
       !.reg = [reg EXCEPT !.retired = FALSE, !.expires = None, !.last = me.rid,
                  !.snap = IF GatesPass(p, here) THEN TakeSnapshot(p, here) ELSE @]])
  /\ UNCHANGED <<now, world, files, stale, removals>>

-----------------------------------------------------------------------------
(* The owner of the worktrees, and time (external).                        *)

CheckedOut(r) == \E p \in Paths : wt[p].branch = r

\* A head Git would check out: a commit, detached, or a branch that is free.
CheckOuts == {[head |-> c, branch |-> None] : c \in Commits} \cup
             {[head |-> refs[b], branch |-> b] :
                b \in {r \in Branches : refs[r] # None /\ ~CheckedOut(r)}}

OwnerMove(kind) == kind \in OwnerMoves /\ UNCHANGED <<now, files, stale, proc, removals>>

\* A commit on top of the head takes the checked-out branch along.
OwnerCommits(p, c) ==
  LET w == wt[p] IN
  /\ w.kind = "linked" /\ w.id < MaxId
  /\ c # w.head /\ <<c, w.head>> \in Contains
  /\ wt' = [wt EXCEPT ![p].head = c, ![p].dirt = "clean", ![p].id = @ + 1]
  /\ refs' = IF w.branch = None THEN refs ELSE [refs EXCEPT ![w.branch] = c]
  /\ OwnerMove("commit")

OwnerEdits(p, dirt) ==
  /\ wt[p].kind = "linked"
  /\ wt' = [wt EXCEPT ![p].dirt = dirt]
  /\ OwnerMove("edit") /\ UNCHANGED refs

OwnerLocks(p) ==
  /\ wt[p].kind = "linked"
  /\ wt' = [wt EXCEPT ![p].locked = ~@]
  /\ OwnerMove("lock") /\ UNCHANGED refs

\* Git refuses to move a branch that is checked out.
OwnerMovesRef(r, c) ==
  /\ ~CheckedOut(r)
  /\ refs' = [refs EXCEPT ![r] = c]
  /\ OwnerMove("ref") /\ UNCHANGED wt

OwnerAdds(p, out) ==
  /\ wt[p].kind = "absent" /\ wt[p].id < MaxId
  /\ wt' = [wt EXCEPT ![p] = [GitAdded(@, out.head) EXCEPT !.branch = out.branch]]
  /\ OwnerMove("path") /\ UNCHANGED refs

\* The owner removes or prunes a worktree, deletes its directory, or puts a
\* directory that is no worktree in its place.
OwnerReplaces(p, kind) ==
  LET w == wt[p] IN
  /\ p # Main
  /\ <<w.kind, kind>> \in {<<"linked", "absent">>, <<"linked", "prunable">>,
       <<"prunable", "absent">>, <<"absent", "occupied">>, <<"occupied", "absent">>}
  /\ wt' = [wt EXCEPT ![p] = IF kind = "prunable" THEN [w EXCEPT !.kind = kind]
                             ELSE [Gone(w) EXCEPT !.kind = kind]]
  /\ OwnerMove("path") /\ UNCHANGED refs

Tick ==
  /\ now < MaxTime
  /\ now' = now + 1
  /\ UNCHANGED <<world, files, stale, proc, removals>>

-----------------------------------------------------------------------------
\* Worktrees are detached or on a branch of their own.
InitialWorktree(p, w) ==
  \/ p # Main /\ w = Gone([id |-> 0])
  \/ \E c \in Commits : w = GitAdded([id |-> 0], c)
  \/ \E b \in Branches :
       refs[b] # None /\ w = [GitAdded([id |-> 0], refs[b]) EXCEPT !.branch = b]

Init ==
  /\ now = 0
  /\ refs \in [Refs -> Opt(Commits)]
  /\ wt \in [Paths -> [kind: {"absent", "linked"}, head: Opt(Commits),
                       branch: Opt(Branches), dirt: {"clean"},
                       locked: {FALSE}, id: 0 .. 1]]
  /\ \A p \in Paths : InitialWorktree(p, wt[p])
  /\ \A p, o \in Paths : p # o => wt[p].branch = None \/ wt[p].branch # wt[o].branch
  /\ registrations = [p \in Paths |-> None]
  /\ protected = [p \in Paths |-> FALSE]
  /\ plans = {} /\ approvals = {} /\ receipts = <<>> /\ stale = {}
  /\ proc = [q \in Procs |-> Idle]
  /\ removals = {}

Writes(q) == \/ WriteRegistration(q) \/ WriteProtection(q) \/ WritePlan(q)
             \/ WriteApproval(q) \/ WriteReceipt(q)

Reads(q) ==
  \/ \E p \in Paths, here \in BOOLEAN :
       RegisterRead(q, p, here) \/ ReleaseRead(q, p, here) \/ PlanRead(q, p, here)
  \/ \E p \in Paths, want \in BOOLEAN : ProtectRead(q, p, want)
  \/ \E plan \in plans : ApproveRead(q, plan) \/ ApplyRead(q, plan)
  \/ \E i \in DOMAIN receipts : RecoverRead(q, i)

Acts(q) ==
  \/ ApplyProtection(q) \/ ApplyRemove(q) \/ ApplyVerify(q)
  \/ RecoverAdd(q) \/ RecoverVerify(q)
  \/ \E here \in BOOLEAN : ApplyInspect(q, here) \/ RecoverLoad(q, here)

Owner ==
  \/ \E p \in Paths :
       \/ \E c \in Commits : OwnerCommits(p, c)
       \/ \E dirt \in Dirt : OwnerEdits(p, dirt)
       \/ OwnerLocks(p)
       \/ \E out \in CheckOuts : OwnerAdds(p, out)
       \/ \E kind \in Kinds : OwnerReplaces(p, kind)
  \/ \E r \in Refs, c \in Opt(Commits) : OwnerMovesRef(r, c)

Next == Tick \/ Owner \/ \E q \in Procs : Writes(q) \/ Reads(q) \/ Acts(q) \/ Abort(q)

Spec == Init /\ [][Next]_vars

-----------------------------------------------------------------------------
TypeOK ==
  /\ now \in Nat
  /\ wt \in [Paths -> Worktree]
  /\ refs \in [Refs -> Opt(Commits)]
  /\ registrations \in [Paths -> Opt(Registration)]
  /\ protected \in [Paths -> BOOLEAN]
  /\ plans \subseteq Plan
  /\ approvals \subseteq Plan
  /\ receipts \in Seq(Receipt)
  /\ stale \subseteq Dirs
  /\ proc \in [Procs -> Process]
  /\ removals \subseteq Removal

Removed(r) == r.op = "retire" /\ r.result = "removed"

NamesReceipt(reg, p) ==
  /\ reg.last \in DOMAIN receipts
  /\ Removed(receipts[reg.last])
  /\ receipts[reg.last].plan.path = p
  /\ Recovery(receipts[reg.last]) = "tracked-commit-only"

\* A plan Git has acted on never passes the final revalidation again, even if
\* the process died before the receipt or the registration was written and
\* the worktree was added or recovered at the same path: the file identities
\* bound by the plan (engine.go:293) are what stops the second removal.
UsedPlanNeverRevalidates ==
  [][\A q \in Procs :
       proc[q].pc = "apply.inspect" /\ proc'[q].pc = "apply.remove"
       => \A r \in removals : r.plan # proc[q].plan]_vars

\* Whatever commands overlap or die, a registration that says its worktree is
\* retired names the receipt from which that very path can be recovered: the
\* receipt is written before the registration (engine.go:325-331).
RetiredNamesItsReceipt ==
  \A p \in Paths :
    LET reg == registrations[p] IN
    reg # None /\ reg.retired => NamesReceipt(reg, p)

\* Every receipt the program writes is one that loadReceipt accepts: one that
\* it did not would make History fail for all of them (state.go:504-556), and
\* a removal could not be recovered.
ReceiptsReadable == \A i \in DOMAIN receipts : ValidReceipt(receipts[i])

\* The receipts that claim a removal of the worktree at a path, and the removals.
Claims(p) == {i \in DOMAIN receipts : Removed(receipts[i]) /\ receipts[i].plan.path = p}

RemovalsAt(p) == {r \in removals : r.plan.path = p}

\* Two overlapping Apply commands never both claim the same removal: there are
\* no more "removed" receipts for a path than removals Git carried out there.
NoRemovalClaimedTwice ==
  \A p \in Paths : Cardinality(Claims(p)) =< Cardinality(RemovalsAt(p))

\* Nothing but an approved plan that was READY under an owner's release leads
\* to a removal, never at the main worktree or below an agent root, and no
\* removal ever takes tracked or untracked changes or a locked worktree with
\* it, even when these appear after the last check (no --force is passed).
RemovalsAuthorised ==
  \A r \in removals :
    /\ r.plan \in approvals
    /\ r.plan.decision = "READY" /\ r.plan.reg.expires # None
    /\ r.plan.path \notin AgentRoots /\ r.plan.path # Main
    /\ ~r.was.locked
    /\ r.was.kind = "linked" => r.was.dirt # "changed"

\* One release of the owner covers a removal from its plan to its last check:
\* the plan was made after the release and before its expiry, and the release
\* has still not expired at the last check (engine.go:290, 507-513).
OneReleaseCoversRemoval ==
  [][\A q \in Procs :
       LET plan == proc[q].plan
           planned == plan.expires - PlanTTL
       IN  proc[q].pc = "apply.inspect" /\ proc'[q].pc = "apply.remove"
           => /\ plan.reg.expires # None
              /\ plan.reg.expires - ReleaseTTL =< planned
              /\ planned < plan.reg.expires /\ now < plan.reg.expires]_vars

\* In an instance in which no ref is ever moved, the preservation check of
\* Recover accepts every successful retirement (engine.go:405-408): the object
\* retained at planning time is the one the reference is compared with later.
RetirementsRecoverable ==
  \A i \in DOMAIN receipts : Removed(receipts[i]) => StillPreserved(receipts[i])

-----------------------------------------------------------------------------
(* The inductive invariant behind the theorems.                            *)

\* A worktree that is there has a head.
HeadsOK == \A p \in Paths : wt[p].kind = "linked" => wt[p].head \in Commits

Restorable(r) == r.head \in Commits /\ r.ref \in Refs /\ r.oid \in OIDs

\* What a process knows at each point of its command.
ProcOK(me) ==
  /\ me.pc # "idle" => me.path \in Paths
  /\ me.pc \in {"register.write", "release.write", "recover.register"} =>
       me.reg \in Registration /\ ~me.reg.retired
  /\ me.pc = "apply.register" =>
       me.reg \in Registration /\ NamesReceipt(me.reg, me.path)
  /\ me.pc \in {"plan.write", "approve.write"} => me.plan \in Plan
  /\ me.pc \in {"apply.protection", "apply.inspect", "apply.remove",
                "apply.verify", "apply.receipt"} =>
       /\ me.plan \in Plan /\ me.plan.path = me.path
       /\ me.plan \in approvals
  /\ me.pc \in {"apply.protection", "apply.inspect", "apply.remove", "apply.verify"} =>
       me.reg = me.plan.reg /\ me.plan.decision = "READY"
  /\ me.pc \in {"apply.remove", "apply.verify"} =>
       /\ Restorable(me.plan.snap)
       /\ me.plan.snap.id =< wt[me.path].id
       /\ me.plan.reg.expires # None
       /\ me.path \notin AgentRoots /\ me.path # Main
  /\ me.pc = "apply.receipt" =>
       /\ me.receipt \in Receipt
       /\ me.receipt.op = "retire" /\ me.receipt.plan = me.plan
       /\ me.receipt.result \notin {"recovered", "recovery_failed"}
       /\ me.receipt.result = "removed" =>
            Restorable(me.receipt) /\ me.reg \in Registration
  /\ me.pc \in {"recover.add", "recover.verify", "recover.receipt"} =>
       /\ me.receipt \in Receipt
       /\ me.receipt.op = "recover" /\ Restorable(me.receipt)
  /\ me.pc = "recover.receipt" =>
       me.receipt.result \in {"recovered", "recovery_failed"}

\* Whatever is at the path of a removal now is newer than what was planned.
RemovalsPast ==
  \A r \in removals :
    LET w == wt[r.plan.path] IN
    /\ r.plan.snap.id =< w.id
    /\ w.kind \in {"linked", "prunable"} => r.plan.snap.id < w.id

IInv ==
  /\ TypeOK
  /\ HeadsOK
  /\ \A q \in Procs : ProcOK(proc[q])
  /\ ReceiptsReadable
  /\ RetiredNamesItsReceipt
  /\ RemovalsAuthorised
  /\ RemovalsPast

\* What is known of releases: one recorded was given in the past, and a READY
\* plan was made while the release it records was in force.
ReleasePast(reg) == reg.expires # None => reg.expires - ReleaseTTL =< now

PlannedUnderRelease(plan) ==
  plan.decision = "READY" =>
    /\ plan.reg # None /\ plan.reg.expires # None
    /\ plan.reg.expires - ReleaseTTL =< plan.expires - PlanTTL
    /\ plan.expires - PlanTTL < plan.reg.expires

KnownRelease(me) ==
  /\ me.pc \in {"register.write", "release.write", "recover.register",
                "apply.protection", "apply.inspect", "apply.remove",
                "apply.verify", "apply.register"} => ReleasePast(me.reg)
  /\ me.pc = "apply.receipt" /\ me.receipt.result = "removed" => ReleasePast(me.reg)
  /\ me.pc \in {"plan.write", "approve.write", "apply.protection",
                "apply.inspect", "apply.remove", "apply.verify"} =>
       PlannedUnderRelease(me.plan)

ReleaseInv ==
  /\ \A p \in Paths : registrations[p] # None => ReleasePast(registrations[p])
  /\ \A plan \in plans : PlannedUnderRelease(plan)
  /\ \A q \in Procs : KnownRelease(proc[q])

\* A process that may still write the receipt of a removal Git reported to it.
Pends(me, p) ==
  /\ me.path = p
  /\ me.pc = "apply.verify" \/ (me.pc = "apply.receipt" /\ me.receipt.result = "removed")

Pending(p) == {q \in Procs : Pends(proc[q], p)}

\* No worktree is removed a second time: what is there now is newer.
WorktreesPast ==
  \A r \in removals :
    LET w == wt[r.plan.path] IN
    /\ r.was.id =< w.id
    /\ w.kind \in {"linked", "prunable"} => r.was.id < w.id

\* Each claim, made or pending, has a removal of its own.
ClaimInv ==
  /\ WorktreesPast
  /\ \A p \in Paths :
       /\ IsFiniteSet(RemovalsAt(p)) /\ IsFiniteSet(Pending(p))
       /\ Cardinality(Claims(p)) + Cardinality(Pending(p)) =< Cardinality(RemovalsAt(p))

\* What a worktree has checked out is a branch.
BranchesOK == \A p \in Paths : wt[p].branch \in Opt(Branches)

\* What a plan or a receipt retains about a branch is what the branch names;
\* of an annotated tag it retains the object of the tag, which is no commit.
Kept(record) ==
  /\ record.ref \in Branches => /\ refs[record.ref] # None
                                /\ record.oid = Resolved(record.ref)
  /\ record.ref \in Annotated => record.oid[1] = "tag"

KeptProc(me) ==
  /\ me.pc \in {"plan.write", "apply.protection", "apply.inspect",
                "apply.remove", "apply.verify"} => Kept(me.plan.snap)
  /\ me.pc \in {"apply.receipt", "recover.add", "recover.verify",
                "recover.receipt"} => Kept(me.receipt)

\* Every plan and receipt retains what can be found, as long as no ref moves.
KeptInv ==
  /\ \A plan \in plans : Kept(plan.snap)
  /\ \A i \in DOMAIN receipts : Kept(receipts[i])
  /\ \A q \in Procs : KeptProc(proc[q])
=============================================================================
