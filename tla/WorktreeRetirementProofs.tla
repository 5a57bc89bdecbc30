---------------------- MODULE WorktreeRetirementProofs ----------------------
(***************************************************************************)
(* Theorems about WorktreeRetirement, for every value of its constants.    *)
(*                                                                         *)
(* All of them follow from the inductive invariant IInv.  Most steps change *)
(* the process that takes them and, some of them, the worktrees; the lemma *)
(* StepOK says once what such a step must satisfy to preserve IInv.        *)
(***************************************************************************)
EXTENDS WorktreeRetirement, FiniteSetLemmas

-----------------------------------------------------------------------------
(* Lemmas about the operators.                                             *)

\* The first of a non-empty set of refs is one of them.
LEMMA FirstIsMember ==
  ASSUME NEW S \in SUBSET Refs, S # {}
  PROVE  First(S) \in S
<1>1. S \in SUBSET Nat
  BY ConstantAssumption DEF Refs
<1>2. \E r \in S : \A s \in S : r =< s
  BY <1>1, LeastNumber
<1>3. QED
  BY <1>2 DEF First

\* None is none of the values it stands in for.
LEMMA NoneIsNothing ==
  /\ None \notin Paths /\ None \notin Commits /\ None \notin Nat
  /\ None \notin Refs /\ None \notin OIDs
BY ConstantAssumption DEF Refs, OIDs

\* The retained object is well typed, and there is one when there is a ref.
LEMMA PreservedType ==
  ASSUME refs \in [Refs -> Opt(Commits)], NEW w \in Worktree, w.head \in Commits
  PROVE  /\ Preserved(w).ref \in Opt(Refs)
         /\ Preserved(w).oid \in Opt(OIDs)
         /\ Preserved(w).ref # None => Preserved(w).ref \in Refs /\ Preserved(w).oid \in OIDs
<1>1. CASE w.branch # None
  BY <1>1, NoneIsNothing DEF Preserved, Resolved, OIDs, Opt, Worktree
<1>2. CASE w.branch = None
  <2>1. CASE RefsContaining(w.head) = {}
    BY <1>2, <2>1 DEF Preserved, Opt
  <2>2. CASE RefsContaining(w.head) # {}
    <3> DEFINE r == First(RefsContaining(w.head))
    <3>1. r \in RefsContaining(w.head)
      BY <2>2, FirstIsMember DEF RefsContaining
    <3>2. r \in Refs /\ refs[r] \in Commits
      BY <3>1 DEF RefsContaining, Opt
    <3>3. ObjectName(r) \in OIDs
      BY <3>2 DEF ObjectName, OIDs
    <3>4. Preserved(w) = [ref |-> r, oid |-> ObjectName(r)]
      BY <1>2, <2>2 DEF Preserved
    <3> HIDE DEF r
    <3>5. QED
      BY <3>2, <3>3, <3>4, NoneIsNothing DEF Opt
  <2>3. QED
    BY <2>1, <2>2
<1>3. QED
  BY <1>1, <1>2

\* A snapshot is well typed; one taken when all gates pass is restorable and
\* bears the identity of the worktree.
LEMMA SnapshotType ==
  ASSUME TypeOK, HeadsOK, NEW p \in Paths, NEW here \in BOOLEAN
  PROVE  /\ TakeSnapshot(p, here) \in Snapshot
         /\ GatesPass(p, here) => /\ Restorable(TakeSnapshot(p, here))
                                  /\ TakeSnapshot(p, here).id = wt[p].id
<1> DEFINE w == wt[p]
<1>1. w \in Worktree /\ w.head \in Opt(Commits) /\ w.branch \in Opt(Refs) /\ w.id \in Nat
  BY DEF TypeOK, Worktree
<1>2. NoSnapshot \in Snapshot
  BY DEF NoSnapshot, Snapshot, Opt
<1>3. CASE w.kind \notin {"linked", "prunable"} \/ p \in AgentRoots
  <2>1. TakeSnapshot(p, here) = NoSnapshot
    BY <1>3 DEF TakeSnapshot
  <2>2. ~GatesPass(p, here)
    BY <1>3 DEF GatesPass, EarlyGates
  <2>3. QED
    BY <2>1, <2>2, <1>2
<1>4. CASE /\ ~(w.kind \notin {"linked", "prunable"} \/ p \in AgentRoots)
           /\ ~EarlyGates(p, here)
  <2>1. TakeSnapshot(p, here) =
          [head |-> w.head, branch |-> w.branch, ref |-> None, oid |-> None, id |-> 0]
    BY <1>4 DEF TakeSnapshot, NoSnapshot
  <2>2. ~GatesPass(p, here)
    BY <1>4 DEF GatesPass
  <2> HIDE DEF w
  <2>3. TakeSnapshot(p, here) \in Snapshot
    BY <2>1, <1>1 DEF Snapshot, Opt
  <2>4. QED
    BY <2>2, <2>3
<1>5. CASE /\ ~(w.kind \notin {"linked", "prunable"} \/ p \in AgentRoots)
           /\ EarlyGates(p, here)
  <2>1. w.head \in Commits
    BY <1>5 DEF EarlyGates, HeadsOK
  <2>2. TakeSnapshot(p, here) =
          [head |-> w.head, branch |-> w.branch, ref |-> Preserved(w).ref,
           oid |-> Preserved(w).oid, id |-> w.id]
    BY <1>5 DEF TakeSnapshot
  <2>3. /\ Preserved(w).ref \in Opt(Refs)
        /\ Preserved(w).oid \in Opt(OIDs)
        /\ Preserved(w).ref # None => Preserved(w).ref \in Refs /\ Preserved(w).oid \in OIDs
    BY <1>1, <2>1, PreservedType DEF TypeOK
  <2>4. GatesPass(p, here) => Preserved(w).ref # None
    BY DEF GatesPass
  <2> HIDE DEF w
  <2>5. TakeSnapshot(p, here) \in Snapshot
    BY <2>1, <2>2, <2>3, <1>1 DEF Snapshot
  <2>6. GatesPass(p, here) =>
          Restorable(TakeSnapshot(p, here)) /\ TakeSnapshot(p, here).id = w.id
    BY <2>1, <2>2, <2>3, <2>4 DEF Restorable
  <2>7. QED
    BY <2>5, <2>6 DEF w
<1>6. QED
  BY <1>3, <1>4, <1>5

-----------------------------------------------------------------------------
(* Steps.                                                                  *)

\* How the world may change under a removal: an identity is never used again
\* for a worktree that was gone.
Newer(w, v) ==
  /\ w.id =< v.id
  /\ v.kind \in {"linked", "prunable"} /\ v.id = w.id => w.kind \in {"linked", "prunable"}

\* What a process has read stays in order while worktrees only get newer.
LEMMA CarriedOK ==
  ASSUME TypeOK, wt' \in [Paths -> Worktree], \A p \in Paths : wt[p].id =< wt'[p].id,
         UNCHANGED <<approvals, receipts>>, NEW next, ProcOK(next)
  PROVE  ProcOK(next)'
<1>1. next.path \in Paths => wt[next.path].id \in Nat /\ wt'[next.path].id \in Nat
                             /\ wt[next.path].id =< wt'[next.path].id
  BY DEF TypeOK, Worktree
<1>2. next.plan \in Plan => next.plan.snap.id \in Nat
  BY DEF Plan, Snapshot
<1>3. QED
  BY <1>1, <1>2 DEF ProcOK, NamesReceipt, Removed, Recovery, Restorable

\* A step that writes no record preserves the invariant if what it changes is
\* in order: the clock, worktrees, refs, processes and the removals.
LEMMA ChangeOK ==
  ASSUME IInv,
         now' \in Nat,
         wt' \in [Paths -> Worktree], HeadsOK',
         \A p \in Paths : wt[p].id =< wt'[p].id,
         refs' \in [Refs -> Opt(Commits)],
         stale' \subseteq Dirs,
         proc' \in [Procs -> Process],
         \A o \in Procs : proc'[o] = proc[o] \/ ProcOK(proc[o])',
         removals' \subseteq Removal, RemovalsAuthorised', RemovalsPast',
         UNCHANGED files
  PROVE  IInv'
<1>1. /\ UNCHANGED <<registrations, protected, plans, approvals, receipts>>
      /\ TypeOK
  BY DEF files, IInv
<1>2. TypeOK'
  BY <1>1 DEF TypeOK
<1>3. \A o \in Procs : ProcOK(proc[o])'
  <2> SUFFICES ASSUME NEW o \in Procs PROVE ProcOK(proc[o])'
    OBVIOUS
  <2>1. CASE proc'[o] # proc[o]
    BY <2>1
  <2>2. CASE proc'[o] = proc[o]
    <3>1. ProcOK(proc[o]) /\ proc[o] \in Process
      BY <1>1 DEF TypeOK, IInv
    <3>2. ASSUME proc[o].path \in Paths, proc[o].plan \in Plan,
                 proc[o].plan.snap.id =< wt[proc[o].path].id
          PROVE  proc[o].plan.snap.id =< wt'[proc[o].path].id
      BY <1>1, <3>2 DEF TypeOK, Worktree, Plan, Snapshot
    <3>3. QED
      BY <1>1, <2>2, <3>1, <3>2, SMTT(20) DEF ProcOK, NamesReceipt, Removed, Recovery, Restorable
  <2>3. QED
    BY <2>1, <2>2
<1>4. ReceiptsReadable' /\ RetiredNamesItsReceipt'
  BY <1>1 DEF IInv, ReceiptsReadable, RetiredNamesItsReceipt,
              ValidReceipt, NamesReceipt, Removed, Recovery
<1>5. QED
  BY <1>2, <1>3, <1>4 DEF IInv

\* Removals stay in order when the worktrees only get newer.
LEMMA WorldOK ==
  ASSUME IInv,
         wt' \in [Paths -> Worktree],
         \A p \in Paths : Newer(wt[p], wt'[p]),
         UNCHANGED <<files, removals>>
  PROVE  /\ \A p \in Paths : wt[p].id =< wt'[p].id
         /\ removals' \subseteq Removal /\ RemovalsAuthorised' /\ RemovalsPast'
<1>1. TypeOK /\ UNCHANGED <<approvals, removals>>
  BY DEF files, IInv
<1>2. RemovalsPast'
  <2> SUFFICES ASSUME NEW r \in removals
               PROVE  /\ r.plan.snap.id =< wt'[r.plan.path].id
                      /\ wt'[r.plan.path].kind \in {"linked", "prunable"}
                           => r.plan.snap.id < wt'[r.plan.path].id
    BY <1>1 DEF RemovalsPast
  <2> DEFINE w == wt[r.plan.path]
             v == wt'[r.plan.path]
  <2>1. r.plan.path \in Paths /\ r.plan.snap.id \in Nat
    BY <1>1 DEF TypeOK, Removal, Plan, Snapshot
  <2>2. w.id \in Nat /\ v.id \in Nat /\ Newer(w, v)
    BY <1>1, <2>1 DEF TypeOK, Worktree
  <2>3. r.plan.snap.id =< w.id /\ (w.kind \in {"linked", "prunable"} => r.plan.snap.id < w.id)
    BY DEF IInv, RemovalsPast
  <2> HIDE DEF w, v
  <2>4. r.plan.snap.id =< v.id /\ (v.kind \in {"linked", "prunable"} => r.plan.snap.id < v.id)
    BY <2>1, <2>2, <2>3 DEF Newer
  <2>5. QED
    BY <2>4 DEF v
<1>3. QED
  BY <1>1, <1>2 DEF IInv, TypeOK, RemovalsAuthorised, Newer

\* A step of one process that leaves the removals alone.
LEMMA StepOK ==
  ASSUME IInv,
         now' \in Nat,
         wt' \in [Paths -> Worktree], HeadsOK',
         \A p \in Paths : Newer(wt[p], wt'[p]),
         refs' \in [Refs -> Opt(Commits)],
         stale' \subseteq Dirs,
         NEW q \in Procs, NEW next \in Process, ProcOK(next)',
         proc' = [proc EXCEPT ![q] = next],
         UNCHANGED <<files, removals>>
  PROVE  IInv'
<1>1. proc \in [Procs -> Process]
  BY DEF IInv, TypeOK
<1>2. proc' \in [Procs -> Process]
      /\ \A o \in Procs : proc'[o] = proc[o] \/ proc'[o] = next
  BY <1>1
<1>3. \A o \in Procs : proc'[o] = proc[o] \/ ProcOK(proc[o])'
  BY <1>2 DEF ProcOK, NamesReceipt, Removed, Recovery, Restorable
<1>4. QED
  BY <1>2, <1>3, WorldOK, ChangeOK

\* The common case: only the process changes.
LEMMA ContinueOK ==
  ASSUME IInv, NEW q \in Procs, NEW next \in Process, ProcOK(next),
         Continue(q, next), UNCHANGED <<now, world, files, removals>>,
         stale' \subseteq Dirs
  PROVE  IInv'
<1>1. UNCHANGED <<now, wt, refs, registrations, protected, plans, approvals,
                  receipts, removals>>
  BY DEF world, files
<1>2. TypeOK /\ HeadsOK
  BY DEF IInv
<1>3. ProcOK(next)'
  BY <1>1 DEF ProcOK, NamesReceipt, Removed, Recovery, Restorable
<1>4. \A p \in Paths : Newer(wt[p], wt'[p])
  BY <1>1, <1>2 DEF Newer, TypeOK, Worktree
<1>5. now' \in Nat /\ wt' \in [Paths -> Worktree] /\ HeadsOK' /\ refs' \in [Refs -> Opt(Commits)]
  BY <1>1, <1>2 DEF TypeOK, HeadsOK
<1>6. proc' = [proc EXCEPT ![q] = next]
  BY DEF Continue
<1>7. UNCHANGED <<files, removals>>
  OBVIOUS
<1>8. QED
  BY <1>3, <1>4, <1>5, <1>6, <1>7, StepOK

\* An idle process; its fields are spelt out for the steps that start from it.
LEMMA IdleOK ==
  /\ Idle \in Process /\ ProcOK(Idle)
  /\ Idle.pc = "idle" /\ Idle.path = None /\ Idle.reg = None /\ Idle.plan = None
  /\ Idle.receipt = None /\ Idle.rid = 0 /\ Idle.flag = FALSE
BY DEF Idle, Process, ProcOK, PCs, Opt

\* What Git leaves at a path.
LEMMA GitType ==
  /\ \A w : w.id \in Nat => Gone(w) \in Worktree /\ Gone(w).kind = "absent" /\ Gone(w).id = w.id
  /\ \A w, c : w.id \in Nat /\ c \in Commits =>
       /\ GitAdded(w, c) \in Worktree
       /\ GitAdded(w, c).head = c /\ GitAdded(w, c).kind = "linked"
       /\ GitAdded(w, c).id = w.id + 1
BY DEF Gone, GitAdded, Worktree, Kinds, Dirt, Opt

\* The invariant holds initially.
LEMMA InitOK == Init => IInv
<1> SUFFICES ASSUME Init PROVE IInv
  OBVIOUS
<1>1. refs \in [Refs -> Opt(Commits)] /\ [id |-> 0].id = 0
  BY DEF Init
<1>2. \A p \in Paths : wt[p] \in Worktree /\ (wt[p].kind = "linked" => wt[p].head \in Commits)
  <2> SUFFICES ASSUME NEW p \in Paths
               PROVE  wt[p] \in Worktree /\ (wt[p].kind = "linked" => wt[p].head \in Commits)
    OBVIOUS
  <2>1. CASE wt[p] = Gone([id |-> 0])
    BY <1>1, <2>1, GitType
  <2>2. CASE \E c \in Commits : wt[p] = GitAdded([id |-> 0], c)
    BY <1>1, <2>2, GitType
  <2>3. ASSUME NEW b \in Branches, refs[b] # None,
               wt[p] = [GitAdded([id |-> 0], refs[b]) EXCEPT !.branch = b]
        PROVE  wt[p] \in Worktree /\ wt[p].head \in Commits
    <3>1. b \in Refs /\ refs[b] \in Commits
      BY <1>1, <2>3 DEF Branches, Opt
    <3> DEFINE g == GitAdded([id |-> 0], refs[b])
    <3>2. g \in Worktree /\ g.head \in Commits
      BY <1>1, <3>1, GitType
    <3>3. wt[p] = [g EXCEPT !.branch = b]
      BY <2>3
    <3> HIDE DEF g
    <3>4. QED
      BY <3>1, <3>2, <3>3 DEF Worktree, Opt
  <2>4. QED
    BY <2>1, <2>2, <2>3 DEF Init, InitialWorktree
<1>3. wt \in [Paths -> Worktree] /\ HeadsOK
  BY <1>2 DEF Init, HeadsOK
<1>4. TypeOK
  BY <1>3, IdleOK DEF Init, TypeOK, Opt
<1>5. \A q \in Procs : ProcOK(proc[q])
  BY IdleOK DEF Init
<1>6. ReceiptsReadable /\ RetiredNamesItsReceipt /\ RemovalsAuthorised /\ RemovalsPast
  BY DEF Init, ReceiptsReadable, RetiredNamesItsReceipt, RemovalsAuthorised, RemovalsPast
<1>7. QED
  BY <1>3, <1>4, <1>5, <1>6 DEF IInv

-----------------------------------------------------------------------------
(* Commands: what a process carries after each step is in order.           *)

\* Register binds a well-typed registration that is not retired.
LEMMA RegisterReadOK ==
  ASSUME IInv, NEW q \in Procs, NEW p \in Paths, NEW here \in BOOLEAN,
         RegisterRead(q, p, here)
  PROVE  IInv'
<1> DEFINE reg == [registeredAt |-> now, expires |-> None, retired |-> FALSE,
                   last |-> 0, snap |-> TakeSnapshot(p, here)]
           next == [Idle EXCEPT !.pc = "register.write", !.path = p, !.reg = reg]
<1>1. TypeOK /\ HeadsOK
  BY DEF IInv
<1>2. reg \in Registration /\ ~reg.retired
  BY <1>1, SnapshotType DEF Registration, TypeOK, Opt
<1>3. Continue(q, next) /\ UNCHANGED <<now, world, files, stale, removals>>
  BY DEF RegisterRead, Begin, Continue
<1> HIDE DEF reg
<1>4. next \in Process /\ next.pc = "register.write" /\ next.path = p /\ next.reg = reg
  BY <1>2, IdleOK DEF Process, PCs, Opt
<1> HIDE DEF next
<1>5. ProcOK(next)
  BY <1>2, <1>4 DEF ProcOK
<1>6. QED
  BY <1>1, <1>3, <1>4, <1>5, ContinueOK DEF TypeOK

\* Release renews a registration that is not retired.
LEMMA ReleaseReadOK ==
  ASSUME IInv, NEW q \in Procs, NEW p \in Paths, NEW here \in BOOLEAN,
         ReleaseRead(q, p, here)
  PROVE  IInv'
<1> DEFINE old  == registrations[p]
           reg  == [old EXCEPT !.expires = now + ReleaseTTL, !.snap = TakeSnapshot(p, here)]
           next == [Idle EXCEPT !.pc = "release.write", !.path = p, !.reg = reg]
<1>1. TypeOK /\ HeadsOK
  BY DEF IInv
<1>2. old \in Registration /\ ~old.retired
  BY <1>1 DEF ReleaseRead, TypeOK, Opt
<1>3. now + ReleaseTTL \in Nat /\ TakeSnapshot(p, here) \in Snapshot
  BY <1>1, SnapshotType, ConstantAssumption DEF TypeOK
<1>4. Continue(q, next) /\ UNCHANGED <<now, world, files, stale, removals>>
  BY DEF ReleaseRead, Begin, Continue
<1> HIDE DEF old
<1>5. reg \in Registration /\ ~reg.retired
  BY <1>2, <1>3 DEF Registration, Opt
<1> HIDE DEF reg
<1>6. next \in Process /\ next.pc = "release.write" /\ next.path = p /\ next.reg = reg
  BY <1>5, IdleOK DEF Process, PCs, Opt
<1> HIDE DEF next
<1>7. ProcOK(next)
  BY <1>5, <1>6 DEF ProcOK
<1>8. QED
  BY <1>1, <1>4, <1>6, <1>7, ContinueOK DEF TypeOK

\* Protect and Unprotect carry a path and a flag.
LEMMA ProtectReadOK ==
  ASSUME IInv, NEW q \in Procs, NEW p \in Paths, NEW want \in BOOLEAN,
         ProtectRead(q, p, want)
  PROVE  IInv'
<1> DEFINE next == [Idle EXCEPT !.pc = "protect.write", !.path = p, !.flag = want]
<1>1. Continue(q, next) /\ UNCHANGED <<now, world, files, stale, removals>>
  BY DEF ProtectRead, Begin, Continue
<1>2. next \in Process /\ next.pc = "protect.write" /\ next.path = p
  BY IdleOK DEF Process, PCs, Opt
<1> HIDE DEF next
<1>3. ProcOK(next)
  BY <1>2 DEF ProcOK
<1>4. QED
  BY <1>1, <1>2, <1>3, ContinueOK DEF TypeOK, IInv

\* Plan carries a well-typed plan, whatever its decision.
LEMMA PlanReadOK ==
  ASSUME IInv, NEW q \in Procs, NEW p \in Paths, NEW here \in BOOLEAN,
         PlanRead(q, p, here)
  PROVE  IInv'
<1> DEFINE reg  == registrations[p]
           snap == IF reg.retired THEN NoSnapshot ELSE TakeSnapshot(p, here)
           plan == [path |-> p, reg |-> reg, snap |-> snap,
                    decision |-> Decision(reg, GatesPass(p, here), protected[p]),
                    expires |-> now + PlanTTL]
           next == [Idle EXCEPT !.pc = "plan.write", !.path = p, !.plan = plan]
<1>1. TypeOK /\ HeadsOK
  BY DEF IInv
<1>2. reg \in Registration
  BY <1>1 DEF PlanRead, TypeOK, Opt
<1>3. snap \in Snapshot
  BY <1>1, SnapshotType DEF NoSnapshot, Snapshot, Opt
<1>4. now + PlanTTL \in Nat
  BY <1>1, ConstantAssumption DEF TypeOK
<1>5. Decision(reg, GatesPass(p, here), protected[p]) \in Decisions
  BY DEF Decision, Decisions
<1>6. Continue(q, next) /\ UNCHANGED <<now, world, files, stale, removals>>
  BY DEF PlanRead, Begin, Continue
<1> HIDE DEF reg, snap
<1>7. plan \in Plan
  BY <1>2, <1>3, <1>4, <1>5 DEF Plan
<1> HIDE DEF plan
<1>8. next \in Process /\ next.pc = "plan.write" /\ next.path = p /\ next.plan = plan
  BY <1>7, IdleOK DEF Process, PCs, Opt
<1> HIDE DEF next
<1>9. ProcOK(next)
  BY <1>7, <1>8 DEF ProcOK
<1>10. QED
  BY <1>1, <1>6, <1>8, <1>9, ContinueOK DEF TypeOK

\* Approve carries a plan that is on disk.
LEMMA ApproveReadOK ==
  ASSUME IInv, NEW q \in Procs, NEW plan \in plans, ApproveRead(q, plan)
  PROVE  IInv'
<1> DEFINE next == [Idle EXCEPT !.pc = "approve.write", !.path = plan.path, !.plan = plan]
<1>1. plan \in Plan /\ plan.path \in Paths
  BY DEF IInv, TypeOK, Plan
<1>2. Continue(q, next) /\ UNCHANGED <<now, world, files, stale, removals>>
  BY DEF ApproveRead, Begin, Continue
<1>3. next \in Process /\ next.pc = "approve.write" /\ next.path = plan.path /\ next.plan = plan
  BY <1>1, IdleOK DEF Process, PCs, Opt
<1> HIDE DEF next
<1>4. ProcOK(next)
  BY <1>1, <1>3 DEF ProcOK
<1>5. QED
  BY <1>2, <1>3, <1>4, ContinueOK DEF TypeOK, IInv

\* A process about to write the receipt of an Apply is in order.
LEMMA WithReceiptOK ==
  ASSUME NEW me \in Process, NEW result \in Results \ {"recovered", "recovery_failed"},
         me.path \in Paths, me.plan \in Plan, me.plan.path = me.path, me.plan \in approvals,
         result = "removed" => Restorable(me.plan.snap) /\ me.reg \in Registration
  PROVE  WithReceipt(me, result) \in Process /\ ProcOK(WithReceipt(me, result))
<1> DEFINE receipt == ReceiptOf(me.plan, result)
           next == WithReceipt(me, result)
<1>1. /\ receipt \in Receipt
      /\ receipt.op = "retire" /\ receipt.plan = me.plan /\ receipt.result = result
      /\ result = "removed" => Restorable(receipt)
  BY DEF ReceiptOf, Receipt, Plan, Snapshot, Opt, Restorable
<1>2. next = [me EXCEPT !.pc = "apply.receipt", !.receipt = receipt]
  BY DEF WithReceipt
<1> HIDE DEF receipt, next
<1>3. /\ next \in Process
      /\ next.pc = "apply.receipt" /\ next.path = me.path /\ next.plan = me.plan
      /\ next.reg = me.reg /\ next.receipt = receipt
  BY <1>1, <1>2 DEF Process, PCs, Opt
<1>4. ProcOK(next)
  BY <1>1, <1>3 DEF ProcOK
<1>5. QED
  BY <1>3, <1>4 DEF next

\* Apply starts with an approved plan and the registration of the plan, or is blocked.
LEMMA ApplyReadOK ==
  ASSUME IInv, NEW q \in Procs, NEW plan \in plans, ApplyRead(q, plan)
  PROVE  IInv'
<1> DEFINE reg == registrations[plan.path]
           me  == [Idle EXCEPT !.path = plan.path, !.plan = plan, !.reg = reg]
           started == [me EXCEPT !.pc = "apply.protection"]
           next == IF plan.decision = "READY" /\ reg = plan.reg THEN started
                   ELSE WithReceipt(me, "blocked_changed")
<1>1. plan \in Plan /\ plan.path \in Paths /\ plan \in approvals /\ plan.reg \in Registration
  BY DEF IInv, TypeOK, Plan, ApplyRead
<1>2. reg \in Opt(Registration)
  BY <1>1 DEF IInv, TypeOK
<1>3. Continue(q, next) /\ UNCHANGED <<now, world, files, stale, removals>>
  BY DEF ApplyRead, Begin, Continue
<1> HIDE DEF reg
<1>4. me \in Process /\ me.path = plan.path /\ me.plan = plan /\ me.reg = reg
  BY <1>1, <1>2, IdleOK DEF Process, Opt
<1> HIDE DEF me
<1>5. CASE plan.decision = "READY" /\ reg = plan.reg
  <2>1. /\ started \in Process
        /\ started.pc = "apply.protection" /\ started.path = plan.path
        /\ started.plan = plan /\ started.reg = reg
    BY <1>4 DEF Process, PCs
  <2> HIDE DEF started
  <2>2. ProcOK(started)
    BY <1>1, <1>5, <2>1 DEF ProcOK
  <2>3. QED
    BY <1>3, <1>5, <2>1, <2>2, ContinueOK DEF TypeOK, IInv
<1>6. CASE ~(plan.decision = "READY" /\ reg = plan.reg)
  <2>1. WithReceipt(me, "blocked_changed") \in Process
        /\ ProcOK(WithReceipt(me, "blocked_changed"))
    BY <1>1, <1>4, WithReceiptOK DEF Results
  <2>2. QED
    BY <1>3, <1>6, <2>1, ContinueOK DEF TypeOK, IInv
<1>7. QED
  BY <1>5, <1>6

\* What the invariant says of the process that takes a step of Apply.
LEMMA ApplyProcess ==
  ASSUME IInv, NEW q \in Procs,
         proc[q].pc \in {"apply.protection", "apply.inspect", "apply.remove", "apply.verify"}
  PROVE  /\ proc[q] \in Process /\ proc[q].path \in Paths
         /\ proc[q].plan \in Plan /\ proc[q].plan.path = proc[q].path
         /\ proc[q].plan \in approvals /\ proc[q].plan.decision = "READY"
         /\ proc[q].reg = proc[q].plan.reg /\ proc[q].reg \in Registration
<1>1. proc[q] \in Process /\ ProcOK(proc[q])
  BY DEF IInv, TypeOK
<1>2. QED
  BY <1>1 DEF ProcOK, Plan

\* The protection check passes the plan on or blocks it.
LEMMA ApplyProtectionOK ==
  ASSUME IInv, NEW q \in Procs, ApplyProtection(q)
  PROVE  IInv'
<1> DEFINE me == proc[q]
           blocked == WithReceipt(me, "blocked_changed")
           go == [me EXCEPT !.pc = "apply.inspect"]
<1>1. /\ me \in Process /\ me.path \in Paths /\ me.plan \in Plan /\ me.plan.path = me.path
      /\ me.plan \in approvals /\ me.plan.decision = "READY"
      /\ me.reg = me.plan.reg /\ me.reg \in Registration
  BY ApplyProcess DEF ApplyProtection
<1>2. /\ Continue(q, IF protected[me.path] THEN blocked ELSE go)
      /\ UNCHANGED <<now, world, files, stale, removals>>
  BY DEF ApplyProtection
<1> HIDE DEF me
<1>3. blocked \in Process /\ ProcOK(blocked)
  BY <1>1, WithReceiptOK DEF Results
<1>4. /\ go \in Process /\ go.pc = "apply.inspect" /\ go.path = me.path
      /\ go.plan = me.plan /\ go.reg = me.reg
  BY <1>1 DEF Process, PCs
<1> HIDE DEF go, blocked
<1>5. ProcOK(go)
  BY <1>1, <1>4 DEF ProcOK
<1>6. QED
  BY <1>2, <1>3, <1>4, <1>5, ContinueOK DEF TypeOK, IInv

\* A plan that passes the last check has a restorable snapshot of what is there.
LEMMA ApplyInspectOK ==
  ASSUME IInv, NEW q \in Procs, NEW here \in BOOLEAN, ApplyInspect(q, here)
  PROVE  IInv'
<1> DEFINE me == proc[q]
           blocked == WithReceipt(me, "blocked_changed")
           go == [me EXCEPT !.pc = "apply.remove"]
<1>1. /\ me \in Process /\ me.path \in Paths /\ me.plan \in Plan /\ me.plan.path = me.path
      /\ me.plan \in approvals /\ me.plan.decision = "READY"
      /\ me.reg = me.plan.reg /\ me.reg \in Registration
  BY ApplyProcess DEF ApplyInspect
<1>2. /\ Continue(q, IF Revalidated(me, here) THEN go ELSE blocked)
      /\ UNCHANGED <<now, world, files, stale, removals>>
  BY DEF ApplyInspect
<1>3. TypeOK /\ HeadsOK
  BY DEF IInv
<1> HIDE DEF me
<1>4. blocked \in Process /\ ProcOK(blocked)
  BY <1>1, WithReceiptOK DEF Results
<1>5. /\ go \in Process /\ go.pc = "apply.remove" /\ go.path = me.path
      /\ go.plan = me.plan /\ go.reg = me.reg
  BY <1>1 DEF Process, PCs
<1> HIDE DEF go, blocked
<1>6. ASSUME Revalidated(me, here) PROVE ProcOK(go)
  <2>1. Restorable(me.plan.snap) /\ me.plan.snap.id = wt[me.path].id
    BY <1>1, <1>3, <1>6, SnapshotType DEF Revalidated
  <2>2. me.plan.snap.id =< wt[me.path].id
    BY <1>1, <1>3, <2>1 DEF TypeOK, Worktree
  <2>3. me.plan.reg.expires # None /\ me.path \notin AgentRoots /\ me.path # Main
    BY <1>1, <1>6 DEF Revalidated, ReleaseValid, GatesPass, EarlyGates
  <2>4. QED
    BY <1>1, <1>5, <2>1, <2>2, <2>3 DEF ProcOK
<1>7. QED
  BY <1>2, <1>4, <1>5, <1>6, ContinueOK DEF TypeOK, IInv

\* A removal that is confirmed, or not, is about to be recorded.
LEMMA ApplyVerifyOK ==
  ASSUME IInv, NEW q \in Procs, ApplyVerify(q)
  PROVE  IInv'
<1> DEFINE me == proc[q]
           result == IF wt[me.path].kind = "absent" THEN "removed" ELSE "action_unverified"
           next == WithReceipt(me, result)
<1>1. /\ me \in Process /\ me.path \in Paths /\ me.plan \in Plan /\ me.plan.path = me.path
      /\ me.plan \in approvals /\ me.plan.decision = "READY"
      /\ me.reg = me.plan.reg /\ me.reg \in Registration
  BY ApplyProcess DEF ApplyVerify
<1>2. Restorable(me.plan.snap)
  BY DEF IInv, ProcOK, ApplyVerify
<1>3. Continue(q, next) /\ UNCHANGED <<now, world, files, stale, removals>>
  BY DEF ApplyVerify, Verified
<1>4. result \in Results \ {"recovered", "recovery_failed"}
  BY DEF Results
<1> HIDE DEF me, result
<1>5. next \in Process /\ ProcOK(next)
  BY <1>1, <1>2, <1>4, WithReceiptOK
<1>6. QED
  BY <1>3, <1>5, ContinueOK DEF TypeOK, IInv

\* A process about to write the receipt of a Recover is in order.
LEMMA WithRecoveryOK ==
  ASSUME NEW me \in Process, NEW result \in {"recovered", "recovery_failed"},
         me.path \in Paths, me.receipt \in Receipt, me.receipt.op = "recover",
         Restorable(me.receipt)
  PROVE  WithRecovery(me, result) \in Process /\ ProcOK(WithRecovery(me, result))
<1> DEFINE receipt == [me.receipt EXCEPT !.result = result]
           next == [me EXCEPT !.pc = "recover.receipt", !.receipt = receipt]
<1>1. /\ receipt \in Receipt
      /\ receipt.op = "recover" /\ receipt.result = result /\ Restorable(receipt)
  BY DEF Receipt, Results, Restorable
<1>2. WithRecovery(me, result) = next
  BY DEF WithRecovery
<1> HIDE DEF receipt
<1>3. /\ next \in Process /\ next.pc = "recover.receipt" /\ next.path = me.path
      /\ next.receipt = receipt
  BY <1>1 DEF Process, PCs, Opt
<1> HIDE DEF next
<1>4. ProcOK(next)
  BY <1>1, <1>3 DEF ProcOK
<1>5. QED
  BY <1>2, <1>3, <1>4

\* Recover starts from the receipt of a removal.
LEMMA RecoverReadOK ==
  ASSUME IInv, NEW q \in Procs, NEW i \in DOMAIN receipts, RecoverRead(q, i)
  PROVE  IInv'
<1> DEFINE r == receipts[i]
           copy == [r EXCEPT !.op = "recover"]
           me == [Idle EXCEPT !.path = r.plan.path, !.receipt = copy]
           go == [me EXCEPT !.pc = "recover.add"]
           next == IF Recoverable(r) THEN go ELSE WithRecovery(me, "recovery_failed")
<1>1. r \in Receipt
  BY DEF IInv, TypeOK
<1>2. r.plan.path \in Paths
  BY <1>1 DEF Receipt, Plan
<1>3. Restorable(r)
  BY <1>1 DEF RecoverRead, Receipt, Restorable, Opt
<1>4. Continue(q, next) /\ UNCHANGED <<now, world, files, stale, removals>>
  BY DEF RecoverRead, Begin, Continue
<1> HIDE DEF r
<1>5. copy \in Receipt /\ copy.op = "recover" /\ Restorable(copy)
  BY <1>1, <1>3 DEF Receipt, Restorable
<1> HIDE DEF copy
<1>6. me \in Process /\ me.path = r.plan.path /\ me.receipt = copy
  BY <1>2, <1>5, IdleOK DEF Process, Opt
<1> HIDE DEF me
<1>7. go \in Process /\ go.pc = "recover.add" /\ go.path = r.plan.path /\ go.receipt = copy
  BY <1>6 DEF Process, PCs
<1> HIDE DEF go
<1>8. ProcOK(go)
  BY <1>2, <1>5, <1>7 DEF ProcOK
<1>9. WithRecovery(me, "recovery_failed") \in Process
      /\ ProcOK(WithRecovery(me, "recovery_failed"))
  BY <1>2, <1>5, <1>6, WithRecoveryOK
<1>10. QED
  BY <1>4, <1>7, <1>8, <1>9, ContinueOK DEF TypeOK, IInv

\* A recovery that is confirmed, or not, is about to be recorded.
LEMMA RecoverVerifyOK ==
  ASSUME IInv, NEW q \in Procs, RecoverVerify(q)
  PROVE  IInv'
<1> DEFINE me == proc[q]
<1>1. me \in Process /\ ProcOK(me) /\ me.pc = "recover.verify"
  BY DEF IInv, TypeOK, RecoverVerify
<1>2. me.path \in Paths /\ me.receipt \in Receipt /\ me.receipt.op = "recover"
      /\ Restorable(me.receipt)
  BY <1>1 DEF ProcOK
<1>3. PICK result \in {"recovered", "recovery_failed"} : Continue(q, WithRecovery(me, result))
  BY DEF RecoverVerify
<1>4. UNCHANGED <<now, world, files, stale, removals>>
  BY DEF RecoverVerify
<1>5. WithRecovery(me, result) \in Process /\ ProcOK(WithRecovery(me, result))
  BY <1>1, <1>2, WithRecoveryOK
<1>6. QED
  BY <1>3, <1>4, <1>5, ContinueOK DEF TypeOK, IInv

\* Recover brings back the registration on disk, not retired.
LEMMA RecoverLoadOK ==
  ASSUME IInv, NEW q \in Procs, NEW here \in BOOLEAN, RecoverLoad(q, here)
  PROVE  IInv'
<1> DEFINE me == proc[q]
           old == registrations[me.path]
           snap == IF GatesPass(me.path, here) THEN TakeSnapshot(me.path, here) ELSE old.snap
           reg == [old EXCEPT !.retired = FALSE, !.expires = None, !.last = me.rid,
                              !.snap = snap]
           next == [me EXCEPT !.pc = "recover.register", !.reg = reg]
<1>1. TypeOK /\ HeadsOK /\ me \in Process /\ ProcOK(me) /\ me.pc = "recover.load"
  BY DEF IInv, TypeOK, RecoverLoad
<1>2. me.path \in Paths /\ me.rid \in Nat
  BY <1>1 DEF ProcOK, Process
<1>3. old \in Registration
  BY <1>1, <1>2 DEF RecoverLoad, TypeOK, Opt
<1>4. snap \in Snapshot
  BY <1>1, <1>2, <1>3, SnapshotType DEF Registration
<1>5. Continue(q, next) /\ UNCHANGED <<now, world, files, stale, removals>>
  BY DEF RecoverLoad
<1> HIDE DEF me, old, snap
<1>6. reg \in Registration /\ ~reg.retired
  BY <1>2, <1>3, <1>4 DEF Registration, Opt
<1> HIDE DEF reg
<1>7. next \in Process /\ next.pc = "recover.register" /\ next.path = me.path /\ next.reg = reg
  BY <1>1, <1>6 DEF Process, PCs, Opt
<1> HIDE DEF next
<1>8. ProcOK(next)
  BY <1>2, <1>6, <1>7 DEF ProcOK
<1>9. QED
  BY <1>5, <1>7, <1>8, ContinueOK DEF TypeOK, IInv

\* A process that stops leaves at most a temporary file.
LEMMA AbortOK ==
  ASSUME IInv, NEW q \in Procs, Abort(q)
  PROVE  IInv'
<1>1. Continue(q, Idle) /\ UNCHANGED <<now, world, files, removals>>
  BY DEF Abort
<1>2. WritesTo(proc[q].pc) \subseteq Dirs
  BY DEF WritesTo, Dirs
<1>3. stale' \subseteq Dirs
  BY <1>2 DEF Abort, IInv, TypeOK
<1>4. QED
  BY <1>1, <1>3, IdleOK, ContinueOK

\* Git removed the planned worktree: the new removal was authorised, and what
\* is left at the path is newer than what was planned.
LEMMA RemovalOK ==
  ASSUME IInv, NEW q \in Procs, proc[q].pc = "apply.remove",
         GitRemoves(proc[q].path),
         wt' = [wt EXCEPT ![proc[q].path] = Gone(@)],
         removals' = removals \cup {[plan |-> proc[q].plan, was |-> wt[proc[q].path]]},
         UNCHANGED <<now, refs, files, stale>>,
         NEW next \in Process, ProcOK(next), Continue(q, next)
  PROVE  IInv'
<1> DEFINE me == proc[q]
           p == me.path
           new == [plan |-> me.plan, was |-> wt[p]]
<1>1. TypeOK /\ HeadsOK /\ UNCHANGED <<now, refs, approvals, receipts, stale>>
  BY DEF IInv, files
<1>2. /\ me \in Process /\ p \in Paths /\ me.plan \in Plan /\ me.plan.path = p
      /\ me.plan \in approvals /\ me.plan.decision = "READY"
  BY ApplyProcess
<1>3. /\ me.plan.snap.id =< wt[p].id
      /\ me.plan.reg.expires # None /\ p \notin AgentRoots /\ p # Main
  BY DEF IInv, ProcOK
<1>4. wt[p] \in Worktree /\ wt[p].id \in Nat
  BY <1>1, <1>2 DEF TypeOK, Worktree
<1>5. Gone(wt[p]) \in Worktree /\ Gone(wt[p]).kind = "absent" /\ Gone(wt[p]).id = wt[p].id
  BY <1>4, GitType
<1>6. wt \in [Paths -> Worktree] /\ wt' = [wt EXCEPT ![p] = Gone(wt[p])]
  BY <1>1 DEF TypeOK
<1>7. ~wt[p].locked /\ (wt[p].kind = "linked" => wt[p].dirt # "changed")
  BY DEF GitRemoves
<1> HIDE DEF me, p
<1>8. wt' \in [Paths -> Worktree] /\ HeadsOK'
  <2>1. wt' \in [Paths -> Worktree]
    BY <1>5, <1>6
  <2>2. \A o \in Paths : wt'[o] = wt[o] \/ wt'[o].kind = "absent"
    BY <1>5, <1>6
  <2>3. QED
    BY <1>1, <2>1, <2>2 DEF HeadsOK
<1>9. \A o \in Paths : Newer(wt[o], wt'[o])
  BY <1>2, <1>4, <1>5, <1>6 DEF Newer, Worktree
<1>10. \A o \in Paths : wt[o].id =< wt'[o].id
  BY <1>9 DEF Newer
<1>11. new \in Removal
  BY <1>2, <1>4 DEF Removal
<1>12. removals' = removals \cup {new} /\ removals' \subseteq Removal
  BY <1>1, <1>11 DEF TypeOK, me, p
<1>13. RemovalsAuthorised'
  BY <1>1, <1>2, <1>3, <1>7, <1>12 DEF IInv, RemovalsAuthorised
<1>14. RemovalsPast'
  <2> SUFFICES ASSUME NEW r \in removals'
               PROVE  /\ r.plan.snap.id =< wt'[r.plan.path].id
                      /\ wt'[r.plan.path].kind \in {"linked", "prunable"}
                           => r.plan.snap.id < wt'[r.plan.path].id
    BY DEF RemovalsPast
  <2>1. r.plan.path \in Paths /\ r.plan.snap.id \in Nat
    BY <1>12 DEF Removal, Plan, Snapshot
  <2>2. CASE r = new
    <3>1. r.plan = me.plan /\ wt'[p] = Gone(wt[p])
      BY <1>2, <1>6, <2>2
    <3>2. QED
      BY <1>2, <1>3, <1>5, <3>1
  <2>3. CASE r \in removals
    <3> DEFINE w == wt[r.plan.path]
               v == wt'[r.plan.path]
    <3>1. w.id \in Nat /\ v.id \in Nat /\ Newer(w, v)
      BY <1>1, <1>8, <1>9, <2>1 DEF TypeOK, Worktree
    <3>2. r.plan.snap.id =< w.id /\ (w.kind \in {"linked", "prunable"} => r.plan.snap.id < w.id)
      BY <2>3 DEF IInv, RemovalsPast
    <3> HIDE DEF w, v
    <3>3. r.plan.snap.id =< v.id /\ (v.kind \in {"linked", "prunable"} => r.plan.snap.id < v.id)
      BY <2>1, <3>1, <3>2 DEF Newer
    <3>4. QED
      BY <3>3 DEF v
  <2>4. QED
    BY <1>12, <2>2, <2>3
<1>15. proc \in [Procs -> Process] /\ proc' = [proc EXCEPT ![q] = next]
  BY <1>1 DEF TypeOK, Continue
<1>16. ProcOK(next)'
  BY <1>1, <1>8, <1>10, CarriedOK
<1>17. proc' \in [Procs -> Process] /\ \A o \in Procs : proc'[o] = proc[o] \/ proc'[o] = next
  BY <1>15
<1>18. \A o \in Procs : proc'[o] = proc[o] \/ ProcOK(proc[o])'
  <2> SUFFICES ASSUME NEW o \in Procs, proc'[o] = next PROVE ProcOK(proc[o])'
    BY <1>17
  <2>1. QED
    BY <1>16 DEF ProcOK, NamesReceipt, Removed, Recovery, Restorable
<1>19. now' \in Nat /\ refs' \in [Refs -> Opt(Commits)] /\ stale' \subseteq Dirs
  BY <1>1 DEF TypeOK
<1>20. QED
  BY <1>8, <1>10, <1>12, <1>13, <1>14, <1>17, <1>18, <1>19, ChangeOK

\* Putting a worktree in order in place of one it is newer than.
LEMMA PutOK ==
  ASSUME IInv, NEW p \in Paths, NEW w \in Worktree, Newer(wt[p], w),
         w.kind = "linked" => w.head \in Commits,
         wt' = [wt EXCEPT ![p] = w]
  PROVE  wt' \in [Paths -> Worktree] /\ HeadsOK' /\ \A o \in Paths : Newer(wt[o], wt'[o])
<1>1. wt \in [Paths -> Worktree] /\ HeadsOK
  BY DEF IInv, TypeOK
<1>2. wt' \in [Paths -> Worktree] /\ \A o \in Paths : wt'[o] = IF o = p THEN w ELSE wt[o]
  BY <1>1
<1>3. HeadsOK'
  BY <1>1, <1>2 DEF HeadsOK
<1>4. \A o \in Paths : wt[o].id \in Nat /\ Newer(wt[o], wt[o])
  BY <1>1 DEF Newer, Worktree
<1>5. QED
  BY <1>2, <1>3, <1>4

\* The three outcomes of `git worktree remove'.
LEMMA ApplyRemoveOK ==
  ASSUME IInv, NEW q \in Procs, ApplyRemove(q)
  PROVE  IInv'
<1> DEFINE me == proc[q]
           p == me.path
           failed == ActionFailed(me)
           go == [me EXCEPT !.pc = "apply.verify"]
           half == [wt[p] EXCEPT !.dirt = "changed"]
<1>1. TypeOK /\ HeadsOK /\ proc[q].pc = "apply.remove"
      /\ UNCHANGED <<now, refs, files, stale>>
  BY DEF IInv, ApplyRemove
<1>2. /\ me \in Process /\ p \in Paths /\ me.plan \in Plan /\ me.plan.path = p
      /\ me.plan \in approvals /\ me.plan.decision = "READY"
      /\ me.reg = me.plan.reg /\ me.reg \in Registration
  BY <1>1, ApplyProcess
<1>3. /\ Restorable(me.plan.snap) /\ me.plan.snap.id =< wt[p].id
      /\ me.plan.reg.expires # None /\ p \notin AgentRoots /\ p # Main
  BY <1>1 DEF IInv, ProcOK
<1>4. failed \in Process /\ ProcOK(failed)
  BY <1>2, WithReceiptOK DEF ActionFailed, Results
<1>5. go \in Process /\ ProcOK(go)
  <2> HIDE DEF me
  <2>1. /\ go \in Process /\ go.pc = "apply.verify" /\ go.path = me.path
        /\ go.plan = me.plan /\ go.reg = me.reg
    BY <1>2 DEF Process, PCs
  <2> HIDE DEF go
  <2>2. QED
    BY <1>2, <1>3, <2>1 DEF ProcOK
<1>6. CASE /\ GitRemoves(p) /\ wt' = [wt EXCEPT ![p] = Gone(@)]
           /\ removals' = removals \cup {[plan |-> me.plan, was |-> wt[p]]}
           /\ Continue(q, go) \/ Continue(q, failed)
  BY <1>1, <1>4, <1>5, <1>6, RemovalOK
<1>7. CASE /\ GitRemoves(p) /\ wt[p].kind = "linked"
           /\ wt' = [wt EXCEPT ![p].dirt = "changed"]
           /\ Continue(q, failed) /\ UNCHANGED removals
  <2>1. wt[p] \in Worktree
    BY <1>1, <1>2 DEF TypeOK
  <2>2. half \in Worktree /\ half.kind = "linked" /\ half.head = wt[p].head /\ half.id = wt[p].id
    BY <1>7, <2>1 DEF Worktree, Dirt
  <2>3. wt[p].head \in Commits
    BY <1>1, <1>2, <1>7 DEF HeadsOK
  <2>4. wt' = [wt EXCEPT ![p] = half]
    BY <1>7
  <2>5. Newer(wt[p], half)
    BY <1>7, <2>1, <2>2 DEF Newer, Worktree
  <2> HIDE DEF half
  <2>6. wt' \in [Paths -> Worktree] /\ HeadsOK' /\ \A o \in Paths : Newer(wt[o], wt'[o])
    BY <1>2, <2>2, <2>3, <2>4, <2>5, PutOK
  <2>7. UNCHANGED <<registrations, protected, plans, approvals, receipts>>
    BY <1>1 DEF files
  <2> PICK next \in Process : ProcOK(next) /\ Continue(q, next)
    BY <1>4, <1>7
  <2>8. ProcOK(next)'
    BY <1>1, <2>6, <2>7, CarriedOK DEF Newer
  <2>9. now' \in Nat /\ refs' \in [Refs -> Opt(Commits)] /\ stale' \subseteq Dirs
    BY <1>1 DEF TypeOK
  <2>10. QED
    BY <1>1, <1>7, <2>6, <2>8, <2>9, StepOK DEF Continue
<1>8. CASE Continue(q, failed) /\ UNCHANGED <<wt, removals>>
  BY <1>1, <1>4, <1>8, ContinueOK DEF TypeOK, world
<1>9. QED
  BY <1>6, <1>7, <1>8 DEF ApplyRemove

\* The two outcomes of `git worktree add'.
LEMMA RecoverAddOK ==
  ASSUME IInv, NEW q \in Procs, RecoverAdd(q)
  PROVE  IInv'
<1> DEFINE me == proc[q]
           p == me.path
           added == GitAdded(wt[p], me.receipt.head)
           partial == [added EXCEPT !.dirt = "changed"]
           failed == WithRecovery(me, "recovery_failed")
           go == [me EXCEPT !.pc = "recover.verify"]
<1>1. /\ TypeOK /\ HeadsOK /\ me \in Process /\ ProcOK(me) /\ me.pc = "recover.add"
      /\ UNCHANGED <<now, refs, files, stale, removals>>
  BY DEF IInv, TypeOK, RecoverAdd
<1>2. p \in Paths /\ me.receipt \in Receipt /\ me.receipt.op = "recover" /\ Restorable(me.receipt)
  BY <1>1 DEF ProcOK
<1>3. failed \in Process /\ ProcOK(failed)
  BY <1>1, <1>2, WithRecoveryOK
<1>4. go \in Process /\ ProcOK(go)
  <2> HIDE DEF me
  <2>1. go \in Process /\ go.pc = "recover.verify" /\ go.path = me.path /\ go.receipt = me.receipt
    BY <1>1 DEF Process, PCs
  <2> HIDE DEF go
  <2>2. QED
    BY <1>2, <2>1 DEF ProcOK
<1>5. wt[p] \in Worktree /\ wt[p].id \in Nat /\ me.receipt.head \in Commits
  BY <1>1, <1>2 DEF TypeOK, Worktree, Restorable
<1>6. /\ added \in Worktree /\ added.head \in Commits /\ added.kind = "linked"
      /\ added.id = wt[p].id + 1
  BY <1>5, GitType
<1>7. ASSUME NEW w \in {added, partial}, wt' = [wt EXCEPT ![p] = w],
             NEW next \in {go, failed}, Continue(q, next)
      PROVE  IInv'
  <2> HIDE DEF added
  <2>1. w \in Worktree /\ w.head \in Commits /\ w.id = wt[p].id + 1
    BY <1>6, <1>7 DEF Worktree, Dirt
  <2>2. Newer(wt[p], w)
    BY <1>5, <2>1 DEF Newer
  <2>3. wt' \in [Paths -> Worktree] /\ HeadsOK' /\ \A o \in Paths : Newer(wt[o], wt'[o])
    BY <1>2, <1>7, <2>1, <2>2, PutOK
  <2>4. UNCHANGED <<registrations, protected, plans, approvals, receipts>>
    BY <1>1 DEF files
  <2>5. next \in Process /\ ProcOK(next)
    BY <1>3, <1>4, <1>7
  <2>6. ProcOK(next)'
    BY <1>1, <2>3, <2>4, <2>5, CarriedOK DEF Newer
  <2>7. now' \in Nat /\ refs' \in [Refs -> Opt(Commits)] /\ stale' \subseteq Dirs
    BY <1>1 DEF TypeOK
  <2>8. QED
    BY <1>1, <1>7, <2>3, <2>5, <2>6, <2>7, StepOK DEF Continue
<1>8. CASE Continue(q, failed) /\ UNCHANGED wt
  BY <1>1, <1>3, <1>8, ContinueOK DEF TypeOK, world
<1>9. QED
  BY <1>7, <1>8 DEF RecoverAdd

-----------------------------------------------------------------------------
(* Records.                                                                *)

\* Approvals and receipts are only ever added to.
Grows ==
  /\ approvals \subseteq approvals'
  /\ DOMAIN receipts \subseteq DOMAIN receipts'
  /\ \A i \in DOMAIN receipts : receipts'[i] = receipts[i]

\* A registration goes on naming its receipt when more are written.
LEMMA NamesReceiptStable ==
  ASSUME Grows, NEW reg, NEW p, NamesReceipt(reg, p)
  PROVE  NamesReceipt(reg, p)'
BY DEF Grows, NamesReceipt, Removed, Recovery

\* A step that publishes a record preserves the invariant if the record and
\* the process that goes on are in order.
LEMMA PublishOK ==
  ASSUME IInv, NEW q \in Procs, NEW next \in Process, ProcOK(next)', Continue(q, next),
         UNCHANGED <<now, world, stale, removals>>,
         registrations' \in [Paths -> Opt(Registration)],
         protected' \in [Paths -> BOOLEAN],
         plans' \subseteq Plan, approvals' \subseteq Plan, receipts' \in Seq(Receipt),
         Grows, ReceiptsReadable', RetiredNamesItsReceipt'
  PROVE  IInv'
<1>1. TypeOK /\ UNCHANGED <<now, wt, refs, stale, removals>>
  BY DEF IInv, world
<1>2. proc \in [Procs -> Process] /\ proc' = [proc EXCEPT ![q] = next]
  BY <1>1 DEF TypeOK, Continue
<1>3. TypeOK' /\ HeadsOK'
  BY <1>1, <1>2 DEF IInv, TypeOK, HeadsOK
<1>4. \A o \in Procs : ProcOK(proc[o])'
  <2> SUFFICES ASSUME NEW o \in Procs PROVE ProcOK(proc[o])'
    OBVIOUS
  <2>1. CASE o = q
    <3>1. proc'[o] = next
      BY <1>2, <2>1
    <3>2. QED
      BY <3>1 DEF ProcOK, NamesReceipt, Removed, Recovery, Restorable
  <2>2. CASE o # q
    <3>1. proc'[o] = proc[o] /\ ProcOK(proc[o])
      BY <1>2, <2>2 DEF IInv
    <3>2. NamesReceipt(proc[o].reg, proc[o].path) => NamesReceipt(proc[o].reg, proc[o].path)'
      BY <3>1, NamesReceiptStable DEF Grows, NamesReceipt, Removed, Recovery
    <3>3. QED
      BY <1>1, <3>1, <3>2 DEF ProcOK, Grows, Restorable
  <2>3. QED
    BY <2>1, <2>2
<1>5. RemovalsAuthorised' /\ RemovalsPast'
  BY <1>1 DEF IInv, RemovalsAuthorised, RemovalsPast, Grows
<1>6. QED
  BY <1>3, <1>4, <1>5 DEF IInv

\* Each registration a command writes is either not retired or names the
\* receipt that was written before it.
LEMMA WriteRegistrationOK ==
  ASSUME IInv, NEW q \in Procs, WriteRegistration(q)
  PROVE  IInv'
<1> DEFINE me == proc[q]
<1>1. /\ TypeOK /\ ProcOK(me) /\ Continue(q, Idle)
      /\ registrations' = [registrations EXCEPT ![me.path] = me.reg]
      /\ me.pc \in {"register.write", "release.write", "apply.register", "recover.register"}
      /\ UNCHANGED <<now, world, protected, plans, approvals, receipts, stale, removals>>
  BY DEF IInv, WriteRegistration, Publish
<1>2. /\ me.path \in Paths /\ me.reg \in Registration
      /\ me.reg.retired => NamesReceipt(me.reg, me.path)
  BY <1>1 DEF ProcOK
<1>3. Grows
  BY <1>1 DEF Grows
<1> HIDE DEF me
<1>4. registrations' \in [Paths -> Opt(Registration)]
  BY <1>1, <1>2 DEF TypeOK, Opt
<1>5. RetiredNamesItsReceipt'
  <2> SUFFICES ASSUME NEW p \in Paths, registrations'[p] # None, registrations'[p].retired
               PROVE  NamesReceipt(registrations[p], p)'
    BY DEF RetiredNamesItsReceipt
  <2>1. CASE p = me.path
    <3>1. registrations'[p] = me.reg /\ NamesReceipt(me.reg, p)
      BY <1>1, <1>2, <2>1 DEF TypeOK
    <3>2. QED
      BY <1>1, <3>1 DEF NamesReceipt, Removed, Recovery
  <2>2. CASE p # me.path
    <3>1. registrations'[p] = registrations[p] /\ NamesReceipt(registrations[p], p)
      BY <1>1, <1>2, <2>2 DEF TypeOK, IInv, RetiredNamesItsReceipt
    <3>2. QED
      BY <1>1, <3>1 DEF NamesReceipt, Removed, Recovery
  <2>3. QED
    BY <2>1, <2>2
<1>6. ReceiptsReadable'
  BY <1>1 DEF IInv, ReceiptsReadable, ValidReceipt, Recovery
<1>7. Idle \in Process /\ ProcOK(Idle)'
  BY IdleOK DEF ProcOK
<1>8. QED
  BY <1>1, <1>3, <1>4, <1>5, <1>6, <1>7, PublishOK DEF TypeOK

\* Protection, plans and approvals.
LEMMA WriteOtherOK ==
  ASSUME IInv, NEW q \in Procs, WriteProtection(q) \/ WritePlan(q) \/ WriteApproval(q)
  PROVE  IInv'
<1>1. /\ TypeOK /\ Continue(q, Idle)
      /\ UNCHANGED <<now, world, registrations, receipts, stale, removals>>
  BY DEF IInv, WriteProtection, WritePlan, WriteApproval, Publish
<1>2. proc[q] \in Process /\ ProcOK(proc[q])
  BY DEF IInv, TypeOK
<1>3. protected' \in [Paths -> BOOLEAN]
  BY <1>1, <1>2 DEF TypeOK, Process, ProcOK, WriteProtection, WritePlan, WriteApproval
<1>4. plans' \subseteq Plan /\ approvals' \subseteq Plan /\ approvals \subseteq approvals'
  BY <1>1, <1>2 DEF TypeOK, ProcOK, WriteProtection, WritePlan, WriteApproval
<1>5. Grows
  BY <1>1, <1>4 DEF Grows
<1>6. RetiredNamesItsReceipt' /\ ReceiptsReadable'
  BY <1>1 DEF IInv, RetiredNamesItsReceipt, ReceiptsReadable, ValidReceipt, NamesReceipt,
              Removed, Recovery
<1>7. Idle \in Process /\ ProcOK(Idle)'
  BY IdleOK DEF ProcOK
<1>8. QED
  BY <1>1, <1>3, <1>4, <1>5, <1>6, <1>7, PublishOK DEF TypeOK

\* A receipt a process writes is readable, and the registration that follows a
\* successful removal names it.
LEMMA WriteReceiptOK ==
  ASSUME IInv, NEW q \in Procs, WriteReceipt(q)
  PROVE  IInv'
<1>1. TypeOK /\ Len(receipts) \in Nat /\ receipts \in Seq(Receipt)
  BY DEF IInv, TypeOK
<1>2. PICK me \in Process : me = proc[q] /\ ProcOK(me)
  BY DEF IInv, TypeOK
<1>3. PICK id \in Nat : id = Len(receipts) + 1
  BY <1>1
<1> DEFINE retired == [me.reg EXCEPT !.retired = TRUE, !.last = id]
           register == [me EXCEPT !.pc = "apply.register", !.reg = retired]
           load == [me EXCEPT !.pc = "recover.load", !.rid = id]
           next == CASE me.receipt.result = "removed" -> register
                     [] me.receipt.result = "recovered" -> load
                     [] OTHER -> Idle
<1>4. /\ me.pc \in {"apply.receipt", "recover.receipt"}
      /\ receipts' = Append(receipts, me.receipt)
      /\ UNCHANGED <<now, world, registrations, protected, plans, approvals, stale, removals>>
  BY <1>2 DEF WriteReceipt
<1>5. Continue(q, next)
  BY <1>2, <1>3 DEF WriteReceipt, Publish
<1>6. me.path \in Paths /\ me.receipt \in Receipt /\ me.receipt.result \in Results
  BY <1>2, <1>4 DEF ProcOK, Receipt
<1>7. me.receipt.result = "removed" =>
        /\ me.receipt.op = "retire" /\ me.receipt.plan.path = me.path
        /\ me.reg \in Registration /\ Recovery(me.receipt) = "tracked-commit-only"
  BY <1>2, <1>4, NoneIsNothing DEF ProcOK, Recovery, Restorable
<1>8. me.receipt.result = "recovered" =>
        me.receipt.op = "recover" /\ Recovery(me.receipt) = "tracked-commit-only"
  BY <1>2, <1>4, NoneIsNothing DEF ProcOK, Recovery, Restorable
<1>9. ValidReceipt(me.receipt)
  BY <1>6, <1>7, <1>8 DEF ValidReceipt
<1>10. /\ receipts' \in Seq(Receipt) /\ id \in DOMAIN receipts' /\ receipts'[id] = me.receipt
       /\ DOMAIN receipts' = DOMAIN receipts \cup {id}
       /\ \A i \in DOMAIN receipts : i \in DOMAIN receipts' /\ receipts'[i] = receipts[i]
  BY <1>1, <1>3, <1>4, <1>6
<1>11. Grows
  BY <1>4, <1>10 DEF Grows
<1>12. ReceiptsReadable'
  BY <1>9, <1>10 DEF IInv, ReceiptsReadable, ValidReceipt, Recovery
<1>13. RetiredNamesItsReceipt'
  BY <1>4, <1>11, NamesReceiptStable DEF IInv, RetiredNamesItsReceipt
<1>14. next \in Process /\ ProcOK(next)'
  <2>1. CASE me.receipt.result = "removed"
    <3>1. retired \in Registration /\ retired.last = id
      BY <1>7, <2>1 DEF Registration
    <3> HIDE DEF retired
    <3>2. /\ register \in Process /\ register.pc = "apply.register"
          /\ register.path = me.path /\ register.reg = retired
      BY <1>2, <3>1 DEF Process, PCs, Opt
    <3>3. NamesReceipt(retired, me.path)'
      BY <1>7, <1>10, <2>1, <3>1 DEF NamesReceipt, Removed, Recovery
    <3>4. next = register
      BY <2>1
    <3> HIDE DEF register, next
    <3>5. QED
      BY <1>6, <3>1, <3>2, <3>3, <3>4 DEF ProcOK
  <2>2. CASE me.receipt.result = "recovered"
    <3>1. load \in Process /\ load.pc = "recover.load" /\ load.path = me.path
      BY <1>2, <1>3 DEF Process, PCs
    <3>2. next = load
      BY <2>2
    <3> HIDE DEF load, next
    <3>3. QED
      BY <1>6, <3>1, <3>2 DEF ProcOK
  <2>3. CASE me.receipt.result \notin {"removed", "recovered"}
    <3>1. next = Idle
      BY <2>3
    <3> HIDE DEF next
    <3>2. QED
      BY <3>1, IdleOK DEF ProcOK
  <2>4. QED
    BY <2>1, <2>2, <2>3
<1> HIDE DEF next
<1>15. QED
  BY <1>1, <1>4, <1>5, <1>10, <1>11, <1>12, <1>13, <1>14, PublishOK DEF TypeOK

-----------------------------------------------------------------------------
(* The owner and the clock.                                                *)

\* A step of no process.
LEMMA OutsideOK ==
  ASSUME IInv, now' \in Nat, wt' \in [Paths -> Worktree], HeadsOK',
         \A p \in Paths : Newer(wt[p], wt'[p]),
         refs' \in [Refs -> Opt(Commits)],
         UNCHANGED <<files, stale, proc, removals>>
  PROVE  IInv'
<1>1. stale' \subseteq Dirs /\ proc' \in [Procs -> Process] /\ UNCHANGED <<files, removals>>
      /\ \A o \in Procs : proc'[o] = proc[o] \/ ProcOK(proc[o])'
  BY DEF IInv, TypeOK
<1>2. QED
  BY <1>1, WorldOK, ChangeOK

\* A step of the owner that puts a worktree in order at one path.
LEMMA OwnerPutOK ==
  ASSUME IInv, NEW p \in Paths, NEW w \in Worktree, Newer(wt[p], w),
         w.kind = "linked" => w.head \in Commits,
         wt' = [wt EXCEPT ![p] = w],
         refs' \in [Refs -> Opt(Commits)],
         UNCHANGED <<now, files, stale, proc, removals>>
  PROVE  IInv'
<1>1. wt' \in [Paths -> Worktree] /\ HeadsOK' /\ \A o \in Paths : Newer(wt[o], wt'[o])
  BY PutOK
<1>2. now' \in Nat /\ UNCHANGED <<files, stale, proc, removals>>
  BY DEF IInv, TypeOK
<1>3. QED
  BY <1>1, <1>2, OutsideOK

\* Whatever the owner does to worktrees and refs, nothing recorded is undone.
LEMMA OwnerOK ==
  ASSUME IInv, Owner
  PROVE  IInv'
<1>1. /\ TypeOK /\ HeadsOK
      /\ wt \in [Paths -> Worktree] /\ refs \in [Refs -> Opt(Commits)]
      /\ UNCHANGED <<now, files, stale, proc, removals>>
  BY DEF IInv, TypeOK, Owner, OwnerCommits, OwnerEdits, OwnerLocks, OwnerAdds,
         OwnerReplaces, OwnerMovesRef, OwnerMove
<1>2. ASSUME NEW p \in Paths
      PROVE  wt[p] \in Worktree /\ wt[p].id \in Nat /\ (wt[p].kind = "linked" => wt[p].head \in Commits)
  BY <1>1 DEF Worktree, HeadsOK
<1>3. ASSUME NEW p \in Paths, NEW c \in Commits, OwnerCommits(p, c)
      PROVE  IInv'
  <2> DEFINE old == wt[p]
             id  == old.id + 1
             w   == [old EXCEPT !.head = c, !.dirt = "clean", !.id = id]
  <2>1. refs' \in [Refs -> Opt(Commits)]
    BY <1>1, <1>3 DEF OwnerCommits, Opt
  <2>2. w \in Worktree /\ w.head \in Commits /\ w.id = wt[p].id + 1
    <3>1. old \in Worktree /\ id \in Nat
      BY <1>2
    <3> HIDE DEF old, id
    <3>2. w \in Worktree /\ w.head = c /\ w.id = id
      BY <3>1 DEF Worktree, Dirt, Opt
    <3>3. QED
      BY <3>2 DEF old, id
  <2>3. wt' = [wt EXCEPT ![p] = w]
    BY <1>1, <1>3 DEF OwnerCommits
  <2> HIDE DEF w
  <2>4. Newer(wt[p], w)
    BY <1>2, <2>2 DEF Newer
  <2>5. QED
    BY <1>1, <2>1, <2>2, <2>3, <2>4, OwnerPutOK
<1>4. ASSUME NEW p \in Paths, NEW dirt \in Dirt, OwnerEdits(p, dirt)
      PROVE  IInv'
  <2> DEFINE w == [wt[p] EXCEPT !.dirt = dirt]
  <2>1. /\ w \in Worktree /\ w.head = wt[p].head /\ w.id = wt[p].id /\ w.kind = wt[p].kind
    BY <1>2 DEF Worktree
  <2>2. wt' = [wt EXCEPT ![p] = w] /\ refs' = refs
    BY <1>4 DEF OwnerEdits
  <2> HIDE DEF w
  <2>3. Newer(wt[p], w)
    BY <1>2, <2>1 DEF Newer
  <2>4. QED
    BY <1>1, <1>2, <2>1, <2>2, <2>3, OwnerPutOK
<1>5. ASSUME NEW p \in Paths, OwnerLocks(p)
      PROVE  IInv'
  <2> DEFINE w == [wt[p] EXCEPT !.locked = ~wt[p].locked]
  <2>1. /\ w \in Worktree /\ w.head = wt[p].head /\ w.id = wt[p].id /\ w.kind = wt[p].kind
    BY <1>2 DEF Worktree
  <2>2. wt' = [wt EXCEPT ![p] = w] /\ refs' = refs
    BY <1>5 DEF OwnerLocks
  <2> HIDE DEF w
  <2>3. Newer(wt[p], w)
    BY <1>2, <2>1 DEF Newer
  <2>4. QED
    BY <1>1, <1>2, <2>1, <2>2, <2>3, OwnerPutOK
<1>6. ASSUME NEW p \in Paths, NEW out \in CheckOuts, OwnerAdds(p, out)
      PROVE  IInv'
  <2> DEFINE g == GitAdded(wt[p], out.head)
             w == [g EXCEPT !.branch = out.branch]
  <2>1. out.head \in Commits /\ out.branch \in Opt(Refs)
    <3>1. CASE out \in {[head |-> c, branch |-> None] : c \in Commits}
      BY <3>1 DEF Opt
    <3>2. ASSUME NEW b \in Branches, refs[b] # None, out = [head |-> refs[b], branch |-> b]
          PROVE  out.head \in Commits /\ out.branch \in Opt(Refs)
      <4>1. b \in Refs /\ refs[b] \in Commits
        BY <1>1, <3>2 DEF Branches, Opt
      <4>2. QED
        BY <3>2, <4>1 DEF Opt
    <3>3. QED
      BY <3>1, <3>2 DEF CheckOuts
  <2>2. g \in Worktree /\ g.head \in Commits /\ g.id = wt[p].id + 1
    BY <1>2, <2>1, GitType
  <2>3. wt' = [wt EXCEPT ![p] = w] /\ refs' = refs
    BY <1>1, <1>6 DEF OwnerAdds
  <2> HIDE DEF g
  <2>4. w \in Worktree /\ w.head \in Commits /\ w.id = wt[p].id + 1
    BY <2>1, <2>2 DEF Worktree
  <2> HIDE DEF w
  <2>5. Newer(wt[p], w)
    BY <1>2, <2>4 DEF Newer
  <2>6. QED
    BY <1>1, <2>3, <2>4, <2>5, OwnerPutOK
<1>7. ASSUME NEW p \in Paths, NEW kind \in Kinds, OwnerReplaces(p, kind)
      PROVE  IInv'
  <2> DEFINE g == Gone(wt[p])
             w == IF kind = "prunable" THEN [wt[p] EXCEPT !.kind = kind]
                  ELSE [g EXCEPT !.kind = kind]
  <2>1. g \in Worktree /\ g.id = wt[p].id
    BY <1>2, GitType
  <2>2. wt' = [wt EXCEPT ![p] = w] /\ refs' = refs
    BY <1>7 DEF OwnerReplaces
  <2>3. /\ kind = "prunable" => wt[p].kind = "linked"
        /\ kind \in {"absent", "prunable", "occupied"}
    BY <1>7 DEF OwnerReplaces
  <2> HIDE DEF g
  <2>4. w \in Worktree /\ w.id = wt[p].id /\ w.kind = kind
    BY <1>2, <2>1 DEF Worktree
  <2> HIDE DEF w
  <2>5. Newer(wt[p], w)
    BY <1>2, <2>3, <2>4 DEF Newer
  <2>6. QED
    BY <1>1, <2>2, <2>3, <2>4, <2>5, OwnerPutOK
<1>8. ASSUME NEW r \in Refs, NEW c \in Opt(Commits), OwnerMovesRef(r, c)
      PROVE  IInv'
  <2>1. wt' = wt /\ refs' = [refs EXCEPT ![r] = c]
    BY <1>8 DEF OwnerMovesRef
  <2>2. refs' \in [Refs -> Opt(Commits)]
    BY <1>1, <2>1
  <2>3. HeadsOK' /\ \A p \in Paths : Newer(wt[p], wt'[p])
    BY <1>1, <1>2, <2>1 DEF HeadsOK, Newer
  <2>4. QED
    BY <1>1, <2>1, <2>2, <2>3, OutsideOK DEF TypeOK
<1>9. QED
  BY <1>3, <1>4, <1>5, <1>6, <1>7, <1>8 DEF Owner

\* Time passes.
LEMMA TickOK ==
  ASSUME IInv, Tick
  PROVE  IInv'
<1>1. TypeOK /\ HeadsOK /\ now' = now + 1
      /\ UNCHANGED <<wt, refs, files, stale, proc, removals>>
  BY DEF IInv, Tick, world
<1>2. HeadsOK' /\ \A p \in Paths : Newer(wt[p], wt'[p])
  BY <1>1 DEF TypeOK, Worktree, HeadsOK, Newer
<1>3. QED
  BY <1>1, <1>2, OutsideOK DEF TypeOK

-----------------------------------------------------------------------------
(* The theorems.                                                           *)

\* The invariant is inductive: every step of a command, of the owner or of the
\* clock preserves it.
LEMMA NextOK ==
  ASSUME IInv, [Next]_vars
  PROVE  IInv'
<1>1. CASE Tick
  BY <1>1, TickOK
<1>2. CASE Owner
  BY <1>2, OwnerOK
<1>3. ASSUME NEW q \in Procs, Writes(q)
      PROVE  IInv'
  BY <1>3, WriteRegistrationOK, WriteOtherOK, WriteReceiptOK DEF Writes
<1>4. ASSUME NEW q \in Procs, Reads(q)
      PROVE  IInv'
  <2>1. ASSUME NEW p \in Paths, NEW here \in BOOLEAN,
               RegisterRead(q, p, here) \/ ReleaseRead(q, p, here) \/ PlanRead(q, p, here)
        PROVE  IInv'
    BY <2>1, RegisterReadOK, ReleaseReadOK, PlanReadOK
  <2>2. ASSUME NEW p \in Paths, NEW want \in BOOLEAN, ProtectRead(q, p, want)
        PROVE  IInv'
    BY <2>2, ProtectReadOK
  <2>3. ASSUME NEW plan \in plans, ApproveRead(q, plan) \/ ApplyRead(q, plan)
        PROVE  IInv'
    BY <2>3, ApproveReadOK, ApplyReadOK
  <2>4. ASSUME NEW i \in DOMAIN receipts, RecoverRead(q, i)
        PROVE  IInv'
    BY <2>4, RecoverReadOK
  <2>5. QED
    BY <1>4, <2>1, <2>2, <2>3, <2>4 DEF Reads
<1>5. ASSUME NEW q \in Procs, Acts(q)
      PROVE  IInv'
  BY <1>5, ApplyProtectionOK, ApplyRemoveOK, ApplyVerifyOK, RecoverAddOK, RecoverVerifyOK,
     ApplyInspectOK, RecoverLoadOK DEF Acts
<1>6. ASSUME NEW q \in Procs, Abort(q)
      PROVE  IInv'
  BY <1>6, AbortOK
<1>7. CASE UNCHANGED vars
  <2>1. UNCHANGED <<now, wt, refs, registrations, protected, plans, approvals,
                    receipts, stale, proc, removals>>
    BY <1>7 DEF vars
  <2>2. TypeOK /\ HeadsOK
    BY DEF IInv
  <2>3. now' \in Nat /\ wt' \in [Paths -> Worktree] /\ HeadsOK'
        /\ refs' \in [Refs -> Opt(Commits)] /\ \A p \in Paths : Newer(wt[p], wt'[p])
    BY <2>1, <2>2 DEF TypeOK, Worktree, HeadsOK, Newer
  <2>4. UNCHANGED <<files, stale, proc, removals>>
    BY <2>1 DEF files
  <2>5. QED
    BY <2>3, <2>4, OutsideOK
<1>8. QED
  BY <1>1, <1>2, <1>3, <1>4, <1>5, <1>6, <1>7 DEF Next

\* The invariant holds in every state of every behaviour.
THEOREM Invariant == Spec => []IInv
<1>1. Init => IInv
  BY InitOK
<1>2. IInv /\ [Next]_vars => IInv'
  BY NextOK
<1>3. QED
  BY <1>1, <1>2, PTL DEF Spec

\* Types are respected, whatever the instance.
THEOREM TypeCorrect == Spec => []TypeOK
<1>1. IInv => TypeOK
  BY DEF IInv
<1>2. QED
  BY <1>1, Invariant, PTL

\* A registration that says "retired" names the receipt its worktree can be
\* recovered from, whatever commands overlap, fail or die.
THEOREM RetiredNamesReceipt == Spec => []RetiredNamesItsReceipt
<1>1. IInv => RetiredNamesItsReceipt
  BY DEF IInv
<1>2. QED
  BY <1>1, Invariant, PTL

\* Every receipt that is written can be read back.
THEOREM ReceiptsCanBeRead == Spec => []ReceiptsReadable
<1>1. IInv => ReceiptsReadable
  BY DEF IInv
<1>2. QED
  BY <1>1, Invariant, PTL

\* Every removal was planned, released and approved, and took no change with it.
THEOREM RemovalsAreAuthorised == Spec => []RemovalsAuthorised
<1>1. IInv => RemovalsAuthorised
  BY DEF IInv
<1>2. QED
  BY <1>1, Invariant, PTL

\* A step to the removal comes from an inspection that was passed.
LEMMA RemoveStep ==
  ASSUME IInv, [Next]_vars, NEW q \in Procs,
         proc[q].pc = "apply.inspect", proc'[q].pc = "apply.remove"
  PROVE  \E here \in BOOLEAN : ApplyInspect(q, here) /\ Revalidated(proc[q], here)
<1>1. proc \in [Procs -> Process] /\ proc'[q] # proc[q]
  BY DEF IInv, TypeOK
<1>2. ~Tick /\ ~Owner /\ ~(UNCHANGED vars)
  BY <1>1 DEF Tick, Owner, OwnerCommits, OwnerEdits, OwnerLocks, OwnerAdds, OwnerReplaces,
              OwnerMovesRef, OwnerMove, vars
<1>3. PICK o \in Procs : Writes(o) \/ Reads(o) \/ Acts(o) \/ Abort(o)
  BY <1>2 DEF Next
<1>4. PICK next : Continue(o, next)
  <2>1. Writes(o) => \E next : Continue(o, next)
    BY DEF Writes, WriteRegistration, WriteProtection, WritePlan, WriteApproval, WriteReceipt,
           Publish
  <2>2. Reads(o) => \E next : Continue(o, next)
    BY DEF Reads, RegisterRead, ReleaseRead, ProtectRead, PlanRead, ApproveRead, ApplyRead,
           RecoverRead, Begin, Continue
  <2>3. Acts(o) => \E next : Continue(o, next)
    BY DEF Acts, ApplyProtection, ApplyInspect, ApplyRemove, ApplyVerify, RecoverAdd,
           RecoverVerify, RecoverLoad
  <2>4. Abort(o) => \E next : Continue(o, next)
    BY DEF Abort
  <2>5. QED
    BY <1>3, <2>1, <2>2, <2>3, <2>4
<1>5. o = q /\ proc'[q] = next
  BY <1>1, <1>4 DEF Continue
<1>6. ~Writes(q) /\ ~Reads(q)
  BY DEF Writes, WriteRegistration, WriteProtection, WritePlan, WriteApproval, WriteReceipt,
         Reads, RegisterRead, ReleaseRead, ProtectRead, PlanRead, ApproveRead, ApplyRead,
         RecoverRead, Begin
<1>7. ~Abort(q)
  BY <1>1, IdleOK DEF Abort, Continue
<1>8. PICK here \in BOOLEAN : ApplyInspect(q, here)
  BY <1>3, <1>5, <1>6, <1>7 DEF Acts, ApplyProtection, ApplyRemove, ApplyVerify, RecoverAdd,
     RecoverVerify, RecoverLoad
<1>9. ASSUME ~Revalidated(proc[q], here)
      PROVE  FALSE
  <2>1. proc'[q] = WithReceipt(proc[q], "blocked_changed")
    BY <1>1, <1>8, <1>9 DEF ApplyInspect, Continue
  <2>2. proc[q] \in Process
    BY <1>1
  <2>3. WithReceipt(proc[q], "blocked_changed").pc = "apply.receipt"
    BY <2>2 DEF WithReceipt, Process
  <2>4. QED
    BY <2>1, <2>3
<1>10. QED
  BY <1>8, <1>9

\* A plan Git has acted on never passes the last check again: what is at its
\* path now has another identity.
THEOREM UsedPlanIsSpent == Spec => UsedPlanNeverRevalidates
<1> DEFINE A == \A q \in Procs :
                  proc[q].pc = "apply.inspect" /\ proc'[q].pc = "apply.remove"
                  => \A r \in removals : r.plan # proc[q].plan
<1>1. IInv /\ [Next]_vars => A
  <2> SUFFICES ASSUME IInv, [Next]_vars, NEW q \in Procs,
                      proc[q].pc = "apply.inspect", proc'[q].pc = "apply.remove",
                      NEW r \in removals, r.plan = proc[q].plan
               PROVE  FALSE
    OBVIOUS
  <2>1. PICK here \in BOOLEAN : ApplyInspect(q, here) /\ Revalidated(proc[q], here)
    BY RemoveStep
  <2> DEFINE p == proc[q].path
  <2>2. p \in Paths /\ r.plan.path = p /\ r.plan.snap.id \in Nat /\ wt[p].id \in Nat
    BY ApplyProcess DEF IInv, TypeOK, Plan, Snapshot, Worktree
  <2>3. r.plan.snap.id = wt[p].id /\ wt[p].kind = "linked"
    BY <2>1, <2>2, SnapshotType DEF IInv, Revalidated, GatesPass, EarlyGates
  <2>4. r.plan.snap.id < wt[p].id
    BY <2>2, <2>3 DEF IInv, RemovalsPast
  <2>5. QED
    BY <2>2, <2>3, <2>4
<1>2. QED
  BY <1>1, Invariant, PTL DEF Spec, UsedPlanNeverRevalidates
=============================================================================
