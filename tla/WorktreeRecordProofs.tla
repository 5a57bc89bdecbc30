------------------------ MODULE WorktreeRecordProofs ------------------------
(***************************************************************************)
(* What the records of worktree retirement can be trusted with, for every  *)
(* value of the constants of WorktreeRetirement and however many processes *)
(* overlap.  Each part adds to IInv an invariant of its own:               *)
(*                                                                         *)
(*   ReleaseInv  what records and processes know of releases is true, so   *)
(*               that one release of the owner covers each removal;        *)
(*   ClaimInv    each claim of a removal, made or pending, has a removal   *)
(*               of its own, so that none is claimed by two receipts;      *)
(*   KeptInv     what a plan or a receipt retains is what its branch names *)
(*               as long as no ref moves, so that a retirement can be      *)
(*               recovered, unless an annotated tag keeps its head.        *)
(***************************************************************************)
EXTENDS WorktreeRetirementProofs

-----------------------------------------------------------------------------
(* Releases.  The clock is compared with a release three times: when it is *)
(* given, when a plan is made and at the last check of Apply.  Nothing     *)
(* keeps the three together but the records, which other commands replace. *)

\* What an idle process knows is in order.
LEMMA IdleRelease == KnownRelease(Idle)
BY IdleOK DEF KnownRelease

\* A step of one process preserves ReleaseInv if what the process knows
\* next, the registrations and the plans are in order.
LEMMA ReleaseStepOK ==
  ASSUME IInv, ReleaseInv, NEW q \in Procs, NEW next, KnownRelease(next), Continue(q, next),
         UNCHANGED now,
         \A p \in Paths : registrations'[p] # None => ReleasePast(registrations'[p]),
         \A plan \in plans' : PlannedUnderRelease(plan)
  PROVE  ReleaseInv'
<1>1. proc \in [Procs -> Process] /\ proc' = [proc EXCEPT ![q] = next]
  BY DEF IInv, TypeOK, Continue
<1>2. \A o \in Procs : KnownRelease(proc'[o])
  BY <1>1 DEF ReleaseInv
<1>3. \A o \in Procs : KnownRelease(proc[o])'
  BY <1>2 DEF KnownRelease, ReleasePast, PlannedUnderRelease
<1>4. QED
  BY <1>3 DEF ReleaseInv, ReleasePast, PlannedUnderRelease

\* The common case: no record changes.
LEMMA ReleaseContinueOK ==
  ASSUME IInv, ReleaseInv, NEW q \in Procs, NEW next, KnownRelease(next), Continue(q, next),
         UNCHANGED <<now, files>>
  PROVE  ReleaseInv'
<1>1. /\ \A p \in Paths : registrations'[p] # None => ReleasePast(registrations'[p])
      /\ \A plan \in plans' : PlannedUnderRelease(plan)
  BY DEF files, ReleaseInv
<1>2. QED
  BY <1>1, ReleaseStepOK

\* A step of no process: time may pass, and nothing that was past is undone.
LEMMA ReleaseOutsideOK ==
  ASSUME IInv, ReleaseInv, now' \in Nat, now =< now', UNCHANGED <<files, proc>>
  PROVE  ReleaseInv'
<1>1. TypeOK /\ UNCHANGED <<registrations, plans, proc>> /\ now \in Nat
  BY DEF IInv, TypeOK, files
<1>2. ASSUME NEW reg \in Registration, ReleasePast(reg)
      PROVE  reg.expires # None => reg.expires - ReleaseTTL =< now'
  BY <1>1, <1>2, ConstantAssumption DEF ReleasePast, Registration, Opt
<1>3. \A p \in Paths : registrations'[p] # None => ReleasePast(registrations[p])'
  BY <1>1, <1>2 DEF ReleaseInv, ReleasePast, IInv, TypeOK, Opt
<1>4. \A plan \in plans' : PlannedUnderRelease(plan)
  BY <1>1 DEF ReleaseInv
<1>5. \A o \in Procs : KnownRelease(proc[o])'
  <2> SUFFICES ASSUME NEW o \in Procs PROVE KnownRelease(proc[o])'
    OBVIOUS
  <2>1. proc'[o] = proc[o] /\ KnownRelease(proc[o]) /\ ProcOK(proc[o])
    BY <1>1 DEF IInv, ReleaseInv
  <2>2. /\ proc[o].pc \in {"register.write", "release.write", "recover.register",
                "apply.protection", "apply.inspect", "apply.remove",
                "apply.verify", "apply.register"} => proc[o].reg \in Registration
        /\ proc[o].pc = "apply.receipt" /\ proc[o].receipt.result = "removed"
             => proc[o].reg \in Registration
    BY <2>1 DEF ProcOK, Plan
  <2>3. proc[o].reg \in Registration /\ ReleasePast(proc[o].reg)
          => (proc[o].reg.expires # None => proc[o].reg.expires - ReleaseTTL =< now')
    BY <1>2
  <2>4. QED
    BY <2>1, <2>2, <2>3 DEF KnownRelease, ReleasePast, PlannedUnderRelease
<1>6. QED
  BY <1>3, <1>4, <1>5 DEF ReleaseInv, PlannedUnderRelease

-----------------------------------------------------------------------------
(* Releases: the commands.                                                 *)

\* A registration starts without a release; a release starts now.
LEMMA RegisterRelease ==
  ASSUME IInv, ReleaseInv, NEW q \in Procs, NEW p \in Paths, NEW here \in BOOLEAN,
         RegisterRead(q, p, here) \/ ReleaseRead(q, p, here)
  PROVE  ReleaseInv'
<1>1. UNCHANGED <<now, files>> /\ now \in Nat
  BY DEF RegisterRead, ReleaseRead, IInv, TypeOK
<1>2. CASE RegisterRead(q, p, here)
  <2> DEFINE reg == [registeredAt |-> now, expires |-> None, retired |-> FALSE,
                     last |-> 0, snap |-> TakeSnapshot(p, here)]
             next == [Idle EXCEPT !.pc = "register.write", !.path = p, !.reg = reg]
  <2>1. Continue(q, next)
    BY <1>2 DEF RegisterRead, Begin, Continue
  <2>2. ReleasePast(reg)
    BY DEF ReleasePast
  <2> HIDE DEF reg
  <2>3. next.pc = "register.write" /\ next.reg = reg
    BY DEF Idle
  <2> HIDE DEF next
  <2>4. KnownRelease(next)
    BY <2>2, <2>3 DEF KnownRelease
  <2>5. QED
    BY <1>1, <2>1, <2>4, ReleaseContinueOK
<1>3. CASE ReleaseRead(q, p, here)
  <2> DEFINE old == registrations[p]
             reg == [old EXCEPT !.expires = now + ReleaseTTL, !.snap = TakeSnapshot(p, here)]
             next == [Idle EXCEPT !.pc = "release.write", !.path = p, !.reg = reg]
  <2>1. Continue(q, next) /\ old \in Registration
    BY <1>3 DEF ReleaseRead, Begin, Continue, IInv, TypeOK, Opt
  <2> HIDE DEF old
  <2>2. reg.expires = now + ReleaseTTL
    BY <2>1 DEF Registration
  <2>3. ReleasePast(reg)
    BY <1>1, <2>2, ConstantAssumption DEF ReleasePast
  <2> HIDE DEF reg
  <2>4. next.pc = "release.write" /\ next.reg = reg
    BY DEF Idle
  <2> HIDE DEF next
  <2>5. KnownRelease(next)
    BY <2>3, <2>4 DEF KnownRelease
  <2>6. QED
    BY <1>1, <2>1, <2>5, ReleaseContinueOK
<1>4. QED
  BY <1>2, <1>3

\* A plan that is READY is made while the release of its registration is valid.
LEMMA PlanRelease ==
  ASSUME IInv, ReleaseInv, NEW q \in Procs, NEW p \in Paths, NEW here \in BOOLEAN,
         PlanRead(q, p, here)
  PROVE  ReleaseInv'
<1> DEFINE reg  == registrations[p]
           snap == IF reg.retired THEN NoSnapshot ELSE TakeSnapshot(p, here)
           decision == Decision(reg, GatesPass(p, here), protected[p])
           plan == [path |-> p, reg |-> reg, snap |-> snap, decision |-> decision,
                    expires |-> now + PlanTTL]
           next == [Idle EXCEPT !.pc = "plan.write", !.path = p, !.plan = plan]
<1>1. Continue(q, next) /\ UNCHANGED <<now, files>> /\ now \in Nat
  BY DEF PlanRead, Begin, Continue, IInv, TypeOK
<1>2. reg \in Registration /\ reg # None /\ ReleasePast(reg)
  BY DEF PlanRead, IInv, TypeOK, ReleaseInv, Opt
<1>3. decision = "READY" => reg.expires # None /\ now < reg.expires
  BY DEF Decision, ReleaseValid
<1> HIDE DEF reg, snap, decision
<1>4. plan.reg = reg /\ plan.decision = decision /\ plan.expires = now + PlanTTL
  OBVIOUS
<1> HIDE DEF plan
<1>5. plan.expires - PlanTTL = now
  BY <1>1, <1>4, ConstantAssumption
<1>6. PlannedUnderRelease(plan)
  BY <1>2, <1>3, <1>4, <1>5 DEF PlannedUnderRelease, ReleasePast
<1>7. next.pc = "plan.write" /\ next.plan = plan
  BY DEF Idle
<1> HIDE DEF next
<1>8. KnownRelease(next)
  BY <1>6, <1>7 DEF KnownRelease
<1>9. QED
  BY <1>1, <1>8, ReleaseContinueOK

\* Approve and Apply take a plan from disk, and Apply its registration too.
LEMMA ApprovedRelease ==
  ASSUME IInv, ReleaseInv, NEW q \in Procs, NEW plan \in plans,
         ApproveRead(q, plan) \/ ApplyRead(q, plan)
  PROVE  ReleaseInv'
<1>1. /\ UNCHANGED <<now, files>> /\ PlannedUnderRelease(plan)
      /\ plan \in Plan /\ plan.path \in Paths /\ plan.reg \in Registration
  BY DEF ApproveRead, ApplyRead, IInv, TypeOK, Plan, ReleaseInv
<1>2. CASE ApproveRead(q, plan)
  <2> DEFINE next == [Idle EXCEPT !.pc = "approve.write", !.path = plan.path, !.plan = plan]
  <2>1. Continue(q, next)
    BY <1>2 DEF ApproveRead, Begin, Continue
  <2>2. next.pc = "approve.write" /\ next.plan = plan
    BY DEF Idle
  <2> HIDE DEF next
  <2>3. KnownRelease(next)
    BY <1>1, <2>2 DEF KnownRelease
  <2>4. QED
    BY <1>1, <2>1, <2>3, ReleaseContinueOK
<1>3. CASE ApplyRead(q, plan)
  <2> DEFINE reg == registrations[plan.path]
             me  == [Idle EXCEPT !.path = plan.path, !.plan = plan, !.reg = reg]
             started == [me EXCEPT !.pc = "apply.protection"]
             blocked == WithReceipt(me, "blocked_changed")
  <2>1. Continue(q, IF plan.decision = "READY" /\ reg = plan.reg THEN started ELSE blocked)
    BY <1>3 DEF ApplyRead, Begin, Continue
  <2>2. plan.decision = "READY" /\ reg = plan.reg => ReleasePast(reg)
    BY <1>1 DEF ReleaseInv, PlannedUnderRelease
  <2> HIDE DEF reg
  <2>3. /\ started.pc = "apply.protection" /\ started.reg = reg /\ started.plan = plan
        /\ blocked.pc = "apply.receipt" /\ blocked.receipt.result = "blocked_changed"
    BY DEF Idle, WithReceipt, ReceiptOf
  <2> HIDE DEF started, blocked
  <2>4. KnownRelease(blocked) /\ (plan.decision = "READY" /\ reg = plan.reg => KnownRelease(started))
    BY <1>1, <2>2, <2>3 DEF KnownRelease
  <2>5. QED
    BY <1>1, <2>1, <2>4, ReleaseContinueOK
<1>4. QED
  BY <1>2, <1>3

\* A process that carries neither a registration nor a plan knows nothing.
LEMMA NoRelease ==
  ASSUME NEW me, me.pc \in {"protect.write", "recover.add", "recover.verify",
                            "recover.receipt", "recover.load"}
  PROVE  KnownRelease(me)
BY DEF KnownRelease

\* A process about to write the receipt of an Apply knows what it knew.
LEMMA ReceiptRelease ==
  ASSUME NEW me \in Process, NEW result,
         result = "removed" => ReleasePast(me.reg)
  PROVE  KnownRelease(WithReceipt(me, result))
<1> DEFINE next == WithReceipt(me, result)
<1>1. next.pc = "apply.receipt" /\ next.receipt.result = result /\ next.reg = me.reg
  BY DEF WithReceipt, ReceiptOf, Process
<1> HIDE DEF next
<1>2. KnownRelease(next)
  BY <1>1 DEF KnownRelease
<1>3. QED
  BY <1>2 DEF next

\* The steps of Apply carry the plan and the registration along.
LEMMA ApplyRelease ==
  ASSUME IInv, ReleaseInv, NEW q \in Procs, NEW here \in BOOLEAN,
         ApplyProtection(q) \/ ApplyInspect(q, here) \/ ApplyRemove(q) \/ ApplyVerify(q)
  PROVE  ReleaseInv'
<1> DEFINE me == proc[q]
<1>1. /\ UNCHANGED <<now, files>>
      /\ me.pc \in {"apply.protection", "apply.inspect", "apply.remove", "apply.verify"}
  BY DEF ApplyProtection, ApplyInspect, ApplyRemove, ApplyVerify
<1>2. me \in Process /\ ReleasePast(me.reg) /\ PlannedUnderRelease(me.plan)
  BY <1>1 DEF IInv, TypeOK, ReleaseInv, KnownRelease
<1>3. \/ \E pc \in {"apply.inspect", "apply.remove", "apply.verify"} :
           Continue(q, [me EXCEPT !.pc = pc])
      \/ \E result \in Results : Continue(q, WithReceipt(me, result))
  BY DEF ApplyProtection, ApplyInspect, ApplyRemove, ApplyVerify, ActionFailed, Verified, Results
<1> HIDE DEF me
<1>4. ASSUME NEW pc \in {"apply.inspect", "apply.remove", "apply.verify"}
      PROVE  KnownRelease([me EXCEPT !.pc = pc])
  <2> DEFINE next == [me EXCEPT !.pc = pc]
  <2>1. next.pc = pc /\ next.reg = me.reg /\ next.plan = me.plan
    BY <1>2 DEF Process
  <2> HIDE DEF next
  <2>2. KnownRelease(next)
    BY <1>2, <2>1 DEF KnownRelease
  <2>3. QED
    BY <2>2 DEF next
<1>5. \A result \in Results : KnownRelease(WithReceipt(me, result))
  BY <1>2, ReceiptRelease
<1>6. QED
  BY <1>1, <1>3, <1>4, <1>5, ReleaseContinueOK

\* Protect, Unprotect and Recover use no release; Recover removes the one it finds.
LEMMA OtherRelease ==
  ASSUME IInv, ReleaseInv, NEW q \in Procs, NEW here \in BOOLEAN,
         \/ \E p \in Paths, want \in BOOLEAN : ProtectRead(q, p, want)
         \/ \E i \in DOMAIN receipts : RecoverRead(q, i)
         \/ RecoverAdd(q) \/ RecoverVerify(q) \/ RecoverLoad(q, here)
  PROVE  ReleaseInv'
<1> DEFINE me == proc[q]
<1>1. UNCHANGED <<now, files>> /\ me \in Process
  BY DEF ProtectRead, RecoverRead, RecoverAdd, RecoverVerify, RecoverLoad, IInv, TypeOK
<1>2. ASSUME NEW result PROVE KnownRelease(WithRecovery(me, result))
  <2>1. WithRecovery(me, result).pc = "recover.receipt"
    BY <1>1 DEF WithRecovery, Process
  <2>2. QED
    BY <2>1, NoRelease
<1>3. CASE \E p \in Paths, want \in BOOLEAN : ProtectRead(q, p, want)
  <2>1. PICK p \in Paths, want \in BOOLEAN : ProtectRead(q, p, want)
    BY <1>3
  <2> DEFINE next == [Idle EXCEPT !.pc = "protect.write", !.path = p, !.flag = want]
  <2>2. Continue(q, next) /\ next.pc = "protect.write"
    BY <2>1 DEF ProtectRead, Begin, Continue, Idle
  <2> HIDE DEF next
  <2>3. QED
    BY <1>1, <2>2, NoRelease, ReleaseContinueOK
<1>4. CASE \E i \in DOMAIN receipts : RecoverRead(q, i)
  <2>1. PICK i \in DOMAIN receipts : RecoverRead(q, i)
    BY <1>4
  <2> DEFINE r == receipts[i]
             start == [Idle EXCEPT !.path = r.plan.path, !.receipt = [r EXCEPT !.op = "recover"]]
             go == [start EXCEPT !.pc = "recover.add"]
             failed == WithRecovery(start, "recovery_failed")
  <2>2. Continue(q, IF Recoverable(r) THEN go ELSE failed)
    BY <2>1 DEF RecoverRead, Begin, Continue
  <2>3. go.pc = "recover.add" /\ failed.pc = "recover.receipt"
    BY DEF Idle, WithRecovery
  <2> HIDE DEF go, failed
  <2>4. QED
    BY <1>1, <2>2, <2>3, NoRelease, ReleaseContinueOK
<1>5. CASE RecoverAdd(q) \/ RecoverVerify(q)
  <2> DEFINE go == [me EXCEPT !.pc = "recover.verify"]
  <2>1. \/ RecoverAdd(q) /\ Continue(q, go)
        \/ \E result \in Results : Continue(q, WithRecovery(me, result))
    BY <1>5 DEF RecoverAdd, RecoverVerify, Results
  <2>2. go.pc = "recover.verify"
    BY <1>1 DEF Process
  <2> HIDE DEF go, me
  <2>3. QED
    BY <1>1, <1>2, <2>1, <2>2, NoRelease, ReleaseContinueOK
<1>6. CASE RecoverLoad(q, here)
  <2> DEFINE old == registrations[me.path]
             reg == [old EXCEPT !.retired = FALSE, !.expires = None, !.last = me.rid,
                       !.snap = IF GatesPass(me.path, here) THEN TakeSnapshot(me.path, here)
                                ELSE @]
             next == [me EXCEPT !.pc = "recover.register", !.reg = reg]
  <2>1. Continue(q, next) /\ old \in Registration
    BY <1>6 DEF RecoverLoad, IInv, TypeOK, ProcOK, Opt
  <2> HIDE DEF me, old
  <2>2. reg.expires = None
    BY <2>1 DEF Registration
  <2> HIDE DEF reg
  <2>3. next.pc = "recover.register" /\ next.reg = reg
    BY <1>1 DEF Process
  <2> HIDE DEF next
  <2>4. KnownRelease(next)
    BY <2>2, <2>3 DEF KnownRelease, ReleasePast
  <2>5. QED
    BY <1>1, <2>1, <2>4, ReleaseContinueOK
<1>7. QED
  BY <1>3, <1>4, <1>5, <1>6

\* What is written is what was known.
LEMMA WritesRelease ==
  ASSUME IInv, ReleaseInv, NEW q \in Procs, Writes(q)
  PROVE  ReleaseInv'
<1> DEFINE me == proc[q]
<1>1. me \in Process /\ KnownRelease(me) /\ ProcOK(me) /\ UNCHANGED now
  BY DEF IInv, TypeOK, ReleaseInv, Writes, WriteRegistration, WriteProtection, WritePlan,
         WriteApproval, WriteReceipt
<1>2. /\ \A p \in Paths : registrations[p] # None => ReleasePast(registrations[p])
      /\ \A plan \in plans : PlannedUnderRelease(plan)
      /\ registrations \in [Paths -> Opt(Registration)]
  BY DEF ReleaseInv, IInv, TypeOK
<1>3. CASE WriteRegistration(q)
  <2>1. /\ registrations' = [registrations EXCEPT ![me.path] = me.reg]
        /\ Continue(q, Idle) /\ UNCHANGED plans /\ ReleasePast(me.reg)
    BY <1>1, <1>3 DEF WriteRegistration, Publish, KnownRelease
  <2> HIDE DEF me
  <2>2. \A p \in Paths : registrations'[p] # None => ReleasePast(registrations'[p])
    BY <1>2, <2>1
  <2>3. QED
    BY <1>1, <1>2, <2>1, <2>2, IdleRelease, ReleaseStepOK
<1>4. CASE WritePlan(q)
  <2>1. /\ plans' = plans \cup {me.plan}
        /\ Continue(q, Idle) /\ UNCHANGED registrations /\ PlannedUnderRelease(me.plan)
    BY <1>1, <1>4 DEF WritePlan, Publish, KnownRelease
  <2> HIDE DEF me
  <2>2. QED
    BY <1>1, <1>2, <2>1, IdleRelease, ReleaseStepOK
<1>5. CASE WriteProtection(q) \/ WriteApproval(q)
  <2>1. Continue(q, Idle) /\ UNCHANGED <<registrations, plans>>
    BY <1>5 DEF WriteProtection, WriteApproval, Publish
  <2>2. QED
    BY <1>1, <1>2, <2>1, IdleRelease, ReleaseStepOK
<1>6. CASE WriteReceipt(q)
  <2> DEFINE id == Len(receipts) + 1
             reg == [me.reg EXCEPT !.retired = TRUE, !.last = id]
             register == [me EXCEPT !.pc = "apply.register", !.reg = reg]
             load == [me EXCEPT !.pc = "recover.load", !.rid = id]
             next == CASE me.receipt.result = "removed" -> register
                       [] me.receipt.result = "recovered" -> load
                       [] OTHER -> Idle
  <2>1. Continue(q, next) /\ UNCHANGED <<registrations, plans>>
        /\ me.pc \in {"apply.receipt", "recover.receipt"}
    BY <1>6 DEF WriteReceipt, Publish
  <2> HIDE DEF me
  <2>2. CASE me.receipt.result = "removed"
    <3>1. me.pc = "apply.receipt" /\ me.reg \in Registration /\ ReleasePast(me.reg)
      BY <1>1, <2>1, <2>2 DEF ProcOK, KnownRelease
    <3>2. reg.expires = me.reg.expires
      BY <3>1 DEF Registration
    <3> HIDE DEF reg
    <3>3. register.pc = "apply.register" /\ register.reg = reg
      BY <1>1 DEF Process
    <3>4. next = register
      BY <2>2
    <3> HIDE DEF register, next
    <3>5. KnownRelease(next)
      BY <3>1, <3>2, <3>3, <3>4 DEF KnownRelease, ReleasePast
    <3>6. QED
      BY <1>1, <1>2, <2>1, <3>5, ReleaseStepOK
  <2>3. CASE me.receipt.result # "removed"
    <3>1. load.pc = "recover.load"
      BY <1>1 DEF Process
    <3>2. next = load \/ next = Idle
      BY <2>3
    <3> HIDE DEF load, next
    <3>3. KnownRelease(next)
      BY <3>1, <3>2, NoRelease, IdleRelease
    <3>4. QED
      BY <1>1, <1>2, <2>1, <3>3, ReleaseStepOK
  <2>4. QED
    BY <2>2, <2>3
<1>7. QED
  BY <1>3, <1>4, <1>5, <1>6 DEF Writes

-----------------------------------------------------------------------------
(* Releases: the theorem.                                                  *)

\* Every step preserves what is known of releases.
LEMMA ReleaseNextOK ==
  ASSUME IInv, ReleaseInv, [Next]_vars
  PROVE  ReleaseInv'
<1>1. now \in Nat
  BY DEF IInv, TypeOK
<1>2. CASE Tick
  BY <1>1, <1>2, ReleaseOutsideOK DEF Tick
<1>3. CASE Owner
  <2>1. UNCHANGED <<now, files, proc>>
    BY <1>3 DEF Owner, OwnerCommits, OwnerEdits, OwnerLocks, OwnerAdds, OwnerReplaces,
                OwnerMovesRef, OwnerMove
  <2>2. QED
    BY <1>1, <2>1, ReleaseOutsideOK
<1>4. ASSUME NEW q \in Procs, Writes(q)
      PROVE  ReleaseInv'
  BY <1>4, WritesRelease
<1>5. ASSUME NEW q \in Procs, Reads(q)
      PROVE  ReleaseInv'
  BY <1>5, RegisterRelease, PlanRelease, ApprovedRelease, OtherRelease DEF Reads
<1>6. ASSUME NEW q \in Procs, Acts(q)
      PROVE  ReleaseInv'
  BY <1>6, ApplyRelease, OtherRelease DEF Acts
<1>7. ASSUME NEW q \in Procs, Abort(q)
      PROVE  ReleaseInv'
  BY <1>7, IdleRelease, ReleaseContinueOK DEF Abort
<1>8. CASE UNCHANGED vars
  BY <1>1, <1>8, ReleaseOutsideOK DEF vars, files
<1>9. QED
  BY <1>2, <1>3, <1>4, <1>5, <1>6, <1>7, <1>8 DEF Next

\* What records and processes know of releases is true, whatever commands
\* overlap, are repeated or die.
THEOREM ReleasesKnown == Spec => []ReleaseInv
<1>1. Init => ReleaseInv
  <2> SUFFICES ASSUME Init PROVE ReleaseInv
    OBVIOUS
  <2>1. \A p \in Paths : registrations[p] = None
    BY DEF Init
  <2>2. QED
    BY <2>1, IdleRelease DEF Init, ReleaseInv
<1>2. IInv /\ ReleaseInv /\ [Next]_vars => ReleaseInv'
  BY ReleaseNextOK
<1>3. QED
  BY <1>1, <1>2, Invariant, PTL DEF Spec

\* The release that was in force when a plan was made is the one its removal
\* is checked against, and it is still in force then (engine.go:290, 507-513).
THEOREM ReleaseCoversRemoval == Spec => OneReleaseCoversRemoval
<1> DEFINE A == \A q \in Procs :
                  LET plan == proc[q].plan
                      planned == plan.expires - PlanTTL
                  IN  proc[q].pc = "apply.inspect" /\ proc'[q].pc = "apply.remove"
                      => /\ plan.reg.expires # None
                         /\ plan.reg.expires - ReleaseTTL =< planned
                         /\ planned < plan.reg.expires /\ now < plan.reg.expires
<1>1. IInv /\ ReleaseInv /\ [Next]_vars => A
  <2> SUFFICES ASSUME IInv, ReleaseInv, [Next]_vars, NEW q \in Procs,
                      proc[q].pc = "apply.inspect", proc'[q].pc = "apply.remove"
               PROVE  LET plan == proc[q].plan
                          planned == plan.expires - PlanTTL
                      IN  /\ plan.reg.expires # None
                          /\ plan.reg.expires - ReleaseTTL =< planned
                          /\ planned < plan.reg.expires /\ now < plan.reg.expires
    OBVIOUS
  <2>1. PICK here \in BOOLEAN : Revalidated(proc[q], here)
    BY RemoveStep
  <2>2. proc[q].reg = proc[q].plan.reg /\ proc[q].plan.decision = "READY"
    BY ApplyProcess
  <2>3. PlannedUnderRelease(proc[q].plan)
    BY DEF ReleaseInv, KnownRelease
  <2>4. QED
    BY <2>1, <2>2, <2>3 DEF Revalidated, ReleaseValid, PlannedUnderRelease
<1>2. QED
  BY <1>1, Invariant, ReleasesKnown, PTL DEF Spec, OneReleaseCoversRemoval

-----------------------------------------------------------------------------
(* Claims.  A process may write a receipt "removed" only after Git has     *)
(* told it of the removal, so the claims written and the claims pending    *)
(* are counted together; and no removal is recorded twice, because a       *)
(* worktree is gone when Git has removed it and the next one there has     *)
(* another identity.                                                       *)

\* The claims at a path can be counted.
LEMMA ClaimsFinite ==
  ASSUME IInv, NEW p \in Paths
  PROVE  IsFiniteSet(Claims(p)) /\ Cardinality(Claims(p)) \in Nat
<1>1. Len(receipts) \in Nat /\ DOMAIN receipts = 1 .. Len(receipts)
  BY DEF IInv, TypeOK
<1>2. IsFiniteSet(1 .. Len(receipts)) /\ Claims(p) \subseteq 1 .. Len(receipts)
  BY <1>1, FS_Interval DEF Claims
<1>3. IsFiniteSet(Claims(p))
  BY <1>2, FS_Subset
<1>4. QED
  BY <1>3, FS_CardinalityType

\* The counts ClaimInv compares are numbers.
LEMMA CountsOK ==
  ASSUME IInv, ClaimInv, NEW p \in Paths
  PROVE  /\ IsFiniteSet(Claims(p)) /\ IsFiniteSet(Pending(p)) /\ IsFiniteSet(RemovalsAt(p))
         /\ Cardinality(Claims(p)) \in Nat /\ Cardinality(Pending(p)) \in Nat
         /\ Cardinality(RemovalsAt(p)) \in Nat
         /\ Cardinality(Claims(p)) + Cardinality(Pending(p)) =< Cardinality(RemovalsAt(p))
<1>1. IsFiniteSet(Claims(p)) /\ Cardinality(Claims(p)) \in Nat
  BY ClaimsFinite
<1>2. /\ IsFiniteSet(Pending(p)) /\ IsFiniteSet(RemovalsAt(p))
      /\ Cardinality(Claims(p)) + Cardinality(Pending(p)) =< Cardinality(RemovalsAt(p))
  BY DEF ClaimInv
<1>3. Cardinality(Pending(p)) \in Nat /\ Cardinality(RemovalsAt(p)) \in Nat
  BY <1>2, FS_CardinalityType
<1>4. QED
  BY <1>1, <1>2, <1>3

\* The worktree at a path of a removal stays newer than the one removed.
LEMMA WorktreesPastOK ==
  ASSUME IInv, WorktreesPast, wt' \in [Paths -> Worktree],
         \A p \in Paths : Newer(wt[p], wt'[p]), NEW r \in removals
  PROVE  /\ r.was.id =< wt'[r.plan.path].id
         /\ wt'[r.plan.path].kind \in {"linked", "prunable"} => r.was.id < wt'[r.plan.path].id
<1> DEFINE w == wt[r.plan.path]
           v == wt'[r.plan.path]
<1>1. r.plan.path \in Paths /\ r.was.id \in Nat
  BY DEF IInv, TypeOK, Removal, Plan, Worktree
<1>2. w.id \in Nat /\ v.id \in Nat /\ Newer(w, v)
  BY <1>1 DEF IInv, TypeOK, Worktree
<1>3. r.was.id =< w.id /\ (w.kind \in {"linked", "prunable"} => r.was.id < w.id)
  BY DEF WorktreesPast
<1> HIDE DEF w, v
<1>4. r.was.id =< v.id /\ (v.kind \in {"linked", "prunable"} => r.was.id < v.id)
  BY <1>1, <1>2, <1>3 DEF Newer
<1>5. QED
  BY <1>4 DEF v

\* A step that neither claims nor removes, after which no more claims are pending.
LEMMA ClaimStepOK ==
  ASSUME IInv, ClaimInv, wt' \in [Paths -> Worktree],
         \A p \in Paths : Newer(wt[p], wt'[p]), UNCHANGED removals,
         \A p \in Paths : Claims(p)' = Claims(p),
         \A o \in Procs, p \in Paths : Pends(proc'[o], p) => Pends(proc[o], p)
  PROVE  ClaimInv'
<1>1. WorktreesPast'
  BY WorktreesPastOK DEF ClaimInv, WorktreesPast
<1>2. ASSUME NEW p \in Paths
      PROVE  /\ IsFiniteSet(RemovalsAt(p)') /\ IsFiniteSet(Pending(p)')
             /\ Cardinality(Claims(p)') + Cardinality(Pending(p)') =< Cardinality(RemovalsAt(p)')
  <2>1. /\ IsFiniteSet(Pending(p)) /\ IsFiniteSet(RemovalsAt(p))
        /\ Cardinality(Claims(p)) \in Nat /\ Cardinality(Pending(p)) \in Nat
        /\ Cardinality(RemovalsAt(p)) \in Nat
        /\ Cardinality(Claims(p)) + Cardinality(Pending(p)) =< Cardinality(RemovalsAt(p))
    BY CountsOK
  <2>2. Pending(p)' \subseteq Pending(p)
    BY DEF Pending, Pends
  <2>3. /\ IsFiniteSet(Pending(p)') /\ Cardinality(Pending(p)') =< Cardinality(Pending(p))
        /\ Cardinality(Pending(p)') \in Nat
    BY <2>1, <2>2, FS_Subset, FS_CardinalityType
  <2>4. Claims(p)' = Claims(p) /\ RemovalsAt(p)' = RemovalsAt(p)
    BY DEF RemovalsAt
  <2>5. QED
    BY <2>1, <2>3, <2>4
<1>3. QED
  BY <1>1, <1>2 DEF ClaimInv

\* The common case: a process goes on and is not about to make a new claim.
LEMMA ClaimContinueOK ==
  ASSUME IInv, ClaimInv, wt' \in [Paths -> Worktree],
         \A p \in Paths : Newer(wt[p], wt'[p]), UNCHANGED <<receipts, removals>>,
         NEW q \in Procs, NEW next, Continue(q, next),
         \A p \in Paths : Pends(next, p) => Pends(proc[q], p)
  PROVE  ClaimInv'
<1>1. proc \in [Procs -> Process] /\ proc' = [proc EXCEPT ![q] = next]
  BY DEF IInv, TypeOK, Continue
<1>2. \A o \in Procs, p \in Paths : Pends(proc'[o], p) => Pends(proc[o], p)
  BY <1>1
<1>3. \A p \in Paths : Claims(p)' = Claims(p)
  BY DEF Claims, Removed
<1>4. QED
  BY <1>2, <1>3, ClaimStepOK

\* A step that leaves the worktrees alone leaves them as new as they were.
LEMMA SameWorktrees ==
  ASSUME IInv, UNCHANGED wt
  PROVE  wt' \in [Paths -> Worktree] /\ \A p \in Paths : Newer(wt[p], wt'[p])
BY DEF IInv, TypeOK, Worktree, Newer

-----------------------------------------------------------------------------
(* Claims: the world.                                                      *)

\* Whatever the owner does at a path, an identity is never used again.
LEMMA OwnerNewer ==
  ASSUME IInv, Owner
  PROVE  wt' \in [Paths -> Worktree] /\ \A p \in Paths : Newer(wt[p], wt'[p])
<1>1. wt \in [Paths -> Worktree] /\ wt' \in [Paths -> Worktree]
  BY OwnerOK DEF IInv, TypeOK
<1>2. \A p \in Paths : wt[p].id \in Nat /\ wt[p] \in Worktree
  BY <1>1 DEF Worktree
<1>3. ASSUME NEW p \in Paths, NEW c \in Commits, OwnerCommits(p, c)
      PROVE  \A o \in Paths : Newer(wt[o], wt'[o])
  BY <1>1, <1>2, <1>3 DEF OwnerCommits, Newer, Worktree
<1>4. ASSUME NEW p \in Paths, NEW dirt \in Dirt, OwnerEdits(p, dirt)
      PROVE  \A o \in Paths : Newer(wt[o], wt'[o])
  BY <1>1, <1>2, <1>4 DEF OwnerEdits, Newer, Worktree
<1>5. ASSUME NEW p \in Paths, OwnerLocks(p)
      PROVE  \A o \in Paths : Newer(wt[o], wt'[o])
  BY <1>1, <1>2, <1>5 DEF OwnerLocks, Newer, Worktree
<1>6. ASSUME NEW p \in Paths, NEW out \in CheckOuts, OwnerAdds(p, out)
      PROVE  \A o \in Paths : Newer(wt[o], wt'[o])
  <2>1. wt'[p].id = wt[p].id + 1 /\ \A o \in Paths \ {p} : wt'[o] = wt[o]
    BY <1>1, <1>6 DEF OwnerAdds, GitAdded
  <2>2. QED
    BY <1>2, <2>1 DEF Newer
<1>7. ASSUME NEW p \in Paths, NEW kind \in Kinds, OwnerReplaces(p, kind)
      PROVE  \A o \in Paths : Newer(wt[o], wt'[o])
  <2> DEFINE w == IF kind = "prunable" THEN [wt[p] EXCEPT !.kind = kind]
                  ELSE [Gone(wt[p]) EXCEPT !.kind = kind]
  <2>1. wt' = [wt EXCEPT ![p] = w]
    BY <1>7 DEF OwnerReplaces
  <2>2. w.id = wt[p].id /\ w.kind = kind
    BY <1>2 DEF Gone, Worktree
  <2>3. kind # "linked" /\ (kind = "prunable" => wt[p].kind = "linked")
    BY <1>7 DEF OwnerReplaces
  <2> HIDE DEF w
  <2>4. Newer(wt[p], w)
    BY <1>2, <2>2, <2>3 DEF Newer
  <2>5. QED
    BY <1>1, <1>2, <2>1, <2>4 DEF Newer
<1>8. ASSUME NEW r \in Refs, NEW c \in Opt(Commits), OwnerMovesRef(r, c)
      PROVE  \A o \in Paths : Newer(wt[o], wt'[o])
  BY <1>8, SameWorktrees DEF OwnerMovesRef
<1>9. QED
  BY <1>1, <1>3, <1>4, <1>5, <1>6, <1>7, <1>8 DEF Owner

-----------------------------------------------------------------------------
(* Claims: the commands.                                                   *)

\* What a process is called to do first, and the end of it, claims nothing.
LEMMA NothingPends ==
  ASSUME NEW me, NEW p, Pends(me, p)
  PROVE  me.pc \in {"apply.verify", "apply.receipt"}
BY DEF Pends

\* A receipt of an Apply is a claim only if its result is "removed".
LEMMA ReceiptPends ==
  ASSUME NEW me \in Process, NEW result
  PROVE  /\ WithReceipt(me, result).pc = "apply.receipt"
         /\ WithReceipt(me, result).path = me.path
         /\ WithReceipt(me, result).receipt.result = result
BY DEF WithReceipt, ReceiptOf, Process

\* A command that starts has nothing to claim.
LEMMA ReadsClaim ==
  ASSUME IInv, ClaimInv, NEW q \in Procs, Reads(q)
  PROVE  ClaimInv'
<1>1. UNCHANGED <<wt, receipts, removals>>
  BY DEF Reads, RegisterRead, ReleaseRead, ProtectRead, PlanRead, ApproveRead, ApplyRead,
         RecoverRead, world, files
<1>2. ASSUME NEW next, Continue(q, next), \A p \in Paths : ~Pends(next, p)
      PROVE  ClaimInv'
  BY <1>1, <1>2, SameWorktrees, ClaimContinueOK
<1>3. ASSUME NEW pc, NEW next, Continue(q, next), next.pc = pc,
             pc \notin {"apply.verify", "apply.receipt"}
      PROVE  ClaimInv'
  BY <1>2, <1>3, NothingPends
<1>4. ASSUME NEW p \in Paths, NEW here \in BOOLEAN,
             RegisterRead(q, p, here) \/ ReleaseRead(q, p, here) \/ PlanRead(q, p, here)
      PROVE  ClaimInv'
  <2>1. \/ \E reg, pc : /\ Continue(q, [Idle EXCEPT !.pc = pc, !.path = p, !.reg = reg])
                        /\ pc \in {"register.write", "release.write"}
        \/ \E plan : Continue(q, [Idle EXCEPT !.pc = "plan.write", !.path = p, !.plan = plan])
    <3>1. CASE RegisterRead(q, p, here)
      BY <3>1, Zenon DEF RegisterRead, Begin, Continue
    <3>2. CASE ReleaseRead(q, p, here)
      BY <3>2, Zenon DEF ReleaseRead, Begin, Continue
    <3>3. CASE PlanRead(q, p, here)
      BY <3>3, Zenon DEF PlanRead, Begin, Continue
    <3>4. QED
      BY <1>4, <3>1, <3>2, <3>3
  <2>2. ASSUME NEW reg, NEW pc \in {"register.write", "release.write"},
               Continue(q, [Idle EXCEPT !.pc = pc, !.path = p, !.reg = reg])
        PROVE  ClaimInv'
    <3> DEFINE next == [Idle EXCEPT !.pc = pc, !.path = p, !.reg = reg]
    <3>1. Continue(q, next) /\ next.pc = pc
      BY <2>2 DEF Idle
    <3> HIDE DEF next
    <3>2. QED
      BY <1>3, <3>1
  <2>3. ASSUME NEW plan, Continue(q, [Idle EXCEPT !.pc = "plan.write", !.path = p, !.plan = plan])
        PROVE  ClaimInv'
    <3> DEFINE next == [Idle EXCEPT !.pc = "plan.write", !.path = p, !.plan = plan]
    <3>1. Continue(q, next) /\ next.pc = "plan.write"
      BY <2>3 DEF Idle
    <3> HIDE DEF next
    <3>2. QED
      BY <1>3, <3>1
  <2>4. QED
    BY <2>1, <2>2, <2>3
<1>5. ASSUME \/ \E p \in Paths, want \in BOOLEAN : ProtectRead(q, p, want)
             \/ \E plan \in plans : ApproveRead(q, plan)
      PROVE  ClaimInv'
  <2>1. \/ \E p, want : Continue(q, [Idle EXCEPT !.pc = "protect.write", !.path = p, !.flag = want])
        \/ \E plan : Continue(q, [Idle EXCEPT !.pc = "approve.write", !.path = plan.path,
                                              !.plan = plan])
    BY <1>5, Zenon DEF ProtectRead, ApproveRead, Begin, Continue
  <2>2. \A p, want, plan :
          /\ [Idle EXCEPT !.pc = "protect.write", !.path = p, !.flag = want].pc = "protect.write"
          /\ [Idle EXCEPT !.pc = "approve.write", !.path = p, !.plan = plan].pc = "approve.write"
    BY DEF Idle
  <2>3. QED
    BY <1>3, <2>1, <2>2
<1>6. ASSUME NEW plan \in plans, ApplyRead(q, plan)
      PROVE  ClaimInv'
  <2> DEFINE me == [Idle EXCEPT !.path = plan.path, !.plan = plan,
                                !.reg = registrations[plan.path]]
             started == [me EXCEPT !.pc = "apply.protection"]
             blocked == WithReceipt(me, "blocked_changed")
  <2>1. Continue(q, started) \/ Continue(q, blocked)
    BY <1>6 DEF ApplyRead, Begin, Continue
  <2>2. started.pc = "apply.protection" /\ blocked.receipt.result = "blocked_changed"
        /\ blocked.pc = "apply.receipt"
    BY DEF Idle, WithReceipt, ReceiptOf
  <2> HIDE DEF started, blocked
  <2>3. \A p \in Paths : ~Pends(started, p) /\ ~Pends(blocked, p)
    BY <2>2 DEF Pends
  <2>4. QED
    BY <1>2, <2>1, <2>3
<1>7. ASSUME NEW i \in DOMAIN receipts, RecoverRead(q, i)
      PROVE  ClaimInv'
  <2>1. PICK next : Continue(q, next) /\ next.pc \in {"recover.add", "recover.receipt"}
    <3> DEFINE r == receipts[i]
               me == [Idle EXCEPT !.path = r.plan.path, !.receipt = [r EXCEPT !.op = "recover"]]
               go == [me EXCEPT !.pc = "recover.add"]
               failed == WithRecovery(me, "recovery_failed")
    <3>1. Continue(q, go) \/ Continue(q, failed)
      BY <1>7 DEF RecoverRead, Begin, Continue
    <3>2. go.pc = "recover.add" /\ failed.pc = "recover.receipt"
      BY DEF Idle, WithRecovery
    <3> HIDE DEF go, failed
    <3>3. QED
      BY <3>1, <3>2
  <2>2. QED
    BY <1>2, <2>1, NothingPends
<1>8. QED
  BY <1>4, <1>5, <1>6, <1>7 DEF Reads

\* Git reports a removal: the removal is a new one, and one more claim pends.
LEMMA RemovedClaim ==
  ASSUME IInv, ClaimInv, NEW q \in Procs, proc[q].pc = "apply.remove",
         GitRemoves(proc[q].path), wt' = [wt EXCEPT ![proc[q].path] = Gone(@)],
         removals' = removals \cup {[plan |-> proc[q].plan, was |-> wt[proc[q].path]]},
         UNCHANGED receipts, NEW next, Continue(q, next),
         \A p \in Paths : Pends(next, p) => p = proc[q].path
  PROVE  ClaimInv'
<1> DEFINE p == proc[q].path
           new == [plan |-> proc[q].plan, was |-> wt[p]]
<1>1. p \in Paths /\ new.plan.path = p /\ new.was = wt[p]
  BY ApplyProcess
<1>2. wt \in [Paths -> Worktree] /\ proc \in [Procs -> Process]
      /\ \A o \in Paths : wt[o].id \in Nat
  BY DEF IInv, TypeOK, Worktree
<1>3. wt[p].kind \in {"linked", "prunable"} /\ removals' = removals \cup {new}
  BY DEF GitRemoves
<1>4. Gone(wt[p]) \in Worktree /\ Gone(wt[p]).kind = "absent" /\ Gone(wt[p]).id = wt[p].id
  BY <1>1, <1>2, GitType
<1>5. wt' = [wt EXCEPT ![p] = Gone(wt[p])] /\ proc' = [proc EXCEPT ![q] = next]
  BY DEF Continue
<1> HIDE DEF p, new
<1>6. wt' \in [Paths -> Worktree] /\ \A o \in Paths : Newer(wt[o], wt'[o])
  <2>1. wt' \in [Paths -> Worktree]
    BY <1>1, <1>2, <1>4, <1>5
  <2>2. \A o \in Paths : Newer(wt[o], wt'[o])
    BY <1>1, <1>2, <1>4, <1>5 DEF Newer
  <2>3. QED
    BY <2>1, <2>2
<1>7. new \notin removals
  <2>1. ASSUME new \in removals PROVE wt[p].id < wt[p].id
    BY <1>1, <1>3, <2>1 DEF ClaimInv, WorktreesPast
  <2>2. QED
    BY <1>1, <1>2, <2>1
<1>8. WorktreesPast'
  <2> SUFFICES ASSUME NEW r \in removals'
               PROVE  /\ r.was.id =< wt'[r.plan.path].id
                      /\ wt'[r.plan.path].kind \in {"linked", "prunable"}
                           => r.was.id < wt'[r.plan.path].id
    BY DEF WorktreesPast
  <2>1. CASE r \in removals
    BY <1>6, <2>1, WorktreesPastOK DEF ClaimInv
  <2>2. CASE r = new
    <3>1. wt'[p] = Gone(wt[p])
      BY <1>1, <1>2, <1>5
    <3>2. QED
      BY <1>1, <1>2, <1>4, <2>2, <3>1
  <2>3. QED
    BY <1>3, <2>1, <2>2
<1>9. ASSUME NEW o \in Paths
      PROVE  /\ IsFiniteSet(RemovalsAt(o)') /\ IsFiniteSet(Pending(o)')
             /\ Cardinality(Claims(o)') + Cardinality(Pending(o)') =< Cardinality(RemovalsAt(o)')
  <2>1. /\ IsFiniteSet(Pending(o)) /\ IsFiniteSet(RemovalsAt(o))
        /\ Cardinality(Claims(o)) \in Nat /\ Cardinality(Pending(o)) \in Nat
        /\ Cardinality(RemovalsAt(o)) \in Nat
        /\ Cardinality(Claims(o)) + Cardinality(Pending(o)) =< Cardinality(RemovalsAt(o))
    BY CountsOK
  <2>2. Claims(o)' = Claims(o)
    BY DEF Claims, Removed
  <2>3. CASE o = p
    <3>1. RemovalsAt(o)' = RemovalsAt(o) \cup {new} /\ new \notin RemovalsAt(o)
      BY <1>1, <1>3, <1>7, <2>3 DEF RemovalsAt
    <3>2. /\ IsFiniteSet(RemovalsAt(o)')
          /\ Cardinality(RemovalsAt(o)') = Cardinality(RemovalsAt(o)) + 1
      BY <2>1, <3>1, FS_AddElement
    <3>3. Pending(o)' \subseteq Pending(o) \cup {q}
      BY <1>2, <1>5 DEF Pending, Pends
    <3>4. /\ IsFiniteSet(Pending(o) \cup {q})
          /\ Cardinality(Pending(o) \cup {q}) \in {Cardinality(Pending(o)), Cardinality(Pending(o)) + 1}
      BY <2>1, FS_AddElement
    <3>5. /\ IsFiniteSet(Pending(o)') /\ Cardinality(Pending(o)') \in Nat
          /\ Cardinality(Pending(o)') =< Cardinality(Pending(o) \cup {q})
      BY <3>3, <3>4, FS_Subset, FS_CardinalityType
    <3>6. QED
      BY <2>1, <2>2, <3>2, <3>4, <3>5
  <2>4. CASE o # p
    <3>1. RemovalsAt(o)' = RemovalsAt(o)
      BY <1>1, <1>3, <2>4 DEF RemovalsAt
    <3>2. ~Pends(next, o)
      BY <2>4 DEF p
    <3>3. Pending(o)' \subseteq Pending(o)
      BY <1>2, <1>5, <3>2 DEF Pending, Pends
    <3>4. /\ IsFiniteSet(Pending(o)') /\ Cardinality(Pending(o)') =< Cardinality(Pending(o))
          /\ Cardinality(Pending(o)') \in Nat
      BY <2>1, <3>3, FS_Subset, FS_CardinalityType
    <3>5. QED
      BY <2>1, <2>2, <3>1, <3>4
  <2>5. QED
    BY <2>3, <2>4
<1>10. QED
  BY <1>8, <1>9 DEF ClaimInv

\* Before the receipt a claim pends only when Git has removed the worktree.
LEMMA ApplyClaim ==
  ASSUME IInv, ClaimInv, NEW q \in Procs, NEW here \in BOOLEAN,
         ApplyProtection(q) \/ ApplyInspect(q, here) \/ ApplyRemove(q) \/ ApplyVerify(q)
  PROVE  ClaimInv'
<1> DEFINE me == proc[q]
           go == [me EXCEPT !.pc = "apply.verify"]
           failed == WithReceipt(me, "native_action_failed")
           blocked == WithReceipt(me, "blocked_changed")
<1>1. /\ UNCHANGED receipts /\ me \in Process /\ me.path \in Paths
      /\ me.pc \in {"apply.protection", "apply.inspect", "apply.remove", "apply.verify"}
  BY ApplyProcess DEF ApplyProtection, ApplyInspect, ApplyRemove, ApplyVerify, files
<1>2. go.pc = "apply.verify" /\ go.path = me.path
  BY <1>1 DEF Process
<1>3. \A p \in Paths : ~Pends(failed, p) /\ ~Pends(blocked, p)
  BY <1>1, ReceiptPends DEF Pends
<1>4. CASE ApplyProtection(q) \/ ApplyInspect(q, here)
  <2>1. /\ \/ Continue(q, blocked)
           \/ \E pc \in {"apply.inspect", "apply.remove"} : Continue(q, [me EXCEPT !.pc = pc])
        /\ UNCHANGED <<wt, removals>>
    BY <1>4 DEF ApplyProtection, ApplyInspect, world
  <2>2. ASSUME NEW pc \in {"apply.inspect", "apply.remove"}
        PROVE  \A p \in Paths : ~Pends([me EXCEPT !.pc = pc], p)
    <3>1. [me EXCEPT !.pc = pc].pc = pc
      BY <1>1 DEF Process
    <3>2. QED
      BY <3>1, NothingPends
  <2> HIDE DEF me, blocked
  <2>3. QED
    BY <1>1, <1>3, <2>1, <2>2, SameWorktrees, ClaimContinueOK
<1>5. CASE ApplyVerify(q)
  <2>1. /\ \E result \in Results : Continue(q, WithReceipt(me, result))
        /\ UNCHANGED <<wt, removals>> /\ me.pc = "apply.verify"
    BY <1>5 DEF ApplyVerify, Verified, Results, world
  <2>2. ASSUME NEW result \in Results, NEW p \in Paths, Pends(WithReceipt(me, result), p)
        PROVE  Pends(me, p)
    BY <1>1, <2>1, <2>2, ReceiptPends DEF Pends
  <2> HIDE DEF me
  <2>3. Pends(me, me.path)
    BY <2>1 DEF Pends
  <2>4. QED
    BY <1>1, <2>1, <2>2, SameWorktrees, ClaimContinueOK DEF me
<1>6. CASE ApplyRemove(q)
  <2>1. me.pc = "apply.remove" /\ wt \in [Paths -> Worktree]
    BY <1>6 DEF ApplyRemove, IInv, TypeOK
  <2>2. ASSUME GitRemoves(me.path), wt' = [wt EXCEPT ![me.path] = Gone(@)],
               removals' = removals \cup {[plan |-> me.plan, was |-> wt[me.path]]},
               Continue(q, go) \/ Continue(q, failed)
        PROVE  ClaimInv'
    <3>1. \A p \in Paths : (Pends(go, p) => p = me.path) /\ (Pends(failed, p) => p = me.path)
      BY <1>2, <1>3 DEF Pends
    <3>2. QED
      BY <1>1, <2>1, <2>2, <3>1, RemovedClaim
  <2>3. ASSUME wt' = [wt EXCEPT ![me.path].dirt = "changed"], Continue(q, failed),
               UNCHANGED removals
        PROVE  ClaimInv'
    <3>1. wt' \in [Paths -> Worktree] /\ \A p \in Paths : Newer(wt[p], wt'[p])
      BY <1>1, <2>1, <2>3 DEF Newer, Worktree, Dirt
    <3>2. QED
      BY <1>1, <1>3, <2>3, <3>1, ClaimContinueOK
  <2>4. ASSUME Continue(q, failed), UNCHANGED <<wt, removals>>
        PROVE  ClaimInv'
    BY <1>1, <1>3, <2>4, SameWorktrees, ClaimContinueOK
  <2>5. QED
    BY <1>6, <2>2, <2>3, <2>4 DEF ApplyRemove, ActionFailed
<1>7. QED
  BY <1>4, <1>5, <1>6

\* Recover adds a worktree with a new identity and claims nothing.
LEMMA RecoverClaim ==
  ASSUME IInv, ClaimInv, NEW q \in Procs, NEW here \in BOOLEAN,
         RecoverAdd(q) \/ RecoverVerify(q) \/ RecoverLoad(q, here)
  PROVE  ClaimInv'
<1> DEFINE me == proc[q]
<1>1. UNCHANGED <<receipts, removals>> /\ me \in Process /\ wt \in [Paths -> Worktree]
  BY DEF RecoverAdd, RecoverVerify, RecoverLoad, files, IInv, TypeOK
<1>2. PICK next : Continue(q, next)
                  /\ next.pc \in {"recover.verify", "recover.receipt", "recover.register"}
  <2>1. ASSUME NEW result PROVE WithRecovery(me, result).pc = "recover.receipt"
    BY <1>1 DEF WithRecovery, Process
  <2>2. ASSUME NEW reg
        PROVE  [me EXCEPT !.pc = "recover.register", !.reg = reg].pc = "recover.register"
    BY <1>1 DEF Process
  <2>3. [me EXCEPT !.pc = "recover.verify"].pc = "recover.verify"
    BY <1>1 DEF Process
  <2>4. CASE RecoverAdd(q)
    BY <2>1, <2>3, <2>4 DEF RecoverAdd
  <2>5. CASE RecoverVerify(q)
    <3>1. \E result \in Results : Continue(q, WithRecovery(me, result))
      BY <2>5 DEF RecoverVerify, Results
    <3>2. QED
      BY <2>1, <3>1
  <2>6. CASE RecoverLoad(q, here)
    <3>1. \E reg : Continue(q, [me EXCEPT !.pc = "recover.register", !.reg = reg])
      BY <2>6 DEF RecoverLoad
    <3>2. QED
      BY <2>2, <3>1
  <2>7. QED
    BY <2>4, <2>5, <2>6
<1>3. wt' \in [Paths -> Worktree] /\ \A p \in Paths : Newer(wt[p], wt'[p])
  <2>1. CASE UNCHANGED wt
    BY <2>1, SameWorktrees
  <2>2. CASE RecoverAdd(q) /\ ~(UNCHANGED wt)
    <3> DEFINE p == me.path
               added == GitAdded(wt[p], me.receipt.head)
               partial == [added EXCEPT !.dirt = "changed"]
    <3>1. p \in Paths /\ me.receipt.head \in Commits
      BY <2>2 DEF IInv, ProcOK, RecoverAdd, Restorable
    <3>2. wt' = [wt EXCEPT ![p] = added] \/ wt' = [wt EXCEPT ![p] = partial]
      BY <2>2 DEF RecoverAdd
    <3>3. wt[p].id \in Nat /\ added \in Worktree /\ added.id = wt[p].id + 1
      BY <1>1, <3>1, GitType DEF Worktree
    <3> HIDE DEF p, added
    <3>4. partial \in Worktree /\ partial.id = wt[p].id + 1
      BY <3>3 DEF Worktree, Dirt
    <3> HIDE DEF partial
    <3>5. PICK w \in {added, partial} : wt' = [wt EXCEPT ![p] = w]
      BY <3>2
    <3>6. w \in Worktree /\ Newer(wt[p], w)
      BY <3>3, <3>4, <3>5 DEF Newer
    <3>7. \A o \in Paths : Newer(wt[o], wt[o])
      BY <1>1 DEF Newer, Worktree
    <3>8. QED
      BY <1>1, <3>1, <3>5, <3>6, <3>7
  <2>3. QED
    BY <2>1, <2>2 DEF RecoverVerify, RecoverLoad, world
<1>4. QED
  BY <1>1, <1>2, <1>3, NothingPends, ClaimContinueOK

\* A receipt turns a pending claim into a claim.
LEMMA WriteReceiptClaim ==
  ASSUME IInv, ClaimInv, NEW q \in Procs, WriteReceipt(q)
  PROVE  ClaimInv'
<1> DEFINE me == proc[q]
           id == Len(receipts) + 1
<1>1. /\ me \in Process /\ ProcOK(me) /\ me.pc \in {"apply.receipt", "recover.receipt"}
      /\ receipts \in Seq(Receipt) /\ receipts' = Append(receipts, me.receipt)
      /\ UNCHANGED <<wt, removals>> /\ proc \in [Procs -> Process]
  BY DEF IInv, TypeOK, WriteReceipt, world
<1>2. me.receipt \in Receipt /\ (me.receipt.result = "removed" => me.pc = "apply.receipt")
      /\ (me.pc = "apply.receipt" =>
            me.receipt.op = "retire" /\ me.receipt.plan.path = me.path /\ me.path \in Paths)
      /\ (me.pc = "recover.receipt" => me.receipt.op = "recover")
  BY <1>1 DEF ProcOK
<1>3. PICK next : Continue(q, next) /\ \A p \in Paths : ~Pends(next, p)
  <2> DEFINE reg == [me.reg EXCEPT !.retired = TRUE, !.last = id]
             register == [me EXCEPT !.pc = "apply.register", !.reg = reg]
             load == [me EXCEPT !.pc = "recover.load", !.rid = id]
  <2>1. Continue(q, register) \/ Continue(q, load) \/ Continue(q, Idle)
    BY <1>1 DEF WriteReceipt, Publish
  <2>2. register.pc = "apply.register" /\ load.pc = "recover.load"
    BY <1>1 DEF Process
  <2> HIDE DEF register, load
  <2>3. QED
    BY <2>1, <2>2, IdleOK, NothingPends
<1>4. proc' = [proc EXCEPT ![q] = next]
  BY <1>3 DEF Continue
<1>5. /\ id \in Nat /\ id \notin DOMAIN receipts
      /\ DOMAIN receipts' = DOMAIN receipts \cup {id} /\ receipts'[id] = me.receipt
      /\ \A i \in DOMAIN receipts : receipts'[i] = receipts[i]
  BY <1>1, <1>2
<1> HIDE DEF me, id
<1>6. CASE ~Removed(me.receipt)
  <2>1. \A p \in Paths : Claims(p)' = Claims(p)
    BY <1>5, <1>6 DEF Claims, Removed
  <2>2. \A o \in Procs, p \in Paths : Pends(proc'[o], p) => Pends(proc[o], p)
    BY <1>1, <1>3, <1>4
  <2>3. QED
    BY <1>1, <2>1, <2>2, SameWorktrees, ClaimStepOK
<1>7. CASE Removed(me.receipt)
  <2>1. /\ me.pc = "apply.receipt" /\ me.receipt.result = "removed"
        /\ me.receipt.plan.path = me.path /\ me.path \in Paths
    BY <1>1, <1>2, <1>7 DEF Removed
  <2>2. Pends(me, me.path) /\ q \in Pending(me.path)
    BY <2>1 DEF Pends, Pending, me
  <2>3. WorktreesPast'
    BY <1>1 DEF ClaimInv, WorktreesPast
  <2>4. ASSUME NEW p \in Paths
        PROVE  /\ IsFiniteSet(RemovalsAt(p)') /\ IsFiniteSet(Pending(p)')
               /\ Cardinality(Claims(p)') + Cardinality(Pending(p)') =< Cardinality(RemovalsAt(p)')
    <3>1. /\ IsFiniteSet(Claims(p)) /\ IsFiniteSet(Pending(p)) /\ IsFiniteSet(RemovalsAt(p))
          /\ Cardinality(Claims(p)) \in Nat /\ Cardinality(Pending(p)) \in Nat
          /\ Cardinality(RemovalsAt(p)) \in Nat
          /\ Cardinality(Claims(p)) + Cardinality(Pending(p)) =< Cardinality(RemovalsAt(p))
      BY CountsOK
    <3>2. RemovalsAt(p)' = RemovalsAt(p)
      BY <1>1 DEF RemovalsAt
    <3>3. Pending(p)' = Pending(p) \ {q}
      BY <1>1, <1>3, <1>4 DEF Pending, Pends
    <3>4. CASE p = me.path
      <4>1. Claims(p)' = Claims(p) \cup {id} /\ id \notin Claims(p)
        BY <1>5, <1>7, <2>1, <3>4 DEF Claims, Removed
      <4>2. Cardinality(Claims(p)') = Cardinality(Claims(p)) + 1
        BY <3>1, <4>1, FS_AddElement
      <4>3. IsFiniteSet(Pending(p)') /\ Cardinality(Pending(p)') = Cardinality(Pending(p)) - 1
        BY <2>2, <3>1, <3>3, <3>4, FS_RemoveElement
      <4>4. QED
        BY <3>1, <3>2, <4>2, <4>3
    <3>5. CASE p # me.path
      <4>1. Claims(p)' = Claims(p)
        BY <1>5, <2>1, <3>5 DEF Claims, Removed
      <4>2. Pending(p)' = Pending(p)
        BY <3>3, <3>5 DEF Pending, Pends, me
      <4>3. QED
        BY <3>1, <3>2, <4>1, <4>2
    <3>6. QED
      BY <3>4, <3>5
  <2>5. QED
    BY <2>3, <2>4 DEF ClaimInv
<1>8. QED
  BY <1>6, <1>7

\* The other records, and the end of a command, claim nothing.
LEMMA OtherClaim ==
  ASSUME IInv, ClaimInv, NEW q \in Procs,
         WriteRegistration(q) \/ WriteProtection(q) \/ WritePlan(q) \/ WriteApproval(q) \/ Abort(q)
  PROVE  ClaimInv'
<1>1. Continue(q, Idle) /\ UNCHANGED <<wt, receipts, removals>>
  BY DEF WriteRegistration, WriteProtection, WritePlan, WriteApproval, Abort, Publish, world, files
<1>2. \A p \in Paths : ~Pends(Idle, p)
  BY IdleOK, NothingPends
<1>3. QED
  BY <1>1, <1>2, SameWorktrees, ClaimContinueOK

-----------------------------------------------------------------------------
(* Claims: the theorem.                                                    *)

\* Every step leaves each claim with a removal of its own.
LEMMA ClaimNextOK ==
  ASSUME IInv, ClaimInv, [Next]_vars
  PROVE  ClaimInv'
<1>1. ASSUME UNCHANGED <<receipts, proc, removals>>, wt' \in [Paths -> Worktree],
             \A p \in Paths : Newer(wt[p], wt'[p])
      PROVE  ClaimInv'
  <2>1. \A p \in Paths : Claims(p)' = Claims(p)
    BY <1>1 DEF Claims, Removed
  <2>2. QED
    BY <1>1, <2>1, ClaimStepOK
<1>2. CASE Tick \/ UNCHANGED vars
  BY <1>1, <1>2, SameWorktrees DEF Tick, vars, world, files
<1>3. CASE Owner
  <2>1. UNCHANGED <<receipts, proc, removals>>
    BY <1>3 DEF Owner, OwnerCommits, OwnerEdits, OwnerLocks, OwnerAdds, OwnerReplaces,
                OwnerMovesRef, OwnerMove, files
  <2>2. QED
    BY <1>1, <1>3, <2>1, OwnerNewer
<1>4. ASSUME NEW q \in Procs, Writes(q) \/ Abort(q)
      PROVE  ClaimInv'
  BY <1>4, OtherClaim, WriteReceiptClaim DEF Writes
<1>5. ASSUME NEW q \in Procs, Reads(q)
      PROVE  ClaimInv'
  BY <1>5, ReadsClaim
<1>6. ASSUME NEW q \in Procs, Acts(q)
      PROVE  ClaimInv'
  BY <1>6, ApplyClaim, RecoverClaim DEF Acts
<1>7. QED
  BY <1>2, <1>3, <1>4, <1>5, <1>6 DEF Next

\* However many Apply commands overlap, fail or die, no two receipts claim
\* the same removal: each claim has a removal of its own.
THEOREM RemovalsClaimedOnce == Spec => []NoRemovalClaimedTwice
<1>1. Init => ClaimInv
  <2> SUFFICES ASSUME Init PROVE ClaimInv
    OBVIOUS
  <2>1. ASSUME NEW p \in Paths
        PROVE  Claims(p) = {} /\ Pending(p) = {} /\ RemovalsAt(p) = {}
    BY IdleOK, NothingPends DEF Init, Claims, Pending, RemovalsAt
  <2>2. WorktreesPast
    BY DEF Init, WorktreesPast
  <2>3. QED
    BY <2>1, <2>2, FS_EmptySet DEF ClaimInv
<1>2. IInv /\ ClaimInv /\ [Next]_vars => ClaimInv'
  BY ClaimNextOK
<1>3. IInv /\ ClaimInv => NoRemovalClaimedTwice
  <2> SUFFICES ASSUME IInv, ClaimInv, NEW p \in Paths
               PROVE  Cardinality(Claims(p)) =< Cardinality(RemovalsAt(p))
    BY DEF NoRemovalClaimedTwice
  <2>1. QED
    BY CountsOK
<1>4. QED
  BY <1>1, <1>2, <1>3, Invariant, PTL DEF Spec
-----------------------------------------------------------------------------
(* What is retained.  The reference and the object a receipt names were     *)
(* chosen by an inspection two commands earlier; the plan, the approval and *)
(* the receipt carry them along, and Recover asks for them again.           *)

\* What is at one path changes, to something with a branch or with none.
LEMMA BranchesStepOK ==
  ASSUME IInv, BranchesOK, NEW p \in Paths, NEW w, w.branch \in Opt(Branches),
         wt' = [wt EXCEPT ![p] = w]
  PROVE  BranchesOK'
BY DEF IInv, TypeOK, BranchesOK

\* Every step that changes a worktree leaves it detached or on a branch.
LEMMA BranchesNextOK ==
  ASSUME IInv, BranchesOK, [Next]_vars
  PROVE  BranchesOK'
<1>1. ASSUME NEW p \in Paths
      PROVE  wt[p] \in Worktree /\ wt[p].branch \in Opt(Branches)
  BY DEF IInv, TypeOK, BranchesOK
<1>2. None \in Opt(Branches)
  BY DEF Opt
<1>3. CASE UNCHANGED wt
  BY <1>3 DEF BranchesOK
<1>4. ASSUME NEW q \in Procs, ApplyRemove(q)
      PROVE  BranchesOK'
  <2> DEFINE p == proc[q].path
             gone == Gone(wt[p])
             half == [wt[p] EXCEPT !.dirt = "changed"]
  <2>1. p \in Paths
    BY <1>4 DEF ApplyRemove, IInv, ProcOK
  <2>2. UNCHANGED wt \/ wt' = [wt EXCEPT ![p] = gone] \/ wt' = [wt EXCEPT ![p] = half]
    BY <1>4 DEF ApplyRemove
  <2>3. gone.branch = None /\ half.branch = wt[p].branch
    BY <1>1, <2>1 DEF Gone, Worktree
  <2> HIDE DEF gone, half, p
  <2>4. QED
    BY <1>1, <1>2, <1>3, <2>1, <2>2, <2>3, BranchesStepOK
<1>5. ASSUME NEW q \in Procs, RecoverAdd(q)
      PROVE  BranchesOK'
  <2> DEFINE p == proc[q].path
             added == GitAdded(wt[p], proc[q].receipt.head)
             half == [added EXCEPT !.dirt = "changed"]
  <2>1. p \in Paths
    BY <1>5 DEF RecoverAdd, IInv, ProcOK
  <2>2. UNCHANGED wt \/ wt' = [wt EXCEPT ![p] = added] \/ wt' = [wt EXCEPT ![p] = half]
    BY <1>5 DEF RecoverAdd
  <2>3. added.branch = None /\ half.branch = None
    BY DEF GitAdded
  <2> HIDE DEF added, half, p
  <2>4. QED
    BY <1>2, <1>3, <2>1, <2>2, <2>3, BranchesStepOK
<1>6. ASSUME NEW p \in Paths, NEW c \in Commits, OwnerCommits(p, c)
      PROVE  BranchesOK'
  <2> DEFINE w == [wt[p] EXCEPT !.head = c, !.dirt = "clean", !.id = @ + 1]
  <2>1. wt' = [wt EXCEPT ![p] = w] /\ w.branch = wt[p].branch
    BY <1>1, <1>6 DEF OwnerCommits, Worktree, IInv, TypeOK
  <2> HIDE DEF w
  <2>2. QED
    BY <1>1, <2>1, BranchesStepOK
<1>7. ASSUME NEW p \in Paths, NEW dirt, OwnerEdits(p, dirt)
      PROVE  BranchesOK'
  <2> DEFINE w == [wt[p] EXCEPT !.dirt = dirt]
  <2>1. wt' = [wt EXCEPT ![p] = w] /\ w.branch = wt[p].branch
    BY <1>1, <1>7 DEF OwnerEdits, Worktree
  <2> HIDE DEF w
  <2>2. QED
    BY <1>1, <2>1, BranchesStepOK
<1>8. ASSUME NEW p \in Paths, OwnerLocks(p)
      PROVE  BranchesOK'
  <2> DEFINE w == [wt[p] EXCEPT !.locked = ~@]
  <2>1. wt' = [wt EXCEPT ![p] = w] /\ w.branch = wt[p].branch
    BY <1>1, <1>8 DEF OwnerLocks, Worktree
  <2> HIDE DEF w
  <2>2. QED
    BY <1>1, <2>1, BranchesStepOK
<1>9. ASSUME NEW p \in Paths, NEW out \in CheckOuts, OwnerAdds(p, out)
      PROVE  BranchesOK'
  <2> DEFINE w == [GitAdded(wt[p], out.head) EXCEPT !.branch = out.branch]
  <2>1. wt' = [wt EXCEPT ![p] = w] /\ w.branch = out.branch
    BY <1>9 DEF OwnerAdds, GitAdded
  <2>2. out.branch \in Opt(Branches)
    BY DEF CheckOuts, Opt
  <2> HIDE DEF w
  <2>3. QED
    BY <2>1, <2>2, BranchesStepOK
<1>10. ASSUME NEW p \in Paths, NEW kind, OwnerReplaces(p, kind)
       PROVE  BranchesOK'
  <2> DEFINE w == IF kind = "prunable" THEN [wt[p] EXCEPT !.kind = kind]
                  ELSE [Gone(wt[p]) EXCEPT !.kind = kind]
  <2>1. wt' = [wt EXCEPT ![p] = w]
    BY <1>10 DEF OwnerReplaces
  <2>2. w.branch = wt[p].branch \/ w.branch = None
    BY <1>1 DEF Worktree, Gone
  <2> HIDE DEF w
  <2>3. QED
    BY <1>1, <1>2, <2>1, <2>2, BranchesStepOK
<1>11. CASE Owner
  BY <1>3, <1>6, <1>7, <1>8, <1>9, <1>10, <1>11 DEF Owner, OwnerMovesRef
<1>12. ASSUME NEW q \in Procs, Writes(q) \/ Reads(q) \/ Abort(q)
       PROVE  UNCHANGED wt
  BY <1>12 DEF Writes, WriteRegistration, WriteProtection, WritePlan, WriteApproval,
       WriteReceipt, Reads, RegisterRead, ReleaseRead, PlanRead, ProtectRead,
       ApproveRead, ApplyRead, RecoverRead, Abort, world
<1>13. ASSUME NEW q \in Procs, Acts(q)
       PROVE  BranchesOK'
  <2>1. UNCHANGED wt \/ ApplyRemove(q) \/ RecoverAdd(q)
    BY <1>13 DEF Acts, ApplyProtection, ApplyInspect, ApplyVerify, RecoverVerify,
                 RecoverLoad, world
  <2>2. QED
    BY <1>3, <1>4, <1>5, <2>1
<1>14. CASE Tick \/ UNCHANGED vars
  <2>1. UNCHANGED wt
    BY <1>14 DEF Tick, vars, world
  <2>2. QED
    BY <1>3, <2>1
<1>15. QED
  BY <1>3, <1>11, <1>12, <1>13, <1>14 DEF Next

\* No worktree ever has a tag checked out.
LEMMA OnlyBranchesOut == Spec => []BranchesOK
<1>1. Init => BranchesOK
  BY DEF Init, BranchesOK
<1>2. IInv /\ BranchesOK /\ [Next]_vars => BranchesOK'
  BY BranchesNextOK
<1>3. QED
  BY <1>1, <1>2, Invariant, PTL DEF Spec

\* What the inspection finds for a worktree can be found.
LEMMA PreservedKept ==
  ASSUME IInv, NEW w \in Worktree, w.head \in Commits, w.branch \in Opt(Branches)
  PROVE  Kept(Preserved(w))
<1>1. refs \in [Refs -> Opt(Commits)] /\ None \notin Refs /\ Annotated \subseteq Refs
  BY NoneIsNothing, ConstantAssumption DEF IInv, TypeOK
<1>2. w.head # None
  BY NoneIsNothing
<1>3. CASE w.branch # None
  <2>1. w.branch \in Branches /\ w.branch \notin Annotated /\ None \notin Branches \cup Annotated
    BY <1>1, <1>3 DEF Branches, Opt
  <2>2. QED
    BY <1>1, <1>2, <1>3, <2>1 DEF Preserved, Kept
<1>4. CASE w.branch = None /\ RefsContaining(w.head) # {}
  <2> DEFINE r == First(RefsContaining(w.head))
  <2>1. r \in Refs /\ refs[r] # None
    BY <1>4, FirstIsMember DEF RefsContaining
  <2>2. Preserved(w) = [ref |-> r, oid |-> ObjectName(r)]
    BY <1>4 DEF Preserved
  <2> HIDE DEF r
  <2>3. /\ r \in Branches => ObjectName(r) = Resolved(r)
        /\ r \in Annotated => ObjectName(r)[1] = "tag"
    BY DEF Branches, ObjectName, Resolved
  <2>4. Preserved(w).ref = r /\ Preserved(w).oid = ObjectName(r)
    BY <2>2
  <2>5. QED
    BY <2>1, <2>3, <2>4 DEF Kept
<1>5. CASE w.branch = None /\ RefsContaining(w.head) = {}
  BY <1>1, <1>5 DEF Preserved, Kept, Branches
<1>6. QED
  BY <1>3, <1>4, <1>5

\* So can what a snapshot retains, whatever gate the inspection ended at.
LEMMA SnapshotKept ==
  ASSUME IInv, BranchesOK, NEW p \in Paths, NEW here \in BOOLEAN
  PROVE  Kept(TakeSnapshot(p, here)) /\ Kept(NoSnapshot)
<1>1. None \notin Branches \cup Annotated /\ wt[p] \in Worktree
  BY NoneIsNothing, ConstantAssumption DEF Branches, IInv, TypeOK
<1>2. Kept(NoSnapshot)
  BY <1>1 DEF Kept, NoSnapshot
<1>3. CASE wt[p].kind \notin {"linked", "prunable"} \/ p \in AgentRoots
  BY <1>2, <1>3 DEF TakeSnapshot
<1>4. CASE /\ ~(wt[p].kind \notin {"linked", "prunable"} \/ p \in AgentRoots)
           /\ ~EarlyGates(p, here)
  <2> DEFINE s == [NoSnapshot EXCEPT !.head = wt[p].head, !.branch = wt[p].branch]
  <2>1. TakeSnapshot(p, here) = s
    BY <1>4 DEF TakeSnapshot
  <2>2. s.ref = None
    BY DEF NoSnapshot
  <2>3. QED
    BY <1>1, <1>2, <2>1, <2>2 DEF Kept
<1>5. CASE /\ ~(wt[p].kind \notin {"linked", "prunable"} \/ p \in AgentRoots)
           /\ EarlyGates(p, here)
  <2>1. wt[p].head \in Commits
    BY <1>5 DEF EarlyGates, IInv, HeadsOK
  <2>2. Kept(Preserved(wt[p]))
    BY <1>1, <2>1, PreservedKept DEF BranchesOK
  <2>3. /\ TakeSnapshot(p, here).ref = Preserved(wt[p]).ref
        /\ TakeSnapshot(p, here).oid = Preserved(wt[p]).oid
    BY <1>5 DEF TakeSnapshot
  <2>4. QED
    BY <1>2, <2>2, <2>3 DEF Kept
<1>6. QED
  BY <1>2, <1>3, <1>4, <1>5

\* A step of one process that moves no ref preserves KeptInv if what the
\* process carries next, the plans and the receipts are in order.
LEMMA KeptStepOK ==
  ASSUME IInv, KeptInv, NEW q \in Procs, NEW next, KeptProc(next), Continue(q, next),
         UNCHANGED refs,
         \A plan \in plans' : Kept(plan.snap),
         \A i \in DOMAIN receipts' : Kept(receipts'[i])
  PROVE  KeptInv'
<1>1. proc \in [Procs -> Process] /\ proc' = [proc EXCEPT ![q] = next]
  BY DEF IInv, TypeOK, Continue
<1>2. \A o \in Procs : KeptProc(proc'[o])
  BY <1>1 DEF KeptInv
<1>3. \A o \in Procs : KeptProc(proc[o])'
  BY <1>2 DEF KeptProc, Kept, Resolved
<1>4. QED
  BY <1>3 DEF KeptInv, Kept, Resolved

\* The common case: no record changes.
LEMMA KeptContinueOK ==
  ASSUME IInv, KeptInv, NEW q \in Procs, NEW next, KeptProc(next), Continue(q, next),
         UNCHANGED <<refs, files>>
  PROVE  KeptInv'
<1>1. /\ \A plan \in plans' : Kept(plan.snap)
      /\ \A i \in DOMAIN receipts' : Kept(receipts'[i])
  BY DEF files, KeptInv
<1>2. QED
  BY <1>1, KeptStepOK

\* A step that changes neither records nor processes nor refs.
LEMMA KeptOutsideOK ==
  ASSUME IInv, KeptInv, UNCHANGED <<refs, files, proc>>
  PROVE  KeptInv'
<1>1. UNCHANGED <<refs, plans, receipts, proc>>
  BY DEF files
<1>2. QED
  BY <1>1 DEF KeptInv, KeptProc, Kept, Resolved

\* A process that carries nothing that will be written as a plan or a receipt.
LEMMA NothingKept ==
  ASSUME NEW me, me.pc \in {"idle", "register.write", "release.write", "protect.write",
                            "approve.write", "apply.register", "recover.load",
                            "recover.register"}
  PROVE  KeptProc(me)
BY DEF KeptProc

\* A receipt of Apply retains what its plan does.
LEMMA ReceiptKept ==
  ASSUME NEW me, DOMAIN me = DOMAIN Idle, NEW result, Kept(me.plan.snap)
  PROVE  KeptProc(WithReceipt(me, result))
<1> DEFINE next == WithReceipt(me, result)
<1>1. next.pc = "apply.receipt" /\ next.receipt = ReceiptOf(me.plan, result)
  BY DEF WithReceipt, Idle
<1>2. /\ next.receipt.ref = me.plan.snap.ref
      /\ next.receipt.oid = me.plan.snap.oid
  BY <1>1 DEF ReceiptOf
<1> HIDE DEF next
<1>3. KeptProc(next)
  BY <1>1, <1>2 DEF KeptProc, Kept
<1>4. QED
  BY <1>3 DEF next

\* The plan of a command takes what the inspection retains, or nothing.
LEMMA PlanKept ==
  ASSUME IInv, BranchesOK, KeptInv, NEW q \in Procs, NEW p \in Paths, NEW here \in BOOLEAN,
         PlanRead(q, p, here)
  PROVE  KeptInv'
<1> DEFINE reg  == registrations[p]
           snap == IF reg.retired THEN NoSnapshot ELSE TakeSnapshot(p, here)
           plan == [path |-> p, reg |-> reg, snap |-> snap,
                    decision |-> Decision(reg, GatesPass(p, here), protected[p]),
                    expires |-> now + PlanTTL]
           next == [Idle EXCEPT !.pc = "plan.write", !.path = p, !.plan = plan]
<1>1. Continue(q, next) /\ UNCHANGED <<refs, files>>
  BY DEF PlanRead, Begin, Continue, world
<1>2. Kept(snap)
  BY SnapshotKept
<1> HIDE DEF snap
<1>3. plan.snap = snap
  OBVIOUS
<1> HIDE DEF plan
<1>4. next.pc = "plan.write" /\ next.plan = plan
  BY DEF Idle
<1> HIDE DEF next
<1>5. KeptProc(next)
  BY <1>2, <1>3, <1>4 DEF KeptProc
<1>6. QED
  BY <1>1, <1>5, KeptContinueOK

\* Apply reads a plan from disk.
LEMMA ApplyReadKept ==
  ASSUME IInv, KeptInv, NEW q \in Procs, NEW plan \in plans, ApplyRead(q, plan)
  PROVE  KeptInv'
<1> DEFINE reg == registrations[plan.path]
           me  == [Idle EXCEPT !.path = plan.path, !.plan = plan, !.reg = reg]
           started == [me EXCEPT !.pc = "apply.protection"]
           blocked == WithReceipt(me, "blocked_changed")
<1>1. /\ Continue(q, IF plan.decision = "READY" /\ reg = plan.reg THEN started ELSE blocked)
      /\ UNCHANGED <<refs, files>>
  BY DEF ApplyRead, Begin, Continue, world
<1>2. Kept(plan.snap)
  BY DEF KeptInv
<1> HIDE DEF reg
<1>3. started.pc = "apply.protection" /\ started.plan = plan
  BY DEF Idle
<1>4. DOMAIN me = DOMAIN Idle /\ me.plan = plan
  BY DEF Idle
<1> HIDE DEF me, started
<1>5. KeptProc(started)
  BY <1>2, <1>3 DEF KeptProc
<1>6. KeptProc(blocked)
  BY <1>2, <1>4, ReceiptKept
<1>7. QED
  BY <1>1, <1>5, <1>6, KeptContinueOK

\* The steps of Apply carry the plan along.
LEMMA ApplyKept ==
  ASSUME IInv, KeptInv, NEW q \in Procs, NEW here \in BOOLEAN,
         ApplyProtection(q) \/ ApplyInspect(q, here) \/ ApplyRemove(q) \/ ApplyVerify(q)
  PROVE  KeptInv'
<1> DEFINE me == proc[q]
<1>1. /\ UNCHANGED <<refs, files>>
      /\ me.pc \in {"apply.protection", "apply.inspect", "apply.remove", "apply.verify"}
  BY DEF ApplyProtection, ApplyInspect, ApplyRemove, ApplyVerify, world
<1>2. me \in Process /\ Kept(me.plan.snap)
  BY <1>1 DEF IInv, TypeOK, KeptInv, KeptProc
<1>3. \/ \E pc \in {"apply.inspect", "apply.remove", "apply.verify"} :
           Continue(q, [me EXCEPT !.pc = pc])
      \/ \E result \in Results : Continue(q, WithReceipt(me, result))
  BY DEF ApplyProtection, ApplyInspect, ApplyRemove, ApplyVerify, ActionFailed, Verified, Results
<1> HIDE DEF me
<1>4. ASSUME NEW pc \in {"apply.inspect", "apply.remove", "apply.verify"}
      PROVE  KeptProc([me EXCEPT !.pc = pc])
  <2> DEFINE next == [me EXCEPT !.pc = pc]
  <2>1. next.pc = pc /\ next.plan = me.plan
    BY <1>2 DEF Process
  <2> HIDE DEF next
  <2>2. KeptProc(next)
    BY <1>2, <2>1 DEF KeptProc
  <2>3. QED
    BY <2>2 DEF next
<1>5. DOMAIN me = DOMAIN Idle
  BY <1>2 DEF Process, Idle
<1>6. \A result \in Results : KeptProc(WithReceipt(me, result))
  BY <1>2, <1>5, ReceiptKept
<1>7. QED
  BY <1>1, <1>3, <1>4, <1>6, KeptContinueOK

\* Recover takes a receipt from disk and carries it along.
LEMMA RecoverKept ==
  ASSUME IInv, KeptInv, NEW q \in Procs,
         \/ \E i \in DOMAIN receipts : RecoverRead(q, i)
         \/ RecoverAdd(q) \/ RecoverVerify(q)
  PROVE  KeptInv'
<1> DEFINE Steps == {"recover.add", "recover.verify", "recover.receipt"}
<1>1. ASSUME NEW me, DOMAIN me = DOMAIN Idle, NEW result,
             DOMAIN me.receipt = DOMAIN ReceiptOf(Idle, ""), Kept(me.receipt)
      PROVE  KeptProc(WithRecovery(me, result))
  <2> DEFINE next == WithRecovery(me, result)
  <2>1. /\ next.pc = "recover.receipt"
        /\ next.receipt.ref = me.receipt.ref /\ next.receipt.oid = me.receipt.oid
    BY <1>1 DEF WithRecovery, Idle, ReceiptOf
  <2> HIDE DEF next
  <2>2. KeptProc(next)
    BY <1>1, <2>1 DEF KeptProc, Kept
  <2>3. QED
    BY <2>2 DEF next
<1>2. CASE \E i \in DOMAIN receipts : RecoverRead(q, i)
  <2>1. PICK i \in DOMAIN receipts : RecoverRead(q, i)
    BY <1>2
  <2> DEFINE r == receipts[i]
             again == [r EXCEPT !.op = "recover"]
             start == [Idle EXCEPT !.path = r.plan.path, !.receipt = again]
             go == [start EXCEPT !.pc = "recover.add"]
             failed == WithRecovery(start, "recovery_failed")
  <2>2. /\ Continue(q, IF Recoverable(r) THEN go ELSE failed)
        /\ UNCHANGED <<refs, files>>
    BY <2>1 DEF RecoverRead, Begin, Continue, world
  <2>3. r \in Receipt /\ Kept(r)
    BY <2>1 DEF IInv, TypeOK, KeptInv
  <2> HIDE DEF r
  <2>4. /\ again.ref = r.ref /\ again.oid = r.oid
        /\ DOMAIN again = DOMAIN ReceiptOf(Idle, "")
    BY <2>3 DEF Receipt, ReceiptOf
  <2> HIDE DEF again
  <2>5. Kept(again)
    BY <2>3, <2>4 DEF Kept
  <2>6. /\ go.pc = "recover.add" /\ go.receipt = again
        /\ DOMAIN start = DOMAIN Idle /\ start.receipt = again
    BY DEF Idle
  <2> HIDE DEF go, start
  <2>7. KeptProc(go)
    BY <2>5, <2>6 DEF KeptProc
  <2>8. KeptProc(failed)
    BY <1>1, <2>4, <2>5, <2>6
  <2>9. QED
    BY <2>2, <2>7, <2>8, KeptContinueOK
<1>3. CASE RecoverAdd(q) \/ RecoverVerify(q)
  <2> DEFINE me == proc[q]
             go == [me EXCEPT !.pc = "recover.verify"]
  <2>1. /\ \/ Continue(q, go)
           \/ \E result \in Results : Continue(q, WithRecovery(me, result))
        /\ UNCHANGED <<refs, files>>
        /\ me.pc \in Steps
    BY <1>3 DEF RecoverAdd, RecoverVerify, Results, world
  <2>2. me \in Process /\ Kept(me.receipt) /\ me.receipt \in Receipt
    BY <2>1 DEF IInv, TypeOK, KeptInv, KeptProc, ProcOK
  <2> HIDE DEF me
  <2>3. DOMAIN me = DOMAIN Idle /\ DOMAIN me.receipt = DOMAIN ReceiptOf(Idle, "")
    BY <2>2 DEF Process, Idle, Receipt, ReceiptOf
  <2>4. \A result \in Results : KeptProc(WithRecovery(me, result))
    BY <1>1, <2>2, <2>3
  <2>5. go.pc = "recover.verify" /\ go.receipt = me.receipt
    BY <2>2 DEF Process
  <2> HIDE DEF go
  <2>6. KeptProc(go)
    BY <2>2, <2>5 DEF KeptProc
  <2>7. QED
    BY <2>1, <2>4, <2>6, KeptContinueOK
<1>4. QED
  BY <1>2, <1>3

\* The other commands write no plan and no receipt.
LEMMA OtherKept ==
  ASSUME IInv, KeptInv, NEW q \in Procs, NEW here \in BOOLEAN,
         \/ \E p \in Paths : RegisterRead(q, p, here) \/ ReleaseRead(q, p, here)
         \/ \E p \in Paths, want \in BOOLEAN : ProtectRead(q, p, want)
         \/ \E plan \in plans : ApproveRead(q, plan)
         \/ RecoverLoad(q, here) \/ Abort(q)
  PROVE  KeptInv'
<1>1. /\ UNCHANGED <<refs, files>>
      /\ \E next : /\ Continue(q, next)
                   /\ next.pc \in {"idle", "register.write", "release.write",
                                   "protect.write", "approve.write", "recover.register"}
  <2>1. CASE \E p \in Paths : RegisterRead(q, p, here) \/ ReleaseRead(q, p, here)
    BY <2>1 DEF RegisterRead, ReleaseRead, Begin, Continue, Idle, world
  <2>2. CASE \E p \in Paths, want \in BOOLEAN : ProtectRead(q, p, want)
    BY <2>2 DEF ProtectRead, Begin, Continue, Idle, world
  <2>3. CASE \E plan \in plans : ApproveRead(q, plan)
    BY <2>3 DEF ApproveRead, Begin, Continue, Idle, world
  <2>4. CASE RecoverLoad(q, here)
    <3> DEFINE me == proc[q]
               reg == [registrations[me.path] EXCEPT !.retired = FALSE, !.expires = None,
                         !.last = me.rid,
                         !.snap = IF GatesPass(me.path, here) THEN TakeSnapshot(me.path, here)
                                  ELSE @]
               next == [me EXCEPT !.pc = "recover.register", !.reg = reg]
    <3>1. Continue(q, next) /\ UNCHANGED <<refs, files>>
      BY <2>4 DEF RecoverLoad, world
    <3>2. me \in Process
      BY DEF IInv, TypeOK
    <3> HIDE DEF me, reg
    <3>3. next.pc = "recover.register"
      BY <3>2 DEF Process
    <3> HIDE DEF next
    <3>4. QED
      BY <3>1, <3>3
  <2>5. CASE Abort(q)
    BY <2>5 DEF Abort, Idle, world
  <2>6. QED
    BY <2>1, <2>2, <2>3, <2>4, <2>5
<1>2. PICK next : /\ Continue(q, next)
                  /\ next.pc \in {"idle", "register.write", "release.write",
                                  "protect.write", "approve.write", "recover.register"}
  BY <1>1
<1>3. KeptProc(next)
  BY <1>2, NothingKept
<1>4. QED
  BY <1>1, <1>2, <1>3, KeptContinueOK

\* What is written is what was carried.
LEMMA WritesKept ==
  ASSUME IInv, KeptInv, NEW q \in Procs, Writes(q)
  PROVE  KeptInv'
<1> DEFINE me == proc[q]
<1>1. me \in Process /\ KeptProc(me) /\ UNCHANGED refs
  BY DEF IInv, TypeOK, KeptInv, Writes, WriteRegistration, WriteProtection, WritePlan,
         WriteApproval, WriteReceipt, world
<1>2. /\ \A plan \in plans : Kept(plan.snap)
      /\ \A i \in DOMAIN receipts : Kept(receipts[i])
      /\ KeptProc(Idle)
  BY NothingKept DEF KeptInv, Idle
<1>3. CASE WriteRegistration(q) \/ WriteProtection(q) \/ WriteApproval(q)
  <2>1. Continue(q, Idle) /\ UNCHANGED <<plans, receipts>>
    BY <1>3 DEF WriteRegistration, WriteProtection, WriteApproval, Publish
  <2>2. QED
    BY <1>1, <1>2, <2>1, KeptStepOK
<1>4. CASE WritePlan(q)
  <2>1. /\ plans' = plans \cup {me.plan}
        /\ Continue(q, Idle) /\ UNCHANGED receipts /\ Kept(me.plan.snap)
    BY <1>1, <1>4 DEF WritePlan, Publish, KeptProc
  <2> HIDE DEF me
  <2>2. QED
    BY <1>1, <1>2, <2>1, KeptStepOK
<1>5. CASE WriteReceipt(q)
  <2> DEFINE id == Len(receipts) + 1
             register == [me EXCEPT !.pc = "apply.register",
                            !.reg = [@ EXCEPT !.retired = TRUE, !.last = id]]
             load == [me EXCEPT !.pc = "recover.load", !.rid = id]
             next == CASE me.receipt.result = "removed" -> register
                       [] me.receipt.result = "recovered" -> load
                       [] OTHER -> Idle
  <2>1. /\ receipts' = Append(receipts, me.receipt)
        /\ Continue(q, next) /\ UNCHANGED plans /\ Kept(me.receipt)
    BY <1>1, <1>5 DEF WriteReceipt, Publish, KeptProc
  <2>2. receipts \in Seq(Receipt)
    BY DEF IInv, TypeOK
  <2> HIDE DEF me
  <2>3. \A i \in DOMAIN receipts' : Kept(receipts'[i])
    BY <1>2, <2>1, <2>2
  <2>4. register.pc = "apply.register" /\ load.pc = "recover.load"
    BY <1>1 DEF Process
  <2>5. next \in {register, load, Idle}
    OBVIOUS
  <2> HIDE DEF register, load, next
  <2>6. KeptProc(next)
    BY <1>2, <2>4, <2>5, NothingKept
  <2>7. QED
    BY <1>1, <1>2, <2>1, <2>3, <2>6, KeptStepOK
<1>6. QED
  BY <1>3, <1>4, <1>5 DEF Writes

\* Every step that moves no ref preserves what is retained.
LEMMA KeptNextOK ==
  ASSUME IInv, BranchesOK, KeptInv, [Next]_vars, UNCHANGED refs
  PROVE  KeptInv'
<1>1. CASE Tick
  BY <1>1, KeptOutsideOK DEF Tick
<1>2. CASE Owner
  <2>1. UNCHANGED <<files, proc>>
    BY <1>2 DEF Owner, OwnerCommits, OwnerEdits, OwnerLocks, OwnerAdds, OwnerReplaces,
                OwnerMovesRef, OwnerMove
  <2>2. QED
    BY <2>1, KeptOutsideOK
<1>3. ASSUME NEW q \in Procs, Writes(q)
      PROVE  KeptInv'
  BY <1>3, WritesKept
<1>4. ASSUME NEW q \in Procs, Reads(q)
      PROVE  KeptInv'
  BY <1>4, PlanKept, ApplyReadKept, RecoverKept, OtherKept DEF Reads
<1>5. ASSUME NEW q \in Procs, Acts(q)
      PROVE  KeptInv'
  BY <1>5, ApplyKept, RecoverKept, OtherKept DEF Acts
<1>6. ASSUME NEW q \in Procs, Abort(q)
      PROVE  KeptInv'
  BY <1>6, OtherKept
<1>7. CASE UNCHANGED vars
  BY <1>7, KeptOutsideOK DEF vars, files
<1>8. QED
  BY <1>1, <1>2, <1>3, <1>4, <1>5, <1>6, <1>7 DEF Next

\* As long as no ref moves, every plan and receipt, one that a process still
\* carries included, retains the object its branch names, and of an annotated
\* tag the object of the tag.
THEOREM BranchesAreKept ==
  Spec /\ [][UNCHANGED refs]_refs => []KeptInv
<1>1. Init => KeptInv
  <2> SUFFICES ASSUME Init PROVE KeptInv
    OBVIOUS
  <2>1. KeptProc(Idle)
    BY NothingKept DEF Idle
  <2>2. plans = {} /\ receipts = <<>> /\ proc = [q \in Procs |-> Idle]
    BY DEF Init
  <2>3. DOMAIN receipts = {}
    BY <2>2
  <2>4. QED
    BY <2>1, <2>2, <2>3 DEF KeptInv
<1>2. IInv /\ BranchesOK /\ KeptInv /\ [Next]_vars /\ [UNCHANGED refs]_refs => KeptInv'
  BY KeptNextOK
<1>3. QED
  BY <1>1, <1>2, Invariant, OnlyBranchesOut, PTL DEF Spec

\* While no ref moves, the preservation check of Recover (engine.go:405-408)
\* accepts a successful retirement exactly when its head is kept by a branch
\* or a lightweight tag, whatever commands overlap or die meanwhile: a head
\* that an annotated tag keeps can never be recovered.
THEOREM RecoverableUnlessAnnotated ==
  Spec /\ [][UNCHANGED refs]_refs =>
    [](\A i \in DOMAIN receipts :
         Removed(receipts[i]) =>
           (StillPreserved(receipts[i]) <=> receipts[i].ref \in Branches))
<1>1. ASSUME IInv, KeptInv, NEW i \in DOMAIN receipts, Removed(receipts[i])
      PROVE  StillPreserved(receipts[i]) <=> receipts[i].ref \in Branches
  <2> DEFINE r == receipts[i]
  <2>1. r \in Receipt /\ ValidReceipt(r) /\ Kept(r)
    BY <1>1 DEF IInv, TypeOK, ReceiptsReadable, KeptInv
  <2>2. r.ref # None
    BY <1>1, <2>1 DEF ValidReceipt, Removed, Recovery, Results
  <2>3. r.ref \in Branches \/ r.ref \in Annotated
    BY <2>1, <2>2 DEF Branches, Receipt, Opt
  <2>4. CASE r.ref \in Branches
    BY <2>1, <2>4 DEF Kept, StillPreserved
  <2>5. CASE r.ref \in Annotated
    <3>1. r.ref \notin Branches /\ r.oid[1] = "tag"
      BY <2>1, <2>5 DEF Kept, Branches
    <3>2. Resolved(r.ref)[1] = "commit"
      BY DEF Resolved
    <3>3. QED
      BY <3>1, <3>2 DEF StillPreserved
  <2>6. QED
    BY <2>3, <2>4, <2>5
<1>2. IInv /\ KeptInv =>
        \A i \in DOMAIN receipts :
          Removed(receipts[i]) =>
            (StillPreserved(receipts[i]) <=> receipts[i].ref \in Branches)
  BY <1>1
<1>3. QED
  BY <1>2, Invariant, BranchesAreKept, PTL

\* In a repository without annotated tags the check therefore accepts every
\* successful retirement, as long as no ref moves.
THEOREM RetirementsStayRecoverable ==
  ASSUME Annotated = {}
  PROVE  Spec /\ [][UNCHANGED refs]_refs => []RetirementsRecoverable
<1> DEFINE Exact == \A i \in DOMAIN receipts :
                      Removed(receipts[i]) =>
                        (StillPreserved(receipts[i]) <=> receipts[i].ref \in Branches)
<1>1. IInv /\ Exact => RetirementsRecoverable
  <2> SUFFICES ASSUME IInv, Exact, NEW i \in DOMAIN receipts, Removed(receipts[i])
               PROVE  StillPreserved(receipts[i])
    BY DEF RetirementsRecoverable
  <2>1. receipts[i] \in Receipt /\ ValidReceipt(receipts[i])
    BY DEF IInv, TypeOK, ReceiptsReadable
  <2>2. receipts[i].ref # None
    BY <2>1 DEF ValidReceipt, Removed, Recovery, Results
  <2>3. receipts[i].ref \in Branches
    BY <2>1, <2>2 DEF Branches, Receipt, Opt
  <2>4. QED
    BY <2>3
<1>2. QED
  BY <1>1, Invariant, RecoverableUnlessAnnotated, PTL
=============================================================================
