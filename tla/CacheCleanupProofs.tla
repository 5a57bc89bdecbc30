------------------------- MODULE CacheCleanupProofs -------------------------
(***************************************************************************)
(* Theorems about CacheCleanup, for any processes, candidates, caches,     *)
(* tools and bounds.                                                       *)
(*                                                                         *)
(* They follow from the inductive invariant IInv.  The steps of a plan or  *)
(* an Apply change the process that takes them and nothing that the        *)
(* invariant says of the others (WorkerStep); the steps of Protect and     *)
(* Unprotect change what the others rely on, and have a proof each.        *)
(***************************************************************************)
EXTENDS CacheCleanup, TLAPS

-----------------------------------------------------------------------------
(* Types.                                                                  *)

\* None is none of the values it stands in for.
LEMMA NoneIsNothing ==
  /\ None \notin Candidate /\ None \notin Record
  /\ None \notin Process /\ None \notin Nat
BY ProtectionAssumption, CleanupAssumption

\* The first state satisfies the invariant.
LEMMA InitOK == Init => IInv
<1> SUFFICES ASSUME Init PROVE IInv
  OBVIOUS
<1> USE DEF Init, ProtectionInit
<1>1. TypeOK
  BY CleanupAssumption, MachineAssumption DEF TypeOK, PCs, ProtectionPCs, Opt, Sizes
<1>2. ReceiptsReadable
  BY DEF ReceiptsReadable
<1>3. \A p \in Process : LocalsOK(p) /\ BindingOK(p) /\ ChecksOK(p) /\ SinceOK(p)
  BY DEF LocalsOK, BindingOK, ChecksOK, SinceOK, Alone, ProtectionPCs, Applying,
         Looking, Cleared, Acting
<1>4. QED
  BY <1>1, <1>2, <1>3 DEF IInv

\* What Measured and Removed return.
LEMMA SizesOK ==
  ASSUME TypeOK
  PROVE  /\ Measured \in Sizes /\ 0 \in Sizes
         /\ \A a, b \in Sizes : Removed(a, b) \in Nat
BY CleanupAssumption DEF TypeOK, Measured, Removed, Sizes, Opt, Cache

\* The receipts that Apply makes are well typed and accepted by validReceipt.
LEMMA ReceiptsMade ==
  ASSUME TypeOK, NEW l \in Plan, NEW a \in Sizes
  PROVE  /\ \A d \in {"PROTECTED", "BLOCKED_CHANGED"} :
              Blocked(l, d, a) \in Receipt /\ ValidReceipt(Blocked(l, d, a))
         /\ Cleaned(l, a) \in Receipt /\ ValidReceipt(Cleaned(l, a))
         /\ Failed(l, a) \in Receipt /\ ValidReceipt(Failed(l, a))
<1>1. 0 \in Sizes /\ l.bytes \in Sizes /\ Removed(l.bytes, a) \in Nat
  BY SizesOK DEF Plan
<1>2. ASSUME NEW d \in {"PROTECTED", "BLOCKED_CHANGED"}
      PROVE  Blocked(l, d, a) \in Receipt /\ ValidReceipt(Blocked(l, d, a))
  BY <1>1 DEF Blocked, Receipt, ValidReceipt
<1>3. Cleaned(l, a) \in Receipt /\ ValidReceipt(Cleaned(l, a))
  BY <1>1 DEF Cleaned, Receipt, ValidReceipt
<1>4. Failed(l, a) \in Receipt /\ ValidReceipt(Failed(l, a))
  BY <1>1 DEF Failed, Receipt, ValidReceipt
<1>5. QED
  BY <1>2, <1>3, <1>4

\* What protection consists of stays well typed in a step of Protect or
\* Unprotect.
LEMMA KeeperTypes ==
  ASSUME IInv, NEW p \in Process, Protecting(p)
  PROVE  TypeOK'
<1> USE DEF IInv, protection, call, protectionVars, machine, work, Go, Opt
<1>1. /\ \A q \in Process : pc[q] \in ProtectionPCs \ {"idle"} => target[q] \in Candidate
      /\ None \notin Record
  BY NoneIsNothing DEF LocalsOK
<1>2. {"idle", "protect.write", "unprotect.open", "unprotect.generation",
       "unprotect.advance", "unprotect.truncate", "unprotect.tombstone"} \subseteq PCs
  BY DEF PCs, ProtectionPCs, Unprotecting
<1>3. ASSUME NEW c \in Candidate, Protect(p, c) \/ Unprotect(p, c)
      PROVE  TypeOK'
  <2>1. overlapped' \in [Process -> BOOLEAN]
    <3>1. CASE Protect(p, c)
      BY <3>1 DEF Protect, TypeOK
    <3>2. CASE Unprotect(p, c)
      BY <3>2, Zenon DEF Unprotect
    <3>3. QED
      BY <1>3, <3>1, <3>2
  <2>2. pc' \in [Process -> PCs] /\ target' \in [Process -> Opt(Candidate)]
    <3>1. \/ Go(p, "protect.write")
          \/ Go(p, "unprotect.open")
      BY <1>3 DEF Protect, Unprotect
    <3>2. target' = [target EXCEPT ![p] = c]
      BY <1>3 DEF Protect, Unprotect
    <3>3. pc \in [Process -> PCs] /\ target \in [Process -> Opt(Candidate)]
      BY DEF TypeOK
    <3> HIDE DEF IInv
    <3>4. QED
      BY <1>2, <3>1, <3>2, <3>3
  <2>3. UNCHANGED <<protection, file, read, now, machine, host, plans, receipts, work>>
    BY <1>3 DEF Protecting, Protect, Unprotect
  <2>4. QED
    BY <2>1, <2>2, <2>3 DEF TypeOK
<1>4. ASSUME Return(p), records' \in [Candidate -> Opt(Record)],
             litter' \subseteq Dirs, inodes' \in Nat, lifted' \in [Candidate -> Nat],
             generation' = generation
      PROVE  TypeOK'
  BY <1>2, <1>4 DEF Protecting, TypeOK, Return
<1>5. CASE WriteProtection(p)
  <2>1. target[p] \in Candidate /\ inodes + 1 \in Nat
    BY <1>1, <1>5 DEF WriteProtection, TypeOK, ProtectionPCs
  <2>2. [inode |-> inodes + 1, state |-> "protected"] \in Record
    BY <2>1 DEF Record
  <2>3. records' \in [Candidate -> Opt(Record)]
    BY <1>5, <2>1, <2>2 DEF WriteProtection, TypeOK
  <2>4. QED
    BY <1>4, <1>5, <2>1, <2>3 DEF WriteProtection, TypeOK
<1>6. CASE OpenRecord(p)
  <2>1. target[p] \in Candidate
    BY <1>1, <1>6 DEF OpenRecord, ProtectionPCs, Unprotecting
  <2>2. InForce(target[p]) => records[target[p]].inode \in Nat
    BY <2>1 DEF InForce, TypeOK, Record
  <2>3. CASE InForce(target[p]) /\ file' = [file EXCEPT ![p] = records[target[p]].inode]
             /\ Go(p, "unprotect.generation") /\ UNCHANGED <<target, read, overlapped>>
    <3>1. file' \in [Process -> Nat] /\ pc' \in [Process -> PCs]
      BY <1>2, <2>2, <2>3 DEF TypeOK
    <3>2. QED
      BY <1>6, <2>3, <3>1 DEF OpenRecord, Protecting, TypeOK
  <2>4. CASE Return(p)
    BY <1>4, <1>6, <2>4 DEF OpenRecord, TypeOK
  <2>5. QED
    BY <1>6, <2>3, <2>4 DEF OpenRecord
<1>7. CASE ReadGeneration(p)
  <2>1. CASE read' = [read EXCEPT ![p] = generation]
             /\ Go(p, "unprotect.advance") /\ UNCHANGED <<target, file, overlapped>>
    <3>1. read' \in [Process -> Nat] /\ pc' \in [Process -> PCs]
      BY <1>2, <2>1 DEF TypeOK
    <3>2. QED
      BY <1>7, <2>1, <3>1 DEF ReadGeneration, Protecting, TypeOK
  <2>2. CASE Return(p)
    BY <1>4, <1>7, <2>2 DEF ReadGeneration, TypeOK
  <2>3. QED
    BY <1>7, <2>1, <2>2 DEF ReadGeneration
<1>8. CASE Advance(p)
  BY <1>2, <1>8 DEF Advance, Protecting, TypeOK
<1>9. ASSUME NEW s \in {"malformed", "unprotected"}, target[p] \in Candidate
      PROVE  Rewritten(p, s) \in [Candidate -> Opt(Record)]
  <2>1. [inode |-> file[p], state |-> s] \in Record
    BY DEF TypeOK, Record
  <2>2. QED
    BY <1>9, <2>1 DEF TypeOK, Rewritten
<1>10. CASE Truncate(p)
  <2>1. target[p] \in Candidate
    BY <1>1, <1>10 DEF Truncate, ProtectionPCs, Unprotecting
  <2>2. records' \in [Candidate -> Opt(Record)]
    BY <1>9, <1>10, <2>1 DEF Truncate, TypeOK
  <2>3. QED
    BY <1>2, <1>10, <2>2 DEF Truncate, Protecting, TypeOK
<1>11. CASE Tombstone(p)
  <2>1. target[p] \in Candidate
    BY <1>1, <1>11 DEF Tombstone, ProtectionPCs, Unprotecting
  <2>2. records' \in [Candidate -> Opt(Record)]
    BY <1>9, <1>11, <2>1 DEF Tombstone, TypeOK
  <2>3. lifted' \in [Candidate -> Nat]
    <3>1. lifted \in [Candidate -> Nat] /\ lifted[target[p]] + 1 \in Nat
      BY <2>1 DEF TypeOK
    <3> HIDE DEF IInv
    <3>2. QED
      BY <1>11, <2>1, <3>1 DEF Tombstone
  <2>4. QED
    BY <1>4, <1>11, <2>2, <2>3 DEF Tombstone, TypeOK
<1>12. CASE Abort(p)
  <2>1. litter' \subseteq Dirs
    BY <1>12 DEF Abort, Abandon, TemporaryIn, TypeOK, Dirs
  <2>2. QED
    BY <1>4, <1>12, <2>1 DEF Abort, TypeOK
<1>13. QED
  BY <1>3, <1>5, <1>6, <1>7, <1>8, <1>10, <1>11, <1>12 DEF Protecting, ProtectionNext

\* A step inside a command keeps the types as long as what it assigns is typed.
LEMMA StepTypes ==
  ASSUME TypeOK, NEW p \in Process, NEW here, NEW next \in PCs, Step(p, here, next),
         fingerprint' \in [Process -> Sizes],
         id' \in [Process -> Opt(Process)],
         plan' \in [Process -> Opt(Plan)],
         outcome' \in [Process -> Opt(Receipt)],
         cache' \in Opt(Cache), host' \in Opt(Process),
         UNCHANGED <<now, tool, plans, receipts, valid, since>>
  PROVE  TypeOK'
<1>1. pc' \in [Process -> PCs]
  BY DEF Step, Go, TypeOK
<1>2. QED
  BY <1>1 DEF Step, protection, call, TypeOK

\* So does the return of a command.
LEMMA EndTypes ==
  ASSUME TypeOK, NEW p \in Process, End(p),
         litter' \subseteq Dirs, plans' \subseteq Plan, receipts' \in Seq(Receipt),
         UNCHANGED <<records, generation, inodes, lifted, now, machine, host>>
  PROVE  TypeOK'
<1> USE DEF End, Return, Go, machine
<1>1. "idle" \in PCs /\ 0 \in Sizes
  BY CleanupAssumption DEF PCs, ProtectionPCs, Sizes
<1>2. /\ pc' \in [Process -> PCs] /\ target' \in [Process -> Opt(Candidate)]
      /\ file' \in [Process -> Nat] /\ read' \in [Process -> Nat]
      /\ overlapped' \in [Process -> BOOLEAN]
  BY <1>1 DEF TypeOK, Opt
<1>3. /\ fingerprint' \in [Process -> Sizes] /\ id' \in [Process -> Opt(Process)]
      /\ plan' \in [Process -> Opt(Plan)] /\ outcome' \in [Process -> Opt(Receipt)]
      /\ valid' \in [Process -> BOOLEAN] /\ since' \in [Process -> Opt(Nat)]
  BY <1>1 DEF TypeOK, Opt
<1>4. /\ records' \in [Candidate -> Opt(Record)]
      /\ generation' \in Nat /\ inodes' \in Nat /\ lifted' \in [Candidate -> Nat]
      /\ now' \in Nat /\ cache' \in Opt(Cache) /\ tool' \in Nat
      /\ host' \in Opt(Process)
  BY DEF TypeOK
<1>5. QED
  BY <1>2, <1>3, <1>4 DEF TypeOK

\* The steps of a plan are well typed.
LEMMA PlanTypes ==
  ASSUME IInv, NEW p \in Process, PlanNext(p)
  PROVE  TypeOK'
<1>1. TypeOK /\ LocalsOK(p)
  BY DEF IInv
<1>2. {"plan.scan", "plan.host", "plan.newhost", "plan.generation", "plan.bind",
       "plan.write"} \subseteq PCs
  BY DEF PCs
<1>3. CASE ScanRead(p)
  <2>1. pc' \in [Process -> PCs]
    BY <1>1, <1>2, <1>3 DEF ScanRead, Go, TypeOK
  <2>2. Running \in BOOLEAN
    BY DEF Running
  <2>3. overlapped' \in [Process -> BOOLEAN]
    BY <1>1, <1>3, <2>2, Zenon DEF ScanRead, TypeOK
  <2>4. QED
    BY <1>1, <1>3, <2>1, <2>3 DEF ScanRead, protection, call, machine, work, TypeOK
<1>4. CASE Scan(p)
  <2>1. cache.bytes \in Sizes
    BY <1>1, <1>4 DEF Scan, Safe, TypeOK, Opt, Cache
  <2>2. fingerprint' \in [Process -> Sizes]
    BY <1>1, <1>4, <2>1 DEF Scan, TypeOK
  <2>3. QED
    BY <1>1, <1>2, <1>4, <2>2, StepTypes DEF Scan, machine, TypeOK
<1>5. CASE PlanHost(p)
  <2>1. id' \in [Process -> Opt(Process)]
    BY <1>1, <1>5 DEF PlanHost, TypeOK, Opt
  <2>2. QED
    BY <1>1, <1>2, <1>5, <2>1, StepTypes DEF PlanHost, machine, TypeOK
<1>6. CASE WriteHost(p)
  BY <1>1, <1>2, <1>6, StepTypes DEF WriteHost, machine, work, TypeOK, Opt
<1>7. CASE PlanGeneration(p)
  <2>1. pc' \in [Process -> PCs] /\ read' \in [Process -> Nat]
    BY <1>1, <1>2, <1>7 DEF PlanGeneration, Go, TypeOK
  <2>2. QED
    BY <1>1, <1>7, <2>1 DEF PlanGeneration, protection, machine, work, TypeOK
<1>8. CASE PlanBind(p)
  <2>1. /\ cache.inode \in Nat /\ fingerprint[p] \in Sizes /\ tool \in Nat
        /\ id[p] \in Process /\ now + PlanTTL \in Nat /\ read[p] \in Nat
    BY <1>1, <1>8, CleanupAssumption DEF PlanBind, Step, LocalsOK, TypeOK, Opt, Cache
  <2>2. [inode |-> cache.inode, bytes |-> fingerprint[p], tool |-> tool,
         host |-> id[p], expires |-> now + PlanTTL, generation |-> read[p],
         lifted |-> 0, overlapped |-> FALSE] \in Plan
    BY <2>1 DEF Plan
  <2>3. plan' \in [Process -> Opt(Plan)]
    BY <1>1, <1>8, <2>2 DEF PlanBind, TypeOK, Opt
  <2>4. QED
    BY <1>1, <1>2, <1>8, <2>3, StepTypes DEF PlanBind, machine, TypeOK
<1>9. CASE WritePlan(p)
  <2>1. plan[p] \in Plan /\ lifted[GoCache] \in Nat /\ overlapped[p] \in BOOLEAN
    BY <1>1, <1>9, CleanupAssumption DEF WritePlan, LocalsOK, TypeOK
  <2>2. Marked(p) \in Plan
    BY <2>1, Zenon DEF Plan, Marked
  <2>3. QED
    BY <1>1, <1>9, <2>2, EndTypes DEF WritePlan, protection, TypeOK
<1>10. QED
  BY <1>3, <1>4, <1>5, <1>6, <1>7, <1>8, <1>9 DEF PlanNext

\* The steps of Apply are well typed.
LEMMA ApplyTypes ==
  ASSUME IInv, NEW p \in Process, ApplyNext(p)
  PROVE  TypeOK'
<1>1. TypeOK /\ LocalsOK(p) /\ plans \subseteq Plan
  BY DEF IInv, TypeOK
<1>2. {"apply.generation", "apply.protected", "apply.inspect", "apply.bind", "apply.run",
       "apply.measure", "apply.failed", "apply.receipt"} \subseteq PCs
  BY DEF PCs, Acting
<1>3. pc[p] \in Applying => plan[p] \in Plan
  BY <1>1 DEF LocalsOK
<1>4. ASSUME NEW here, NEW next \in PCs, Step(p, here, next),
             UNCHANGED <<now, machine, host, plans, receipts, work>>
      PROVE  TypeOK'
  BY <1>1, <1>4, StepTypes DEF machine, work, TypeOK
<1>5. ASSUME NEW here, NEW r \in Receipt, Decide(p, here, r)
      PROVE  TypeOK'
  <2>1. outcome' \in [Process -> Opt(Receipt)]
    BY <1>1, <1>5 DEF Decide, TypeOK, Opt
  <2>2. QED
    BY <1>1, <1>2, <1>5, <2>1, StepTypes DEF Decide, machine, TypeOK
<1>6. Measured \in Sizes /\ 0 \in Sizes
  BY <1>1, SizesOK
<1>7. ASSUME NEW l \in plans, Apply(p, l) PROVE TypeOK'
  <2>1. pc' \in [Process -> PCs] /\ plan' \in [Process -> Opt(Plan)]
    BY <1>1, <1>2, <1>7 DEF Apply, Go, TypeOK, Opt
  <2>2. Running \in BOOLEAN /\ Valid(l) \in BOOLEAN
    BY DEF Running, Valid
  <2>3. overlapped' \in [Process -> BOOLEAN] /\ valid' \in [Process -> BOOLEAN]
    BY <1>1, <1>7, <2>2, Zenon DEF Apply, TypeOK
  <2>4. since' \in [Process -> Opt(Nat)]
    <3>1. lifted[GoCache] \in Nat
      BY <1>1, CleanupAssumption DEF TypeOK
    <3>2. (IF Protected(GoCache) THEN lifted[GoCache] ELSE None) \in Opt(Nat)
      BY <3>1 DEF Opt
    <3>3. QED
      BY <1>1, <1>7, <3>2 DEF Apply, TypeOK
  <2>5. QED
    BY <1>1, <1>7, <2>1, <2>3, <2>4 DEF Apply, protection, call, machine, TypeOK
<1>8. CASE ApplyGeneration(p)
  BY <1>2, <1>4, <1>8 DEF ApplyGeneration
<1>9. CASE ApplyProtected(p)
  <2>1. pc[p] = "apply.protected"
    BY <1>9 DEF ApplyProtected, Step
  <2>2. Blocked(plan[p], "PROTECTED", 0) \in Receipt
    BY <1>1, <1>3, <1>6, <2>1, ReceiptsMade DEF Applying, Looking
  <2>3. QED
    BY <1>2, <1>4, <1>5, <1>9, <2>2 DEF ApplyProtected
<1>10. CASE ApplyInspect(p)
  <2>1. pc[p] = "apply.inspect"
    BY <1>10 DEF ApplyInspect, Step
  <2>2. \A b \in Sizes : Blocked(plan[p], "BLOCKED_CHANGED", b) \in Receipt
    BY <1>1, <1>3, <2>1, ReceiptsMade DEF Applying, Cleared
  <2>3. QED
    BY <1>2, <1>4, <1>5, <1>6, <1>10, <2>2 DEF ApplyInspect
<1>11. CASE ApplyBind(p)
  BY <1>2, <1>4, <1>11 DEF ApplyBind
<1>12. ASSUME NEW left \in Sizes, GoClean(p, left) PROVE TypeOK'
  <2>1. cache' \in Opt(Cache)
    BY <1>1, <1>12 DEF GoClean, TypeOK, Opt, Cache
  <2>2. \E next \in PCs : Step(p, "apply.run", next)
    BY <1>2, <1>12 DEF GoClean
  <2>3. QED
    BY <1>1, <1>12, <2>1, <2>2, StepTypes DEF GoClean, work, TypeOK
<1>13. CASE ApplyMeasure(p)
  <2>1. pc[p] = "apply.measure"
    BY <1>13 DEF ApplyMeasure
  <2>2. plan[p] \in Plan /\ plan[p].bytes \in Sizes
    BY <1>3, <2>1 DEF Applying, Cleared, Acting, Plan
  <2>3. /\ Cleaned(plan[p], Measured) \in Receipt
        /\ Blocked(plan[p], "BLOCKED_CHANGED", plan[p].bytes) \in Receipt
    BY <1>1, <1>6, <2>2, ReceiptsMade
  <2>4. QED
    BY <1>5, <1>13, <2>3 DEF ApplyMeasure
<1>14. CASE ApplyFailed(p)
  <2>1. Failed(plan[p], Measured) \in Receipt
    BY <1>1, <1>3, <1>6, <1>14, ReceiptsMade DEF ApplyFailed, Applying
  <2>2. QED
    BY <1>5, <1>14, <2>1 DEF ApplyFailed
<1>15. CASE WriteReceipt(p)
  <2>1. outcome[p] \in Receipt /\ receipts \in Seq(Receipt)
    BY <1>1, <1>15 DEF WriteReceipt, LocalsOK, TypeOK
  <2>2. receipts' \in Seq(Receipt)
    BY <1>15, <2>1 DEF WriteReceipt
  <2>3. QED
    BY <1>1, <1>15, <2>2, EndTypes DEF WriteReceipt, protection, TypeOK
<1>16. QED
  BY <1>7, <1>8, <1>9, <1>10, <1>11, <1>12, <1>13, <1>14, <1>15 DEF ApplyNext

\* Every step is well typed.
LEMMA NextTypes == IInv /\ [Next]_vars => TypeOK'
<1> SUFFICES ASSUME IInv, [Next]_vars PROVE TypeOK'
  OBVIOUS
<1>1. TypeOK
  BY DEF IInv
<1>2. ASSUME NEW p \in Process, Stop(p) PROVE TypeOK'
  <2>1. litter' \subseteq Dirs
    BY <1>1, <1>2 DEF Stop, Abandon, WritesInto, TypeOK, Dirs
  <2>2. QED
    BY <1>1, <1>2, <2>1, EndTypes DEF Stop, TypeOK
<1>3. CASE Machine
  BY <1>1, <1>3, MachineAssumption
     DEF Machine, protectionVars, protection, call, work, TypeOK
<1>4. CASE Tick
  BY <1>1, <1>4 DEF Tick, protectionVars, protection, call, machine, work, TypeOK
<1>5. CASE UNCHANGED vars
  BY <1>1, <1>5 DEF vars, protectionVars, protection, call, machine, work, TypeOK
<1>6. QED
  BY <1>2, <1>3, <1>4, <1>5, KeeperTypes, PlanTypes, ApplyTypes DEF Next

-----------------------------------------------------------------------------
(* Plans and applications.                                                 *)

\* A step that leaves the protections and the generation alone, and touches
\* one process p, which works for a plan or an Apply before and after it or is
\* idle, preserves the invariant when it does so for p and for the new plans.
LEMMA WorkerStep ==
  ASSUME IInv, TypeOK', NEW p \in Process,
         pc[p] \notin ProtectionPCs \ {"idle"}, pc'[p] \notin ProtectionPCs \ {"idle"},
         UNCHANGED <<records, generation, lifted>>,
         \A q \in Process \ {p} :
           /\ pc'[q] = pc[q] /\ target'[q] = target[q] /\ read'[q] = read[q]
           /\ overlapped'[q] = overlapped[q] /\ id'[q] = id[q] /\ plan'[q] = plan[q]
           /\ outcome'[q] = outcome[q] /\ valid'[q] = valid[q] /\ since'[q] = since[q],
         plans \subseteq plans',
         LocalsOK(p)', Alone(p)' => ~Running, BindingOK(p)', ChecksOK(p)', SinceOK(p)',
         \A l \in plans' \ plans : ~l.overlapped =>
           ~Running /\ generation = l.generation /\ lifted[GoCache] = l.lifted,
         ReceiptsReadable'
  PROVE  IInv'
<1>1. \A q \in Process : pc'[q] \in Unprotecting <=> pc[q] \in Unprotecting
  BY DEF ProtectionPCs, Unprotecting
<1>2. Running' <=> Running
  BY <1>1 DEF Running
<1>3. Protected(GoCache)' <=> Protected(GoCache)
  BY DEF Protected, InForce, Malformed
<1>4. ASSUME NEW q \in Process \ {p}
      PROVE  (LocalsOK(q) /\ BindingOK(q) /\ ChecksOK(q) /\ SinceOK(q))'
  <2>1. LocalsOK(q) /\ BindingOK(q) /\ ChecksOK(q) /\ SinceOK(q)
    BY DEF IInv
  <2>2. Alone(q)' <=> Alone(q)
    BY DEF Alone
  <2>3. LocalsOK(q)'
    BY <2>1 DEF LocalsOK, ValidReceipt
  <2>4. BindingOK(q)'
    BY <1>2, <2>1, <2>2 DEF BindingOK
  <2>5. ChecksOK(q)'
    BY <1>3, <2>1, <2>2 DEF ChecksOK
  <2>6. SinceOK(q)'
    BY <1>3, <2>1 DEF SinceOK
  <2>7. QED
    BY <2>3, <2>4, <2>5, <2>6
<1>5. ASSUME NEW l \in plans', ~l.overlapped
      PROVE  GenerationsOK(l)' /\ \A q \in Process : PendingOK(l, q)'
  <2>1. CASE l \in plans
    <3>1. GenerationsOK(l) /\ \A q \in Process : PendingOK(l, q)
      BY <1>5, <2>1 DEF IInv
    <3>2. GenerationsOK(l)'
      BY <3>1 DEF GenerationsOK
    <3>3. ASSUME NEW q \in Process PROVE PendingOK(l, q)'
      <4>1. CASE q = p
        BY <4>1 DEF PendingOK, ProtectionPCs, Unprotecting
      <4>2. CASE q # p
        BY <3>1, <4>2 DEF PendingOK
      <4>3. QED
        BY <4>1, <4>2
    <3>4. QED
      BY <3>2, <3>3
  <2>2. CASE l \notin plans
    <3>1. ~Running' /\ generation' = l.generation /\ lifted'[GoCache] = l.lifted
      BY <1>2, <1>5, <2>2
    <3>2. generation' \in Nat /\ lifted'[GoCache] \in Nat
      BY CleanupAssumption DEF TypeOK
    <3>3. GenerationsOK(l)'
      BY <3>1, <3>2 DEF GenerationsOK
    <3>4. \A q \in Process : PendingOK(l, q)'
      BY <3>1 DEF PendingOK, Running, Unprotecting
    <3>5. QED
      BY <3>3, <3>4
  <2>3. QED
    BY <2>1, <2>2
<1>6. QED
  BY <1>4, <1>5 DEF IInv

\* The return of such a command.
LEMMA EndStep ==
  ASSUME IInv, TypeOK', NEW p \in Process, pc[p] \notin ProtectionPCs \ {"idle"}, End(p),
         UNCHANGED <<records, generation, lifted>>,
         plans \subseteq plans',
         \A l \in plans' \ plans : ~l.overlapped =>
           ~Running /\ generation = l.generation /\ lifted[GoCache] = l.lifted,
         ReceiptsReadable'
  PROVE  IInv'
<1>1. pc'[p] = "idle" /\ since'[p] = None
  BY DEF End, Return, Go, IInv, TypeOK
<1>2. LocalsOK(p)' /\ BindingOK(p)' /\ ChecksOK(p)' /\ SinceOK(p)' /\ ~Alone(p)'
  BY <1>1 DEF LocalsOK, BindingOK, ChecksOK, SinceOK, Alone, ProtectionPCs, Applying,
              Looking, Cleared, Acting
<1>3. \A q \in Process \ {p} :
        /\ pc'[q] = pc[q] /\ target'[q] = target[q] /\ read'[q] = read[q]
        /\ overlapped'[q] = overlapped[q] /\ id'[q] = id[q] /\ plan'[q] = plan[q]
        /\ outcome'[q] = outcome[q] /\ valid'[q] = valid[q] /\ since'[q] = since[q]
  BY DEF End, Return, Go, IInv, TypeOK
<1>4. pc'[p] \notin ProtectionPCs \ {"idle"}
  BY <1>1
<1>5. QED
  BY <1>2, <1>3, <1>4, WorkerStep

\* A step in the middle of it.
LEMMA MiddleStep ==
  ASSUME IInv, TypeOK', NEW p \in Process, NEW here, NEW next, Step(p, here, next),
         here \notin ProtectionPCs, next \notin ProtectionPCs,
         \A q \in Process \ {p} :
           id'[q] = id[q] /\ plan'[q] = plan[q] /\ outcome'[q] = outcome[q],
         UNCHANGED <<plans, receipts, valid, since>>,
         LocalsOK(p)', BindingOK(p)', ChecksOK(p)', SinceOK(p)'
  PROVE  IInv'
<1>1. pc[p] = here /\ pc'[p] = next
  BY DEF Step, Go, IInv, TypeOK
<1>2. Alone(p)' => ~Running
  BY <1>1 DEF Step, Alone, BindingOK, IInv
<1>3. \A q \in Process \ {p} :
        /\ pc'[q] = pc[q] /\ target'[q] = target[q] /\ read'[q] = read[q]
        /\ overlapped'[q] = overlapped[q] /\ valid'[q] = valid[q] /\ since'[q] = since[q]
  BY DEF Step, Go, call, IInv, TypeOK
<1>4. ReceiptsReadable'
  BY DEF IInv, ReceiptsReadable, ValidReceipt
<1>5. UNCHANGED <<records, generation, lifted>>
  BY DEF Step, protection
<1>6. QED
  BY <1>1, <1>2, <1>3, <1>4, <1>5, WorkerStep

\* The steps that make a plan.
LEMMA PlanOK ==
  ASSUME IInv, NEW p \in Process, PlanNext(p)
  PROVE  IInv'
<1>1. TypeOK' /\ TypeOK
  BY PlanTypes DEF IInv
<1>2. LocalsOK(p) /\ BindingOK(p) /\ SinceOK(p) /\ ReceiptsReadable
  BY DEF IInv
<1> DEFINE Early == {"plan.scan", "plan.host", "plan.newhost", "plan.generation",
                     "plan.bind", "plan.write"}
<1>3. /\ Early \cap ProtectionPCs = {} /\ Early \cap Applying = {}
      /\ Early \cap Looking = {} /\ Early \cap Cleared = {}
  BY DEF ProtectionPCs, Unprotecting, Applying, Looking, Cleared, Acting
<1>4. ASSUME NEW s \in Early, pc'[p] = s PROVE ChecksOK(p)'
  BY <1>3, <1>4 DEF ChecksOK
<1>5. ASSUME NEW s \in Early, pc'[p] = s, UNCHANGED <<since, lifted>> PROVE SinceOK(p)'
  BY <1>2, <1>3, <1>5 DEF SinceOK
<1>6. CASE ScanRead(p)
  <2>1. /\ pc[p] = "idle" /\ pc'[p] = "plan.scan" /\ overlapped'[p] = Running
        /\ UNCHANGED <<protection, call, plans, receipts, work>>
    BY <1>1, <1>6 DEF ScanRead, Go, TypeOK
  <2>2. LocalsOK(p)' /\ BindingOK(p)' /\ (Alone(p)' => ~Running)
    <3>1. LocalsOK(p)'
      BY <1>3, <2>1 DEF LocalsOK
    <3>2. Alone(p)' => ~Running
      BY <2>1 DEF Alone
    <3>3. Running' <=> Running
      <4>1. \A q \in Process : pc'[q] \in Unprotecting <=> pc[q] \in Unprotecting
        BY <1>1, <1>6 DEF ScanRead, Go, TypeOK, Unprotecting
      <4>2. QED
        BY <4>1 DEF Running
    <3>4. QED
      BY <2>1, <3>1, <3>2, <3>3 DEF BindingOK
  <2>3. ChecksOK(p)' /\ SinceOK(p)'
    BY <1>4, <1>5, <2>1 DEF work, protection
  <2>4. \A q \in Process \ {p} :
          /\ pc'[q] = pc[q] /\ target'[q] = target[q] /\ read'[q] = read[q]
          /\ overlapped'[q] = overlapped[q] /\ id'[q] = id[q] /\ plan'[q] = plan[q]
          /\ outcome'[q] = outcome[q] /\ valid'[q] = valid[q] /\ since'[q] = since[q]
    BY <1>1, <1>6 DEF ScanRead, Go, call, work, TypeOK
  <2>5. ReceiptsReadable'
    BY <1>2, <2>1 DEF ReceiptsReadable, ValidReceipt
  <2>6. /\ pc[p] \notin ProtectionPCs \ {"idle"} /\ pc'[p] \notin ProtectionPCs \ {"idle"}
        /\ UNCHANGED <<records, generation, lifted>> /\ plans' = plans
    BY <1>3, <2>1 DEF protection
  <2>7. QED
    BY <1>1, <2>2, <2>3, <2>4, <2>5, <2>6, WorkerStep
<1>7. ASSUME NEW here \in Early, NEW next \in Early, Step(p, here, next),
             next \notin {"plan.bind", "plan.write"},
             LocalsOK(p)',
             \A q \in Process \ {p} : id'[q] = id[q],
             UNCHANGED <<plan, outcome, plans, receipts, valid, since>>
      PROVE  IInv'
  <2>1. pc[p] = here /\ pc'[p] = next /\ UNCHANGED <<generation, lifted>>
    BY <1>1, <1>7 DEF Step, Go, protection, TypeOK
  <2>2. Running' <=> Running
    <3>1. \A q \in Process : pc'[q] \in Unprotecting <=> pc[q] \in Unprotecting
      BY <1>1, <1>7 DEF Step, Go, TypeOK, Unprotecting
    <3>2. QED
      BY <3>1 DEF Running
  <2>3. BindingOK(p)'
    BY <1>2, <1>3, <1>7, <2>1, <2>2 DEF BindingOK, Alone, Step
  <2>4. ChecksOK(p)' /\ SinceOK(p)'
    BY <1>4, <1>5, <1>7, <2>1
  <2>5. QED
    BY <1>1, <1>3, <1>7, <2>3, <2>4, MiddleStep
<1>8. CASE Scan(p)
  <2>1. LocalsOK(p)'
    BY <1>1, <1>3, <1>8 DEF Scan, Step, Go, LocalsOK, TypeOK
  <2>2. QED
    BY <1>7, <1>8, <2>1 DEF Scan
<1>9. CASE PlanHost(p)
  <2>1. LocalsOK(p)'
    <3>1. id'[p] \in Process
      BY <1>1, <1>9 DEF PlanHost, TypeOK, Opt
    <3>2. pc'[p] \in {"plan.newhost", "plan.generation"}
      BY <1>1, <1>9 DEF PlanHost, Step, Go, TypeOK
    <3>3. QED
      BY <1>3, <3>1, <3>2 DEF LocalsOK
  <2>2. \A q \in Process \ {p} : id'[q] = id[q]
    BY <1>1, <1>9 DEF PlanHost, TypeOK
  <2>3. PICK next \in {"plan.newhost", "plan.generation"} : Step(p, "plan.host", next)
    BY <1>9 DEF PlanHost
  <2>4. QED
    BY <1>7, <1>9, <2>1, <2>2, <2>3 DEF PlanHost
<1>10. CASE WriteHost(p)
  <2>1. LocalsOK(p)'
    BY <1>1, <1>2, <1>3, <1>10 DEF WriteHost, work, Step, Go, LocalsOK, TypeOK
  <2>2. QED
    BY <1>7, <1>10, <2>1 DEF WriteHost, work
<1>11. CASE PlanGeneration(p)
  <2>1. /\ pc[p] = "plan.generation" /\ pc'[p] = "plan.bind" /\ read'[p] = generation
        /\ UNCHANGED <<generation, lifted, overlapped, plans, receipts, work>>
    BY <1>1, <1>11 DEF PlanGeneration, Go, protection, TypeOK
  <2>2. LocalsOK(p)'
    BY <1>2, <1>3, <2>1 DEF LocalsOK, work
  <2>3. Running' <=> Running
    <3>1. \A q \in Process : pc'[q] \in Unprotecting <=> pc[q] \in Unprotecting
      BY <1>1, <1>11 DEF PlanGeneration, Go, TypeOK, Unprotecting
    <3>2. QED
      BY <3>1 DEF Running
  <2>4. BindingOK(p)' /\ (Alone(p)' => ~Running)
    BY <1>2, <1>3, <2>1, <2>3 DEF BindingOK, Alone
  <2>5. ChecksOK(p)' /\ SinceOK(p)'
    BY <1>4, <1>5, <2>1 DEF work
  <2>6. \A q \in Process \ {p} :
          /\ pc'[q] = pc[q] /\ target'[q] = target[q] /\ read'[q] = read[q]
          /\ overlapped'[q] = overlapped[q] /\ id'[q] = id[q] /\ plan'[q] = plan[q]
          /\ outcome'[q] = outcome[q] /\ valid'[q] = valid[q] /\ since'[q] = since[q]
    BY <1>1, <1>11 DEF PlanGeneration, Go, work, TypeOK
  <2>7. ReceiptsReadable'
    BY <1>2, <2>1 DEF ReceiptsReadable, ValidReceipt
  <2>8. /\ pc[p] \notin ProtectionPCs \ {"idle"} /\ pc'[p] \notin ProtectionPCs \ {"idle"}
        /\ UNCHANGED <<records, generation, lifted>> /\ plans' = plans
    BY <1>3, <1>11, <2>1 DEF PlanGeneration, protection
  <2>9. QED
    BY <1>1, <2>2, <2>4, <2>5, <2>6, <2>7, <2>8, WorkerStep
<1>12. CASE PlanBind(p)
  <2> DEFINE l == [inode |-> cache.inode, bytes |-> fingerprint[p], tool |-> tool,
                   host |-> id[p], expires |-> now + PlanTTL, generation |-> read[p],
                   lifted |-> 0, overlapped |-> FALSE]
  <2>1. l.generation = read[p]
    OBVIOUS
  <2>2. plan' = [plan EXCEPT ![p] = l] /\ Step(p, "plan.bind", "plan.write")
    BY <1>12 DEF PlanBind
  <2>3. UNCHANGED <<id, outcome, plans, receipts, valid, since>>
    BY <1>12 DEF PlanBind
  <2> HIDE DEF l
  <2>4. /\ pc[p] = "plan.bind" /\ pc'[p] = "plan.write" /\ plan'[p] = l
        /\ UNCHANGED <<generation, lifted, overlapped>>
    BY <1>1, <2>2 DEF Step, Go, protection, TypeOK
  <2>5. LocalsOK(p)'
    <3>1. plan'[p] \in Opt(Plan)
      BY <1>1 DEF TypeOK
    <3>2. plan'[p] \in Plan
      <4>1. /\ cache.inode \in Nat /\ fingerprint[p] \in Sizes /\ tool \in Nat
            /\ id[p] \in Process /\ now + PlanTTL \in Nat /\ read[p] \in Nat
        BY <1>1, <1>2, <1>12, CleanupAssumption
           DEF PlanBind, Step, LocalsOK, TypeOK, Opt, Cache
      <4>2. QED
        BY <2>4, <4>1 DEF Plan, l
    <3>3. QED
      BY <1>3, <2>4, <3>2 DEF LocalsOK
  <2>6. Running' <=> Running
    <3>1. \A q \in Process : pc'[q] \in Unprotecting <=> pc[q] \in Unprotecting
      BY <1>1, <2>2 DEF Step, Go, TypeOK, Unprotecting
    <3>2. QED
      BY <3>1 DEF Running
  <2>7. BindingOK(p)'
    BY <1>2, <1>3, <2>1, <2>4, <2>6 DEF BindingOK, Alone
  <2>8. ChecksOK(p)' /\ SinceOK(p)'
    BY <1>4, <1>5, <2>3, <2>4
  <2>9. \A q \in Process \ {p} : plan'[q] = plan[q]
    BY <1>1, <2>2 DEF TypeOK
  <2>10. QED
    BY <1>1, <1>3, <2>2, <2>3, <2>5, <2>7, <2>8, <2>9, MiddleStep
<1>13. CASE WritePlan(p)
  <2>1. /\ pc[p] = "plan.write" /\ End(p) /\ plans' = plans \cup {Marked(p)}
        /\ UNCHANGED <<records, generation, lifted, receipts>>
    BY <1>13 DEF WritePlan, protection
  <2>2. plan[p] \in Plan
    BY <1>2, <2>1 DEF LocalsOK
  <2>3. /\ Marked(p).lifted = lifted[GoCache] /\ Marked(p).overlapped = overlapped[p]
        /\ Marked(p).generation = plan[p].generation
    BY <2>2, Zenon DEF Marked, Plan
  <2>4. ~Marked(p).overlapped => ~Running /\ generation = Marked(p).generation
    BY <1>2, <1>3, <2>1, <2>3 DEF BindingOK, Alone
  <2>5. ReceiptsReadable'
    BY <1>2, <2>1 DEF ReceiptsReadable, ValidReceipt
  <2>6. pc[p] \notin ProtectionPCs \ {"idle"}
    BY <1>3, <2>1
  <2>7. QED
    BY <1>1, <2>1, <2>3, <2>4, <2>5, <2>6, EndStep
<1>14. QED
  BY <1>6, <1>8, <1>9, <1>10, <1>11, <1>12, <1>13 DEF PlanNext

\* Apply begins: what it is to know is true of now.
LEMMA ApplyBegins ==
  ASSUME IInv, NEW p \in Process, NEW l \in plans, Apply(p, l)
  PROVE  IInv'
<1>1. TypeOK' /\ TypeOK
  BY ApplyTypes DEF IInv, ApplyNext
<1>2. /\ pc[p] = "idle" /\ pc'[p] = "apply.generation" /\ plan'[p] = l
      /\ overlapped'[p] = Running /\ valid'[p] = Valid(l)
      /\ since'[p] = (IF Protected(GoCache) THEN lifted[GoCache] ELSE None)
      /\ UNCHANGED <<records, generation, lifted, plans, receipts, read>>
  BY <1>1 DEF Apply, Go, protection, call, TypeOK
<1>3. \A q \in Process \ {p} :
        /\ pc'[q] = pc[q] /\ target'[q] = target[q] /\ read'[q] = read[q]
        /\ overlapped'[q] = overlapped[q] /\ id'[q] = id[q] /\ plan'[q] = plan[q]
        /\ outcome'[q] = outcome[q] /\ valid'[q] = valid[q] /\ since'[q] = since[q]
  BY <1>1 DEF Apply, Go, call, TypeOK
<1>4. Running' <=> Running
  <2>1. \A q \in Process : pc'[q] \in Unprotecting <=> pc[q] \in Unprotecting
    BY <1>2, <1>3 DEF Unprotecting
  <2>2. QED
    BY <2>1 DEF Running
<1>5. Protected(GoCache)' <=> Protected(GoCache)
  BY <1>2 DEF Protected, InForce, Malformed
<1>6. pc'[p] \notin ProtectionPCs /\ pc'[p] \notin Cleared /\ pc[p] \notin ProtectionPCs \ {"idle"}
  BY <1>2 DEF ProtectionPCs, Unprotecting, Cleared, Acting
<1>7. LocalsOK(p)'
  BY <1>2, <1>6 DEF LocalsOK
<1>8. BindingOK(p)' /\ (Alone(p)' => ~Running)
  BY <1>2, <1>4 DEF BindingOK, Alone
<1>9. ChecksOK(p)'
  BY <1>2, <1>5, <1>6 DEF ChecksOK, Valid, Looking
<1>10. SinceOK(p)'
  <2>1. lifted[GoCache] \in Nat
    BY <1>1, CleanupAssumption DEF TypeOK
  <2>2. QED
    BY <1>2, <1>5, <1>6, <2>1 DEF SinceOK
<1>11. ReceiptsReadable'
  BY <1>2 DEF IInv, ReceiptsReadable, ValidReceipt
<1>12. QED
  BY <1>1, <1>2, <1>3, <1>6, <1>7, <1>8, <1>9, <1>10, <1>11, WorkerStep

\* The steps of Apply.  A matching generation proves that no protection has
\* been lifted since the plan was made, and the look at the protection that
\* there is none.
LEMMA ApplyOK ==
  ASSUME IInv, NEW p \in Process, ApplyNext(p)
  PROVE  IInv'
<1>1. TypeOK' /\ TypeOK
  BY ApplyTypes DEF IInv
<1>2. /\ LocalsOK(p) /\ BindingOK(p) /\ ChecksOK(p) /\ SinceOK(p) /\ ReceiptsReadable
      /\ \A l \in plans : ~l.overlapped => GenerationsOK(l)
  BY DEF IInv
<1>3. /\ Applying \cap ProtectionPCs = {} /\ Looking \subseteq Applying
      /\ Cleared \subseteq Applying /\ Looking \cap Cleared = {}
      /\ Applying \cap {"plan.newhost", "plan.generation", "plan.bind", "plan.write"} = {}
  BY DEF ProtectionPCs, Unprotecting, Applying, Looking, Cleared, Acting
<1>4. /\ "apply.generation" \in Looking /\ "apply.protected" \in Looking
      /\ {"apply.inspect", "apply.bind", "apply.run", "apply.measure"} \subseteq Cleared
      /\ {"apply.failed", "apply.receipt"} \subseteq Applying \ (Looking \cup Cleared)
  BY DEF Applying, Looking, Cleared, Acting
<1>5. ASSUME NEW here \in Applying, NEW next \in Applying, Step(p, here, next),
             \A q \in Process \ {p} : outcome'[q] = outcome[q],
             UNCHANGED <<id, plan, plans, receipts, valid, since>>,
             next = "apply.receipt" =>
               outcome'[p] \in Receipt /\ ValidReceipt(outcome'[p]),
             ChecksOK(p)', SinceOK(p)'
      PROVE  IInv'
  <2>1. pc[p] = here /\ pc'[p] = next
    BY <1>1, <1>5 DEF Step, Go, TypeOK
  <2>2. LocalsOK(p)'
    BY <1>2, <1>3, <1>5, <2>1 DEF LocalsOK, ValidReceipt
  <2>3. Running' <=> Running
    <3>1. \A q \in Process : pc'[q] \in Unprotecting <=> pc[q] \in Unprotecting
      BY <1>1, <1>3, <1>5 DEF Step, Go, TypeOK, Unprotecting, ProtectionPCs
    <3>2. QED
      BY <3>1 DEF Running
  <2>4. BindingOK(p)'
    BY <1>2, <1>3, <1>5, <2>1, <2>3 DEF BindingOK, Alone, Step
  <2>5. here \notin ProtectionPCs /\ next \notin ProtectionPCs
    BY <1>3
  <2>6. QED
    BY <1>1, <1>5, <2>2, <2>4, <2>5, MiddleStep
<1>6. ASSUME NEW here \in Applying, NEW next \in Applying \ Looking, Step(p, here, next),
             next \in Cleared => here \in Cleared,
             UNCHANGED <<plan, valid, since>>
      PROVE  ChecksOK(p)' /\ SinceOK(p)'
  <2>1. /\ pc[p] = here /\ pc'[p] = next
        /\ UNCHANGED <<lifted, overlapped>>
    BY <1>1, <1>6 DEF Step, Go, protection, TypeOK
  <2>2. pc[p] \notin ProtectionPCs
    BY <1>3, <2>1
  <2>3. next # "apply.protected"
    BY <1>4
  <2>4. ChecksOK(p)'
    BY <1>2, <1>6, <2>1, <2>2, <2>3 DEF ChecksOK, Alone
  <2>5. SinceOK(p)'
    BY <1>2, <1>6, <2>1 DEF SinceOK
  <2>6. QED
    BY <2>4, <2>5
<1>7. ASSUME NEW here \in Applying, NEW r, Decide(p, here, r),
             r \in Receipt, ValidReceipt(r)
      PROVE  IInv'
  <2>1. /\ Step(p, here, "apply.receipt")
        /\ outcome' = [outcome EXCEPT ![p] = r]
        /\ UNCHANGED <<id, plan, plans, receipts, valid, since>>
    BY <1>7 DEF Decide
  <2>2. outcome'[p] = r /\ \A q \in Process \ {p} : outcome'[q] = outcome[q]
    BY <1>1, <2>1 DEF TypeOK
  <2>3. ChecksOK(p)' /\ SinceOK(p)'
    BY <1>4, <1>6, <2>1
  <2>4. QED
    BY <1>4, <1>5, <1>7, <2>1, <2>2, <2>3
<1>8. ASSUME NEW here \in Cleared, NEW next \in (Cleared \cup {"apply.failed"}),
             Step(p, here, next),
             UNCHANGED <<id, plan, outcome, plans, receipts, valid, since>>
      PROVE  IInv'
  <2>1. /\ here \in Applying /\ next \in Applying \ Looking /\ next # "apply.receipt"
    BY <1>3, <1>4, <1>8 DEF Cleared, Acting
  <2>2. ChecksOK(p)' /\ SinceOK(p)'
    BY <1>6, <1>8, <2>1
  <2>3. QED
    BY <1>5, <1>8, <2>1, <2>2
<1>9. \A s \in Applying : pc[p] = s => plan[p] \in plans /\ plan[p] \in Plan
  BY <1>1, <1>2 DEF LocalsOK, TypeOK
<1>10. Measured \in Sizes /\ 0 \in Sizes
  BY <1>1, SizesOK
<1>11. lifted[GoCache] \in Nat /\ generation \in Nat
  BY <1>1, CleanupAssumption DEF TypeOK
<1>12. CASE ApplyGeneration(p)
  <2>1. /\ Step(p, "apply.generation", "apply.protected")
        /\ generation = plan[p].generation
        /\ UNCHANGED <<id, plan, outcome, plans, receipts, valid, since>>
    BY <1>12 DEF ApplyGeneration, work
  <2>2. /\ pc[p] = "apply.generation" /\ pc'[p] = "apply.protected"
        /\ UNCHANGED <<records, lifted, overlapped>>
    BY <1>1, <2>1 DEF Step, Go, protection, TypeOK
  <2>3. Protected(GoCache)' <=> Protected(GoCache)
    BY <2>2 DEF Protected, InForce, Malformed
  <2>4. plan[p] \in plans /\ plan[p].lifted \in Nat
    BY <1>3, <1>4, <1>9, <2>2 DEF Plan
  <2>5. ~plan[p].overlapped => lifted[GoCache] = plan[p].lifted
    BY <1>2, <1>11, <2>1, <2>4 DEF GenerationsOK
  <2>6. "apply.protected" \notin Cleared /\ "apply.generation" \notin ProtectionPCs
    BY <1>3, <1>4
  <2>7. ChecksOK(p)'
    BY <1>2, <1>4, <2>1, <2>2, <2>3, <2>5, <2>6 DEF ChecksOK, Alone
  <2>8. SinceOK(p)'
    BY <1>2, <1>4, <2>1, <2>2, <2>3, <2>6 DEF SinceOK
  <2>9. QED
    BY <1>3, <1>4, <1>5, <2>1, <2>7, <2>8
<1>13. CASE ApplyProtected(p)
  <2>1. pc[p] = "apply.protected"
    BY <1>13 DEF ApplyProtected, Step
  <2>2. plan[p] \in Plan
    BY <1>3, <1>4, <1>9, <2>1
  <2>3. CASE Decide(p, "apply.protected", Blocked(plan[p], "PROTECTED", 0))
    BY <1>1, <1>3, <1>4, <1>7, <1>10, <2>2, <2>3, ReceiptsMade
  <2>4. CASE /\ Readable /\ ~InForce(GoCache)
             /\ Step(p, "apply.protected", "apply.inspect")
             /\ UNCHANGED <<now, machine, host, plans, receipts, work>>
    <3>1. ~Protected(GoCache)
      BY <2>4, CleanupAssumption DEF Readable, Protected
    <3>2. /\ pc'[p] = "apply.inspect"
          /\ UNCHANGED <<lifted, overlapped, id, plan, outcome, valid, since>>
      BY <1>1, <2>4 DEF Step, Go, protection, work, TypeOK
    <3>3. /\ "apply.inspect" \in Cleared /\ "apply.inspect" \notin Looking
          /\ "apply.protected" \notin ProtectionPCs
      BY <1>3, <1>4
    <3>4. Alone(p)' => Alone(p)
      BY <2>1, <3>2, <3>3 DEF Alone
    <3>5. ChecksOK(p)'
      <4>1. Alone(p) => valid[p] \/ plan[p].overlapped
        BY <1>2, <1>4, <2>1, <3>1 DEF ChecksOK
      <4>2. pc'[p] # "apply.protected"
        BY <3>2
      <4>3. QED
        BY <3>2, <3>3, <3>4, <4>1, <4>2 DEF ChecksOK
    <3>6. SinceOK(p)'
      <4>1. since[p] # None => since[p] \in Nat
        BY <1>1 DEF TypeOK, Opt
      <4>2. since[p] # None => lifted[GoCache] > since[p]
        BY <1>2, <1>4, <1>11, <2>1, <3>1, <4>1 DEF SinceOK
      <4>3. QED
        BY <1>11, <3>2, <3>3, <4>1, <4>2 DEF SinceOK
    <3>7. QED
      BY <1>3, <1>4, <1>5, <2>4, <3>2, <3>5, <3>6
  <2>5. QED
    BY <1>13, <2>3, <2>4 DEF ApplyProtected
<1>14. CASE ApplyInspect(p)
  <2>1. pc[p] = "apply.inspect"
    BY <1>14 DEF ApplyInspect, Step
  <2>2. plan[p] \in Plan
    BY <1>3, <1>4, <1>9, <2>1
  <2>3. \A b \in Sizes : /\ Blocked(plan[p], "BLOCKED_CHANGED", b) \in Receipt
                        /\ ValidReceipt(Blocked(plan[p], "BLOCKED_CHANGED", b))
    BY <1>1, <2>2, ReceiptsMade
  <2>4. QED
    BY <1>3, <1>4, <1>7, <1>8, <1>10, <1>14, <2>3 DEF ApplyInspect, work
<1>15. CASE ApplyBind(p)
  BY <1>4, <1>8, <1>15 DEF ApplyBind, work
<1>16. ASSUME NEW left \in Sizes, GoClean(p, left) PROVE IInv'
  <2>1. PICK next \in {"apply.measure", "apply.failed"} : Step(p, "apply.run", next)
    BY <1>16 DEF GoClean
  <2>2. QED
    BY <1>4, <1>8, <1>16, <2>1 DEF GoClean, work
<1>17. CASE ApplyMeasure(p)
  <2>1. pc[p] = "apply.measure"
    BY <1>17 DEF ApplyMeasure
  <2>2. plan[p] \in Plan /\ plan[p].bytes \in Sizes
    BY <1>3, <1>4, <1>9, <2>1 DEF Plan
  <2>3. /\ Cleaned(plan[p], Measured) \in Receipt
        /\ ValidReceipt(Cleaned(plan[p], Measured))
        /\ Blocked(plan[p], "BLOCKED_CHANGED", plan[p].bytes) \in Receipt
        /\ ValidReceipt(Blocked(plan[p], "BLOCKED_CHANGED", plan[p].bytes))
    BY <1>1, <1>10, <2>2, ReceiptsMade
  <2>4. QED
    BY <1>3, <1>4, <1>7, <1>17, <2>3 DEF ApplyMeasure
<1>18. CASE ApplyFailed(p)
  <2>1. pc[p] = "apply.failed" /\ Decide(p, "apply.failed", Failed(plan[p], Measured))
    BY <1>18 DEF ApplyFailed
  <2>2. /\ Failed(plan[p], Measured) \in Receipt
        /\ ValidReceipt(Failed(plan[p], Measured))
    BY <1>1, <1>4, <1>9, <1>10, <2>1, ReceiptsMade
  <2>3. QED
    BY <1>4, <1>7, <2>1, <2>2
<1>19. CASE WriteReceipt(p)
  <2>1. /\ pc[p] = "apply.receipt" /\ End(p) /\ receipts' = Append(receipts, outcome[p])
        /\ UNCHANGED <<records, generation, lifted, plans>>
    BY <1>19 DEF WriteReceipt, protection
  <2>2. /\ receipts \in Seq(Receipt) /\ outcome[p] \in Receipt /\ ValidReceipt(outcome[p])
    BY <1>1, <1>2, <2>1 DEF LocalsOK, TypeOK
  <2>3. ReceiptsReadable'
    <3>1. ASSUME NEW i \in DOMAIN receipts' PROVE ValidReceipt(receipts'[i])
      <4>1. /\ DOMAIN receipts' = 1 .. Len(receipts) + 1 /\ Len(receipts) \in Nat
            /\ i = Len(receipts) + 1 => receipts'[i] = outcome[p]
            /\ i # Len(receipts) + 1 => i \in 1 .. Len(receipts) /\ receipts'[i] = receipts[i]
        BY <2>1, <2>2
      <4>2. i # Len(receipts) + 1 => ValidReceipt(receipts[i])
        BY <1>2, <2>2, <4>1 DEF ReceiptsReadable
      <4>3. QED
        BY <2>2, <4>1, <4>2
    <3>2. QED
      BY <3>1 DEF ReceiptsReadable, ValidReceipt
  <2>4. pc[p] \notin ProtectionPCs \ {"idle"}
    BY <1>3, <1>4, <2>1
  <2>5. QED
    BY <1>1, <2>1, <2>3, <2>4, EndStep
<1>20. QED
  BY <1>12, <1>13, <1>14, <1>15, <1>16, <1>17, <1>18, <1>19, ApplyBegins DEF ApplyNext

-----------------------------------------------------------------------------
(* Protections.                                                            *)

\* A step of Protect or Unprotect preserves the invariant when only Unprotect
\* changes the generation or lifts a protection, which then goes away for no
\* other reason, when the beginning of Unprotect is noticed by the commands
\* that run, and when no plan gets its generation back.
LEMMA KeeperStep ==
  ASSUME IInv, TypeOK', NEW p \in Process,
         pc[p] \in ProtectionPCs, pc'[p] \in ProtectionPCs,
         UNCHANGED <<plans, receipts, work>>,
         \A q \in Process \ {p} : pc'[q] = pc[q] /\ target'[q] = target[q] /\ read'[q] = read[q],
         \A q \in Process \ {p} : ~overlapped'[q] => ~overlapped[q],
         LocalsOK(p)',
         pc'[p] \in Unprotecting =>
           \/ pc[p] \in Unprotecting
           \/ \A q \in Process : pc[q] # "idle" => overlapped'[q],
         pc[p] \in Unprotecting \/ UNCHANGED <<generation, lifted>>,
         lifted'[GoCache] >= lifted[GoCache],
         Protected(GoCache) /\ lifted'[GoCache] = lifted[GoCache] => Protected(GoCache)',
         \A l \in plans : ~l.overlapped => GenerationsOK(l)',
         \A l \in plans : ~l.overlapped => PendingOK(l, p)',
         \A l \in plans :
           ~l.overlapped /\ generation > l.generation => generation' > l.generation
  PROVE  IInv'
<1>1. /\ ProtectionPCs \cap Looking = {} /\ ProtectionPCs \cap Cleared = {}
      /\ Unprotecting \subseteq ProtectionPCs /\ "idle" \in ProtectionPCs
      /\ "apply.protected" \notin ProtectionPCs
  BY DEF ProtectionPCs, Unprotecting, Looking, Cleared, Acting
<1>2. since \in [Process -> Opt(Nat)] /\ lifted[GoCache] \in Nat /\ lifted'[GoCache] \in Nat
  BY CleanupAssumption DEF IInv, TypeOK
<1>3. UNCHANGED <<id, plan, outcome, valid, since>>
  BY DEF work
<1>4. SinceOK(p)' /\ ChecksOK(p)' /\ BindingOK(p)'
  <2>1. SinceOK(p)
    BY DEF IInv
  <2>2. SinceOK(p)'
    BY <1>1, <1>2, <1>3, <2>1 DEF SinceOK, Opt
  <2>3. ~Alone(p)'
    BY DEF Alone
  <2>4. QED
    BY <2>2, <2>3 DEF ChecksOK, BindingOK
<1>5. ASSUME NEW q \in Process \ {p}
      PROVE  (LocalsOK(q) /\ BindingOK(q) /\ ChecksOK(q) /\ SinceOK(q))'
  <2>1. LocalsOK(q) /\ BindingOK(q) /\ ChecksOK(q) /\ SinceOK(q) /\ pc'[q] = pc[q]
    BY DEF IInv
  <2>2. LocalsOK(q)'
    BY <1>3, <2>1 DEF LocalsOK, ValidReceipt
  <2>3. ASSUME Alone(q)'
        PROVE  Alone(q) /\ ~Running /\ ~Running' /\ UNCHANGED <<generation, lifted>>
    <3>1. Alone(q)
      BY <2>1, <2>3 DEF Alone
    <3>2. ~Running
      BY <2>1, <3>1 DEF BindingOK
    <3>3. pc[p] \notin Unprotecting
      BY <3>2 DEF Running
    <3>4. pc[q] # "idle" /\ ~overlapped'[q]
      BY <1>1, <2>3, <3>1 DEF Alone
    <3>5. pc'[p] \notin Unprotecting
      BY <3>3, <3>4
    <3>6. ~Running'
      BY <3>2, <3>5 DEF Running
    <3>7. QED
      BY <3>1, <3>2, <3>3, <3>6
  <2>4. BindingOK(q)'
    BY <1>3, <2>1, <2>3 DEF BindingOK
  <2>5. ChecksOK(q)'
    <3>1. SUFFICES ASSUME Alone(q)' PROVE ChecksOK(q)'
      BY DEF ChecksOK
    <3>2. Alone(q) /\ UNCHANGED lifted
      BY <2>3, <3>1
    <3>3. Protected(GoCache) => Protected(GoCache)'
      BY <3>2
    <3>4. QED
      BY <1>3, <2>1, <3>2, <3>3 DEF ChecksOK
  <2>6. SinceOK(q)'
    <3>1. SUFFICES ASSUME since[q] # None PROVE SinceOK(q)'
      BY <1>3 DEF SinceOK
    <3>2. since[q] \in Nat /\ since'[q] = since[q] /\ since[q] =< lifted[GoCache]
      BY <1>2, <1>3, <2>1, <3>1 DEF SinceOK, Opt
    <3>3. pc[q] \in Looking /\ lifted'[GoCache] = since[q] => Protected(GoCache)'
      BY <1>2, <2>1, <3>1, <3>2 DEF SinceOK
    <3>4. pc[q] \in Cleared => lifted'[GoCache] > since[q]
      BY <1>2, <2>1, <3>1, <3>2 DEF SinceOK
    <3>5. QED
      BY <1>2, <2>1, <3>2, <3>3, <3>4 DEF SinceOK
  <2>7. QED
    BY <2>2, <2>4, <2>5, <2>6
<1>6. ASSUME NEW l \in plans', ~l.overlapped
      PROVE  GenerationsOK(l)' /\ \A q \in Process : PendingOK(l, q)'
  <2>1. l \in plans
    OBVIOUS
  <2>2. ASSUME NEW q \in Process \ {p} PROVE PendingOK(l, q)'
    <3>1. PendingOK(l, q)
      BY <1>6, <2>1 DEF IInv
    <3>2. QED
      BY <1>6, <2>1, <3>1 DEF PendingOK
  <2>3. QED
    BY <1>6, <2>1, <2>2
<1>7. ReceiptsReadable'
  BY DEF IInv, ReceiptsReadable, ValidReceipt
<1>8. QED
  BY <1>4, <1>5, <1>6, <1>7 DEF IInv

\* A step that changes neither the generation nor what has been lifted.
LEMMA CalmStep ==
  ASSUME IInv, TypeOK', NEW p \in Process, Protecting(p),
         pc[p] \in ProtectionPCs, pc'[p] \in ProtectionPCs,
         \A q \in Process \ {p} : pc'[q] = pc[q] /\ target'[q] = target[q] /\ read'[q] = read[q],
         \A q \in Process \ {p} : ~overlapped'[q] => ~overlapped[q],
         LocalsOK(p)',
         pc'[p] \in Unprotecting =>
           \/ pc[p] \in Unprotecting
           \/ \A q \in Process : pc[q] # "idle" => overlapped'[q],
         UNCHANGED <<generation, lifted>>,
         Protected(GoCache) => Protected(GoCache)',
         \A l \in plans : ~l.overlapped => PendingOK(l, p)'
  PROVE  IInv'
<1>1. UNCHANGED <<plans, receipts, work>>
  BY DEF Protecting
<1>2. lifted'[GoCache] >= lifted[GoCache]
  BY CleanupAssumption DEF IInv, TypeOK
<1>3. \A l \in plans : ~l.overlapped => GenerationsOK(l)'
  BY DEF IInv, GenerationsOK
<1>4. QED
  BY <1>1, <1>2, <1>3, KeeperStep

\* The steps of Protect and Unprotect.
LEMMA KeeperOK ==
  ASSUME IInv, NEW p \in Process, Protecting(p)
  PROVE  IInv'
<1>1. TypeOK /\ TypeOK'
  BY KeeperTypes DEF IInv
<1>2. /\ LocalsOK(p)
      /\ \A l \in plans : ~l.overlapped => GenerationsOK(l) /\ PendingOK(l, p)
      /\ \A l \in plans : l.generation \in Nat /\ l.lifted \in Nat
  BY DEF IInv, TypeOK, Plan
<1>3. /\ lifted \in [Candidate -> Nat] /\ lifted[GoCache] \in Nat
      /\ generation \in Nat /\ GoCache \in Candidate /\ read[p] \in Nat
  BY <1>1, CleanupAssumption DEF TypeOK
<1>4. /\ ProtectionPCs \cap Applying = {}
      /\ \A s \in ProtectionPCs :
           s \notin {"plan.newhost", "plan.generation", "plan.bind", "plan.write", "apply.receipt"}
      /\ "idle" \in ProtectionPCs /\ "protect.write" \in ProtectionPCs
      /\ Unprotecting \subseteq ProtectionPCs
      /\ "protect.write" \notin Unprotecting /\ "idle" \notin Unprotecting
      /\ \A s \in {"unprotect.open", "unprotect.generation", "unprotect.advance",
                   "unprotect.truncate", "unprotect.tombstone"} : s \in Unprotecting
  BY DEF ProtectionPCs, Unprotecting, Applying, Looking, Cleared, Acting
<1>5. ASSUME NEW s \in ProtectionPCs, pc'[p] = s, s # "idle" => target'[p] \in Candidate
      PROVE  LocalsOK(p)'
  BY <1>4, <1>5 DEF LocalsOK
<1>6. ASSUME Return(p)
      PROVE  /\ pc'[p] = "idle" /\ LocalsOK(p)'
             /\ \A q \in Process \ {p} :
                  /\ pc'[q] = pc[q] /\ target'[q] = target[q] /\ read'[q] = read[q]
                  /\ overlapped'[q] = overlapped[q]
             /\ \A l \in plans : PendingOK(l, p)'
  <2>1. /\ pc'[p] = "idle"
        /\ \A q \in Process \ {p} :
             /\ pc'[q] = pc[q] /\ target'[q] = target[q] /\ read'[q] = read[q]
             /\ overlapped'[q] = overlapped[q]
    BY <1>1, <1>6 DEF Return, Go, TypeOK
  <2>2. LocalsOK(p)'
    BY <1>4, <1>5, <2>1
  <2>3. \A l \in plans : PendingOK(l, p)'
    BY <2>1 DEF PendingOK
  <2>4. QED
    BY <2>1, <2>2, <2>3
<1>7. ASSUME Return(p), pc[p] \in ProtectionPCs, UNCHANGED <<generation, lifted>>,
             Protected(GoCache) => Protected(GoCache)'
      PROVE  IInv'
  BY <1>1, <1>4, <1>6, <1>7, CalmStep
<1>8. ASSUME UNCHANGED records PROVE Protected(GoCache)' <=> Protected(GoCache)
  BY <1>8 DEF Protected, InForce, Malformed
<1>9. ASSUME NEW here \in Unprotecting, NEW next \in Unprotecting,
             pc[p] = here, Go(p, next), UNCHANGED <<target, overlapped>>
      PROVE  /\ pc'[p] = next /\ LocalsOK(p)' /\ target[p] \in Candidate
             /\ \A q \in Process \ {p} :
                  /\ pc'[q] = pc[q] /\ target'[q] = target[q]
                  /\ overlapped'[q] = overlapped[q]
  <2>1. /\ pc'[p] = next
        /\ \A q \in Process \ {p} : pc'[q] = pc[q]
    BY <1>1, <1>9 DEF Go, TypeOK
  <2>2. target[p] \in Candidate
    BY <1>2, <1>4, <1>9 DEF LocalsOK
  <2>3. LocalsOK(p)'
    BY <1>4, <1>5, <1>9, <2>1, <2>2
  <2>4. QED
    BY <1>9, <2>1, <2>2, <2>3
<1>10. ASSUME NEW c \in Candidate, Protect(p, c) PROVE IInv'
  <2>1. /\ pc[p] = "idle" /\ pc'[p] = "protect.write" /\ target'[p] = c
        /\ UNCHANGED <<records, generation, lifted, overlapped>>
    BY <1>1, <1>10 DEF Protect, Go, protection, TypeOK
  <2>2. \A q \in Process \ {p} : pc'[q] = pc[q] /\ target'[q] = target[q] /\ read'[q] = read[q]
    BY <1>1, <1>10 DEF Protect, Go, TypeOK
  <2>3. \A l \in plans : PendingOK(l, p)'
    BY <2>1 DEF PendingOK
  <2>4. QED
    BY <1>1, <1>4, <1>5, <1>8, <2>1, <2>2, <2>3, CalmStep
<1>11. ASSUME NEW c \in Candidate, Unprotect(p, c) PROVE IInv'
  <2>1. /\ pc[p] = "idle" /\ pc'[p] = "unprotect.open" /\ target'[p] = c
        /\ UNCHANGED <<records, generation, lifted>>
    BY <1>1, <1>11 DEF Unprotect, Go, protection, TypeOK
  <2>2. \A q \in Process \ {p} : pc'[q] = pc[q] /\ target'[q] = target[q] /\ read'[q] = read[q]
    BY <1>1, <1>11 DEF Unprotect, Go, TypeOK
  <2>3. \A l \in plans : PendingOK(l, p)'
    BY <2>1 DEF PendingOK
  <2>4. \A q \in Process : overlapped'[q] <=> (overlapped[q] \/ pc[q] # "idle")
    BY <1>11, Zenon DEF Unprotect
  <2>5. /\ \A q \in Process \ {p} : ~overlapped'[q] => ~overlapped[q]
        /\ \A q \in Process : pc[q] # "idle" => overlapped'[q]
    BY <2>4, Zenon
  <2>6. QED
    BY <1>1, <1>4, <1>5, <1>8, <2>1, <2>2, <2>3, <2>5, CalmStep
<1>12. CASE WriteProtection(p)
  <2>1. /\ pc[p] = "protect.write" /\ Return(p) /\ UNCHANGED <<generation, lifted>>
        /\ inodes \in Nat /\ records \in [Candidate -> Opt(Record)]
    BY <1>1, <1>12 DEF WriteProtection, TypeOK
  <2>2. target[p] \in Candidate
    BY <1>2, <1>4, <2>1 DEF LocalsOK
  <2>3. PICK r \in Record : r = [inode |-> inodes + 1, state |-> "protected"]
    <3>1. inodes + 1 \in Nat
      BY <2>1
    <3>2. [inode |-> inodes + 1, state |-> "protected"] \in Record
      BY <3>1 DEF Record
    <3>3. QED
      BY <3>2, Zenon
  <2>4. records' = [records EXCEPT ![target[p]] = r] /\ r.state = "protected"
    BY <1>12, <2>3 DEF WriteProtection
  <2>5. records'[target[p]] = r /\ r # None
    BY <2>1, <2>2, <2>4, NoneIsNothing
  <2>6. CASE target[p] = GoCache
    <3>1. Protected(GoCache)'
      BY <2>4, <2>5, <2>6 DEF Protected, InForce
    <3>2. QED
      BY <1>4, <1>7, <2>1, <3>1
  <2>7. CASE target[p] # GoCache
    <3>1. records'[GoCache] = records[GoCache]
      BY <1>3, <2>1, <2>4, <2>7
    <3>2. Protected(GoCache) => Protected(GoCache)'
      BY <3>1 DEF Protected, InForce, Malformed
    <3>3. QED
      BY <1>4, <1>7, <2>1, <3>2
  <2>8. QED
    BY <2>6, <2>7
<1>13. CASE OpenRecord(p)
  <2>1. pc[p] = "unprotect.open" /\ UNCHANGED <<records, generation, lifted>>
    BY <1>13 DEF OpenRecord, protection
  <2>2. CASE Return(p)
    BY <1>4, <1>7, <1>8, <2>1, <2>2
  <2>3. CASE Go(p, "unprotect.generation") /\ UNCHANGED <<target, read, overlapped>>
    <3>1. \A l \in plans : PendingOK(l, p)'
      BY <1>4, <1>9, <2>1, <2>3 DEF PendingOK
    <3>2. QED
      BY <1>1, <1>4, <1>8, <1>9, <2>1, <2>3, <3>1, CalmStep
  <2>4. QED
    BY <1>13, <2>2, <2>3 DEF OpenRecord
<1>14. CASE ReadGeneration(p)
  <2>1. pc[p] = "unprotect.generation" /\ UNCHANGED <<records, generation, lifted>>
    BY <1>14 DEF ReadGeneration, protection
  <2>2. CASE Return(p)
    BY <1>4, <1>7, <1>8, <2>1, <2>2
  <2>3. CASE /\ Go(p, "unprotect.advance") /\ UNCHANGED <<target, overlapped>>
             /\ read' = [read EXCEPT ![p] = generation]
    <3>1. read'[p] = generation /\ \A q \in Process \ {p} : read'[q] = read[q]
      BY <1>1, <2>3 DEF TypeOK
    <3>2. pc'[p] = "unprotect.advance"
      BY <1>4, <1>9, <2>1, <2>3
    <3>3. \A l \in plans : ~l.overlapped => PendingOK(l, p)'
      BY <1>2, <2>1, <3>1, <3>2 DEF PendingOK, GenerationsOK
    <3>4. QED
      BY <1>1, <1>4, <1>8, <1>9, <2>1, <2>3, <3>1, <3>3, CalmStep
  <2>4. QED
    BY <1>14, <2>2, <2>3 DEF ReadGeneration
<1>15. CASE Advance(p)
  <2>1. /\ pc[p] = "unprotect.advance" /\ generation' = read[p] + 1
        /\ Go(p, "unprotect.truncate")
        /\ UNCHANGED <<records, lifted, target, read, overlapped, plans, receipts, work>>
    BY <1>15 DEF Advance, call, Protecting
  <2>2. pc'[p] = "unprotect.truncate"
    BY <1>4, <1>9, <2>1
  <2>3. \A l \in plans : ~l.overlapped => generation' > l.generation
    BY <1>2, <1>3, <2>1 DEF PendingOK
  <2>4. \A l \in plans : ~l.overlapped => GenerationsOK(l)'
    BY <1>2, <1>3, <2>1, <2>3 DEF GenerationsOK
  <2>5. \A l \in plans : ~l.overlapped => PendingOK(l, p)'
    BY <2>2, <2>3 DEF PendingOK
  <2>6. /\ lifted'[GoCache] >= lifted[GoCache]
        /\ Protected(GoCache) => Protected(GoCache)'
    BY <1>3, <1>8, <2>1
  <2>7. \A l \in plans :
          ~l.overlapped /\ generation > l.generation => generation' > l.generation
    BY <2>3
  <2>8. /\ LocalsOK(p)' /\ pc'[p] \in ProtectionPCs /\ pc[p] \in Unprotecting
        /\ pc[p] \in ProtectionPCs
        /\ \A q \in Process \ {p} :
             /\ pc'[q] = pc[q] /\ target'[q] = target[q] /\ read'[q] = read[q]
             /\ overlapped'[q] = overlapped[q]
    BY <1>4, <1>9, <2>1, <2>2
  <2>9. QED
    BY <1>1, <2>1, <2>3, <2>4, <2>5, <2>6, <2>7, <2>8, KeeperStep
<1>16. CASE Truncate(p)
  <2>1. /\ pc[p] = "unprotect.truncate" /\ Go(p, "unprotect.tombstone")
        /\ UNCHANGED <<generation, lifted, target, read, overlapped>>
        /\ records \in [Candidate -> Opt(Record)]
        /\ records' = IF Current(p) THEN Rewritten(p, "malformed") ELSE records
    BY <1>1, <1>16 DEF Truncate, call, TypeOK
  <2>2. pc'[p] = "unprotect.tombstone" /\ target[p] \in Candidate
    BY <1>4, <1>9, <2>1
  <2>3. Protected(GoCache) => Protected(GoCache)'
    <3>1. CASE Current(p) /\ target[p] = GoCache
      <4>1. PICK r \in Record : r = [inode |-> file[p], state |-> "malformed"]
        BY <1>1 DEF Record, TypeOK
      <4>2. records' = [records EXCEPT ![GoCache] = r] /\ r.state = "malformed"
        BY <2>1, <3>1, <4>1 DEF Rewritten
      <4>3. records'[GoCache] = r /\ r # None
        BY <1>3, <2>1, <4>2, NoneIsNothing
      <4>4. QED
        BY <4>2, <4>3 DEF Protected, Malformed
    <3>2. CASE ~(Current(p) /\ target[p] = GoCache)
      <4>1. records'[GoCache] = records[GoCache]
        BY <1>3, <2>1, <2>2, <3>2 DEF Rewritten
      <4>2. QED
        BY <4>1 DEF Protected, InForce, Malformed
    <3>3. QED
      BY <3>1, <3>2
  <2>4. \A l \in plans : ~l.overlapped => PendingOK(l, p)'
    BY <1>2, <2>1, <2>2 DEF PendingOK
  <2>5. QED
    BY <1>1, <1>4, <1>9, <2>1, <2>3, <2>4, CalmStep
<1>17. CASE Tombstone(p)
  <2>1. /\ pc[p] = "unprotect.tombstone" /\ Return(p)
        /\ UNCHANGED <<generation, plans, receipts, work>>
    BY <1>17 DEF Tombstone, Protecting
  <2>2. target[p] \in Candidate
    BY <1>2, <1>4, <2>1 DEF LocalsOK
  <2>3. CASE UNCHANGED <<records, lifted>>
    BY <1>4, <1>7, <1>8, <2>1, <2>3
  <2>4. CASE /\ records' = Rewritten(p, "unprotected")
             /\ lifted' = [lifted EXCEPT ![target[p]] = @ + 1]
    <3>1. lifted'[GoCache] = IF target[p] = GoCache THEN lifted[GoCache] + 1 ELSE lifted[GoCache]
      BY <1>3, <2>2, <2>4
    <3>2. lifted'[GoCache] >= lifted[GoCache]
      BY <1>3, <3>1
    <3>3. Protected(GoCache) /\ lifted'[GoCache] = lifted[GoCache] => Protected(GoCache)'
      <4>1. SUFFICES ASSUME target[p] # GoCache
                     PROVE  Protected(GoCache) => Protected(GoCache)'
        BY <1>3, <3>1
      <4>2. records'[GoCache] = records[GoCache]
        BY <1>1, <1>3, <2>2, <2>4, <4>1 DEF Rewritten, TypeOK
      <4>3. QED
        BY <4>2 DEF Protected, InForce, Malformed
    <3>4. \A l \in plans : ~l.overlapped => GenerationsOK(l)'
      <4>1. ASSUME NEW l \in plans, ~l.overlapped PROVE GenerationsOK(l)'
        <5>1. /\ generation > l.generation /\ lifted[GoCache] >= l.lifted
              /\ l.generation \in Nat /\ l.lifted \in Nat
          BY <1>2, <2>1, <4>1 DEF PendingOK, GenerationsOK
        <5>2. lifted'[GoCache] >= l.lifted
          BY <1>3, <3>1, <5>1
        <5>3. QED
          BY <1>3, <2>1, <5>1, <5>2 DEF GenerationsOK
      <4>2. QED
        BY <4>1
    <3>5. QED
      BY <1>1, <1>4, <1>6, <2>1, <3>2, <3>3, <3>4, KeeperStep
  <2>5. QED
    BY <1>17, <2>3, <2>4 DEF Tombstone
<1>18. CASE Abort(p)
  <2>1. /\ pc[p] \in ProtectionPCs /\ Return(p)
        /\ UNCHANGED <<records, generation, lifted>>
    BY <1>18 DEF Abort
  <2>2. QED
    BY <1>7, <1>8, <2>1
<1>19. QED
  BY <1>10, <1>11, <1>12, <1>13, <1>14, <1>15, <1>16, <1>17, <1>18
     DEF Protecting, ProtectionNext

-----------------------------------------------------------------------------
(* Theorems.                                                               *)

\* Steps that change nothing the invariant is about.
LEMMA MachineOK ==
  ASSUME IInv, Machine \/ Tick \/ UNCHANGED vars
  PROVE  IInv'
<1>1. TypeOK'
  <2>1. [Next]_vars
    BY DEF Next
  <2>2. QED
    BY <2>1, NextTypes
<1>2. UNCHANGED <<protectionVars, plans, receipts, work>>
  BY DEF Machine, Tick, vars
<1>3. ReceiptsReadable'
  BY <1>2 DEF IInv, ReceiptsReadable, ValidReceipt
<1>4. \A p \in Process : (LocalsOK(p) /\ BindingOK(p) /\ ChecksOK(p) /\ SinceOK(p))'
  BY <1>2 DEF IInv, protectionVars, protection, call, work, LocalsOK, BindingOK, ChecksOK,
              SinceOK, Alone, Running, Protected, InForce, Malformed, ValidReceipt
<1>5. \A l \in plans' : ~l.overlapped =>
        GenerationsOK(l)' /\ \A p \in Process : PendingOK(l, p)'
  BY <1>2 DEF IInv, protectionVars, protection, call, GenerationsOK, PendingOK
<1>6. QED
  BY <1>1, <1>3, <1>4, <1>5 DEF IInv

\* Every step preserves the invariant.
LEMMA NextOK == IInv /\ [Next]_vars => IInv'
<1> SUFFICES ASSUME IInv, [Next]_vars PROVE IInv'
  OBVIOUS
<1>1. ASSUME NEW p \in Process, Stop(p) PROVE IInv'
  <2>1. TypeOK'
    BY <1>1, NextTypes DEF Next
  <2>2. /\ pc[p] \notin ProtectionPCs \ {"idle"} /\ End(p)
        /\ UNCHANGED <<records, generation, lifted, plans, receipts>>
    BY <1>1 DEF Stop
  <2>3. ReceiptsReadable'
    BY <2>2 DEF IInv, ReceiptsReadable, ValidReceipt
  <2>4. QED
    BY <2>1, <2>2, <2>3, EndStep
<1>2. QED
  BY <1>1, KeeperOK, PlanOK, ApplyOK, MachineOK DEF Next

\* The inductive invariant holds in every state.
THEOREM Invariant == Spec => []IInv
BY InitOK, NextOK, PTL DEF Spec

\* Every state is well typed: no command uses a record, a plan or an identity
\* that is not there.
THEOREM TypeCorrect == Spec => []TypeOK
<1>1. IInv => TypeOK
  BY DEF IInv
<1>2. QED
  BY <1>1, Invariant, PTL

\* Every receipt that Apply writes is one that History accepts.
THEOREM ReceiptsCanBeRead == Spec => []ReceiptsReadable
<1>1. IInv => ReceiptsReadable
  BY DEF IInv
<1>2. QED
  BY <1>1, Invariant, PTL

\* A cache that was protected when Apply began is not cleaned unless an
\* Unprotect has lifted the protection meanwhile, for any number of commands
\* and any crashes.
THEOREM ProtectedCacheIsSpared == Spec => []ProtectedIsSpared
<1>1. IInv => ProtectedIsSpared
  BY DEF IInv, SinceOK, ProtectedIsSpared, Cleared
<1>2. QED
  BY <1>1, Invariant, PTL

\* No cleaner runs for a plan that was protected after it was made, unless the
\* Unprotect ran at the same time as the command that made the plan or as the
\* one that applies it: the two steps of the generation and the tombstone are
\* safe against crashes and against lost updates.
THEOREM NoPlanIsRevived == Spec => []CleansOnlyOnValidPlan
<1>1. ASSUME IInv, NEW p \in Process, pc[p] \in Acting
      PROVE  valid[p] \/ overlapped[p] \/ plan[p].overlapped
  <2>1. ChecksOK(p) /\ pc[p] \in Cleared /\ pc[p] \notin ProtectionPCs
    BY <1>1 DEF IInv, Cleared, Acting, ProtectionPCs, Unprotecting
  <2>2. QED
    BY <2>1 DEF ChecksOK, Alone
<1>2. IInv => CleansOnlyOnValidPlan
  BY <1>1 DEF CleansOnlyOnValidPlan
<1>3. QED
  BY <1>2, Invariant, PTL
=============================================================================
