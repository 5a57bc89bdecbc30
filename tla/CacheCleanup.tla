---------------------------- MODULE CacheCleanup ----------------------------
(***************************************************************************)
(* Cleaning the Go build cache (src/internal/cleanup): a plan is made from *)
(* a scan, bound to the cache, the Go tool, the host and the protection    *)
(* generation, and applied later by the owner-native `go clean -cache'.    *)
(*                                                                         *)
(* The Go cache is the only candidate whose decision can be SAFE, so that  *)
(* a plan has one row; the other candidates share the protection records   *)
(* and the generation with it.  A fingerprint of the cache is its size, a  *)
(* binding of the Go tool is the number of the tool, and a plan is its own *)
(* identifier.  The target registry of a plan is written before the plan   *)
(* and is of no use without it; the two are one record here.               *)
(***************************************************************************)
EXTENDS CleanupProtection, Sequences

CONSTANTS
  GoCache,                    \* the candidate that can be cleaned
  PlanTTL,
  Workers,                    \* the processes that plan and apply in this instance
  Caches, Tools,              \* what can be at the cache root, and the Go tools
  MaxBytes, MaxTime, MaxPlans, MaxReceipts   \* bounds of the instance

ASSUME CleanupAssumption ==
  /\ GoCache \in Candidate /\ None \notin Process \cup Nat
  /\ PlanTTL \in Nat \ {0} /\ Workers \subseteq Process
  /\ MaxBytes \in Nat /\ MaxTime \in Nat
  /\ MaxPlans \in Nat /\ MaxReceipts \in Nat

Opt(S) == S \cup {None}
Sizes  == 0 .. MaxBytes
Cache  == [inode: Nat, bytes: Sizes, sound: BOOLEAN]

ASSUME MachineAssumption == Caches \subseteq Opt(Cache) /\ Tools \subseteq Nat

VARIABLES
  now,
  cache,           \* the directory: None, or its inode, size and soundness
  tool,            \* the Go tool that is installed, 0 if there is none
  host,            \* the host identity, named for the process that made it
  plans, receipts,
  fingerprint,     \* per process: what Scan saw
  id,              \* per process: the host identity it read
  plan, outcome,   \* per process: its plan, the receipt it is to write
  valid, since     \* history, per process, of the moment its Apply began:
                   \* whether the plan was valid; how often the protection had
                   \* been lifted, or None if the cache was not protected

machine  == <<cache, tool>>
work     == <<fingerprint, id, plan, outcome, valid, since>>
vars == <<protectionVars, now, machine, host, plans, receipts, work>>

Plan   == [inode: Nat, bytes: Sizes, tool: Nat, host: Process, expires: Nat,
           generation: Nat,
           lifted: Nat, overlapped: BOOLEAN]   \* the last two are history
Receipt == [decision: {"SAFE", "PROTECTED", "BLOCKED_CHANGED"},
            result: {"cleaned", "owner_action_failed", "blocked_changed"},
            method: {"none", "owner-native-go-clean-cache"},
            before: Sizes, after: Sizes, removed: Nat, plan: Plan]

Acting == {"apply.bind", "apply.run", "apply.measure"}
PCs == ProtectionPCs \cup Acting \cup
       {"plan.scan", "plan.host", "plan.newhost",
        "plan.generation", "plan.bind", "plan.write",
        "apply.generation", "apply.protected", "apply.inspect",
        "apply.failed", "apply.receipt"}

\* The command returns.
End(p) ==
  /\ Return(p)
  /\ fingerprint' = [fingerprint EXCEPT ![p] = 0]
  /\ id' = [id EXCEPT ![p] = None]
  /\ plan' = [plan EXCEPT ![p] = None]
  /\ outcome' = [outcome EXCEPT ![p] = None]
  /\ valid' = [valid EXCEPT ![p] = FALSE]
  /\ since' = [since EXCEPT ![p] = None]

\* A step of a command that is going on.
Step(p, here, next) ==
  pc[p] = here /\ Go(p, next) /\ UNCHANGED <<protection, call, overlapped>>

-----------------------------------------------------------------------------
(* Inspection.                                                             *)

\* inspectCache, ownership and Bind: the decision is SAFE.
Safe == cache # None /\ cache.sound /\ tool # 0

Measured == IF cache # None /\ cache.sound THEN cache.bytes ELSE 0

\* What Apply compares anew: identity, fingerprint and tool.
AsPlanned(l) ==
  /\ Safe
  /\ cache.inode = l.inode /\ cache.bytes = l.bytes /\ tool = l.tool

\* A plan whose candidate is unprotected and has been ever since.
Valid(l) == ~Protected(GoCache) /\ lifted[GoCache] = l.lifted

-----------------------------------------------------------------------------
(* Receipts.                                                               *)

Blocked(l, decision, before) ==
  [decision |-> decision, result |-> "blocked_changed", method |-> "none",
   before |-> before, after |-> 0, removed |-> 0, plan |-> l]

Removed(before, after) == IF before > after THEN before - after ELSE 0

Cleaned(l, after) ==
  [decision |-> "SAFE", result |-> "cleaned",
   method |-> "owner-native-go-clean-cache", before |-> l.bytes,
   after |-> after, removed |-> Removed(l.bytes, after), plan |-> l]

\* Mutant of Failed: what a failed run has removed is counted.
FailedCounted(l, after) ==
  [decision |-> "SAFE", result |-> "owner_action_failed",
   method |-> "owner-native-go-clean-cache", before |-> l.bytes,
   after |-> after, removed |-> Removed(l.bytes, after), plan |-> l]

\* A failed run counts for nothing, even if it removed a part.
Failed(l, after) ==
  [decision |-> "SAFE", result |-> "owner_action_failed",
   method |-> "owner-native-go-clean-cache", before |-> l.bytes,
   after |-> after, removed |-> 0, plan |-> l]

\* validReceipt, without which History refuses all receipts.
ValidReceipt(r) ==
  \/ /\ r.result = "cleaned" /\ r.method = "owner-native-go-clean-cache"
     /\ r.decision = "SAFE" /\ r.removed = Removed(r.before, r.after)
  \/ /\ r.result = "owner_action_failed"
     /\ r.method = "owner-native-go-clean-cache"
     /\ r.decision = "SAFE" /\ r.removed = 0
  \/ /\ r.result = "blocked_changed" /\ r.method = "none"
     /\ r.decision \in {"BLOCKED_CHANGED", "PROTECTED"} /\ r.removed = 0

-----------------------------------------------------------------------------
(* Scan and Plan.                                                          *)

\* validateState refuses any file that does not belong.
StateOK == litter = {}

ScanRead(p) ==
  /\ Readable /\ ~InForce(GoCache)
  /\ pc[p] = "idle" /\ p \in Workers /\ Cardinality(plans) < MaxPlans
  /\ Go(p, "plan.scan")
  /\ overlapped' = [overlapped EXCEPT ![p] = Running]
  /\ UNCHANGED <<protection, call, now, machine, host, plans, receipts, work>>

\* After the scan `clean' waits for the user's selection.
Scan(p) ==
  /\ Safe
  /\ Step(p, "plan.scan", "plan.host")
  /\ fingerprint' = [fingerprint EXCEPT ![p] = cache.bytes]
  /\ UNCHANGED <<now, machine, host, plans, receipts, id, plan, outcome, valid,
                 since>>

\* Mutant of PlanHost: the identity is the one read, even if there was none.
PlanHostRead(p) ==
  /\ StateOK
  /\ Step(p, "plan.host", IF host = None THEN "plan.newhost" ELSE "plan.generation")
  /\ id' = [id EXCEPT ![p] = host]
  /\ UNCHANGED <<now, machine, host, plans, receipts, fingerprint, plan,
                 outcome, valid, since>>

\* The first plan makes the host identity.
PlanHost(p) ==
  /\ StateOK
  /\ Step(p, "plan.host", IF host = None THEN "plan.newhost" ELSE "plan.generation")
  /\ id' = [id EXCEPT ![p] = IF host = None THEN p ELSE host]
  /\ UNCHANGED <<now, machine, host, plans, receipts, fingerprint, plan,
                 outcome, valid, since>>

WriteHost(p) ==
  /\ Step(p, "plan.newhost", "plan.generation")
  /\ host' = p
  /\ UNCHANGED <<now, machine, plans, receipts, work>>

PlanGeneration(p) ==
  /\ pc[p] = "plan.generation" /\ Go(p, "plan.bind")
  /\ read' = [read EXCEPT ![p] = generation]
  /\ UNCHANGED <<protection, target, file, overlapped, now, machine, host,
                 plans, receipts, work>>

\* The identity of the cache and the tool are those of now, the fingerprint is
\* the one of the scan.
PlanBind(p) ==
  /\ cache # None /\ tool # 0
  /\ Step(p, "plan.bind", "plan.write")
  /\ plan' = [plan EXCEPT ![p] =
       [inode |-> cache.inode, bytes |-> fingerprint[p], tool |-> tool,
        host |-> id[p], expires |-> now + PlanTTL, generation |-> read[p],
        lifted |-> 0, overlapped |-> FALSE]]
  /\ UNCHANGED <<now, machine, host, plans, receipts, fingerprint, id, outcome,
                 valid, since>>

\* The plan, with what the properties are to know of its making.
Marked(p) ==
  [plan[p] EXCEPT !.lifted = lifted[GoCache], !.overlapped = overlapped[p]]

WritePlan(p) ==
  /\ pc[p] = "plan.write" /\ Cardinality(plans) < MaxPlans
  /\ plans' = plans \cup {Marked(p)}
  /\ End(p)
  /\ UNCHANGED <<protection, now, machine, host, receipts>>

-----------------------------------------------------------------------------
(* Apply.  The protection is looked at after the generation, both once.    *)

Apply(p, l) ==
  /\ pc[p] = "idle" /\ p \in Workers /\ Len(receipts) < MaxReceipts
  /\ StateOK
  /\ now < l.expires /\ host = l.host
  /\ Go(p, "apply.generation")
  /\ plan' = [plan EXCEPT ![p] = l]
  /\ valid' = [valid EXCEPT ![p] = Valid(l)]
  /\ since' = [since EXCEPT ![p] = IF Protected(GoCache) THEN lifted[GoCache] ELSE None]
  /\ overlapped' = [overlapped EXCEPT ![p] = Running]
  /\ UNCHANGED <<protection, call, now, machine, host, plans, receipts,
                 fingerprint, id, outcome>>

\* Mutant of ApplyGeneration: the generation is not compared.
ApplyGenerationUnchecked(p) ==
  /\ Step(p, "apply.generation", "apply.protected")
  /\ UNCHANGED <<now, machine, host, plans, receipts, work>>

ApplyGeneration(p) ==
  /\ Step(p, "apply.generation", "apply.protected")
  /\ generation = plan[p].generation
  /\ UNCHANGED <<now, machine, host, plans, receipts, work>>

\* The row is decided: its receipt is next.
Decide(p, here, r) ==
  /\ Step(p, here, "apply.receipt")
  /\ outcome' = [outcome EXCEPT ![p] = r]
  /\ UNCHANGED <<now, machine, host, plans, receipts, fingerprint, id, plan,
                 valid, since>>

ApplyProtected(p) ==
  \/ /\ Readable /\ ~InForce(GoCache)
     /\ Step(p, "apply.protected", "apply.inspect")
     /\ UNCHANGED <<now, machine, host, plans, receipts, work>>
  \/ /\ pc[p] = "apply.protected"
     /\ Readable /\ InForce(GoCache)
     /\ Decide(p, "apply.protected", Blocked(plan[p], "PROTECTED", 0))

ApplyInspect(p) ==
  \/ /\ Step(p, "apply.inspect", "apply.bind")
     /\ AsPlanned(plan[p])
     /\ UNCHANGED <<now, machine, host, plans, receipts, work>>
  \/ /\ pc[p] = "apply.inspect" /\ ~AsPlanned(plan[p])
     /\ Decide(p, "apply.inspect",
          Blocked(plan[p], "BLOCKED_CHANGED",
                  IF cache # None /\ cache.inode = plan[p].inode THEN Measured ELSE 0))

\* Clean binds the tool once more.
ApplyBind(p) ==
  /\ pc[p] = "apply.bind"
  /\ Step(p, "apply.bind",
          IF cache # None /\ tool = plan[p].tool THEN "apply.run" ELSE "apply.failed")
  /\ UNCHANGED <<now, machine, host, plans, receipts, work>>

\* go clean -cache empties what is at the path by now, or fails halfway.
GoClean(p, left) ==
  /\ pc[p] = "apply.run"
  /\ left =< Measured
  /\ cache' = IF cache = None THEN None ELSE [cache EXCEPT !.bytes = left]
  /\ \/ left = 0 /\ Step(p, "apply.run", "apply.measure")
     \/ Step(p, "apply.run", "apply.failed")
  /\ UNCHANGED <<tool, now, host, plans, receipts, work>>

\* The inspection afterwards: a success that cannot be measured any more is
\* recorded as blocked.
ApplyMeasure(p) ==
  \/ /\ pc[p] = "apply.measure"
     /\ cache = None \/ Safe
     /\ Decide(p, "apply.measure", Cleaned(plan[p], Measured))
  \/ /\ pc[p] = "apply.measure"
     /\ cache # None /\ ~Safe
     /\ Decide(p, "apply.measure", Blocked(plan[p], "BLOCKED_CHANGED", plan[p].bytes))

ApplyFailed(p) ==
  pc[p] = "apply.failed" /\ Decide(p, "apply.failed", Failed(plan[p], Measured))

WriteReceipt(p) ==
  /\ pc[p] = "apply.receipt" /\ Len(receipts) < MaxReceipts
  /\ receipts' = Append(receipts, outcome[p])
  /\ End(p)
  /\ UNCHANGED <<protection, now, machine, host, plans>>

WritesInto ==
  [s \in {"plan.newhost", "plan.write", "apply.receipt"} |->
    CASE s = "plan.newhost"  -> {"root"}
      [] s = "plan.write"    -> {"targets", "plans"}
      [] s = "apply.receipt" -> {"receipts"}]

\* An error or the death of the process between any two steps.
Stop(p) ==
  /\ pc[p] \notin ProtectionPCs
  /\ End(p)
  /\ \/ UNCHANGED litter
     \/ pc[p] \in DOMAIN WritesInto /\ \E d \in WritesInto[pc[p]] : Abandon(d)
  /\ UNCHANGED <<records, generation, inodes, lifted, now, machine, host, plans,
                 receipts>>

-----------------------------------------------------------------------------
(* The machine.                                                            *)

\* Time matters from the first plan on.
Tick ==
  /\ plans # {} /\ now < MaxTime /\ now' = now + 1
  /\ UNCHANGED <<protectionVars, machine, host, plans, receipts, work>>

\* Builds fill the cache, it is removed and made again, the tool is replaced.
Machine ==
  /\ cache' \in Caches /\ tool' \in Tools
  /\ UNCHANGED <<protectionVars, now, host, plans, receipts, work>>

Init ==
  /\ ProtectionInit
  /\ now = 0 /\ host = None /\ plans = {} /\ receipts = <<>>
  /\ cache \in Caches /\ tool \in Tools
  /\ fingerprint = [p \in Process |-> 0]
  /\ id = [p \in Process |-> None]
  /\ plan = [p \in Process |-> None]
  /\ outcome = [p \in Process |-> None]
  /\ valid = [p \in Process |-> FALSE]
  /\ since = [p \in Process |-> None]

PlanNext(p) ==
  \/ ScanRead(p) \/ Scan(p) \/ PlanHost(p) \/ WriteHost(p)
  \/ PlanGeneration(p) \/ PlanBind(p) \/ WritePlan(p)

ApplyNext(p) ==
  \/ \E l \in plans : Apply(p, l)
  \/ ApplyGeneration(p) \/ ApplyProtected(p) \/ ApplyInspect(p) \/ ApplyBind(p)
  \/ \E left \in Sizes : GoClean(p, left)
  \/ ApplyMeasure(p) \/ ApplyFailed(p) \/ WriteReceipt(p)

Protecting(p) ==
  /\ ProtectionNext(p)
  /\ UNCHANGED <<now, machine, host, plans, receipts, work>>

Next ==
  \/ \E p \in Process : Protecting(p) \/ PlanNext(p) \/ ApplyNext(p) \/ Stop(p)
  \/ Machine \/ Tick

Spec == Init /\ [][Next]_vars

-----------------------------------------------------------------------------
(* Properties.                                                             *)

TypeOK ==
  /\ records \in [Candidate -> Opt(Record)]
  /\ generation \in Nat /\ litter \subseteq Dirs /\ inodes \in Nat
  /\ pc \in [Process -> PCs]
  /\ target \in [Process -> Opt(Candidate)]
  /\ file \in [Process -> Nat] /\ read \in [Process -> Nat]
  /\ lifted \in [Candidate -> Nat]
  /\ overlapped \in [Process -> BOOLEAN]
  /\ now \in Nat
  /\ cache \in Opt(Cache) /\ tool \in Nat
  /\ host \in Opt(Process)
  /\ plans \subseteq Plan /\ receipts \in Seq(Receipt)
  /\ fingerprint \in [Process -> Sizes]
  /\ id \in [Process -> Opt(Process)]
  /\ plan \in [Process -> Opt(Plan)]
  /\ outcome \in [Process -> Opt(Receipt)]
  /\ valid \in [Process -> BOOLEAN]
  /\ since \in [Process -> Opt(Nat)]

\* Every receipt that is written is one that validReceipt accepts: one that it
\* did not would make History fail for all of them.
ReceiptsReadable == \A i \in DOMAIN receipts : ValidReceipt(receipts[i])

\* If the cache is protected when Apply begins, the cleaner runs only if an
\* Unprotect has lifted that protection meanwhile: neither the moment in which
\* the record is malformed nor an Unprotect that dies opens a way.
ProtectedIsSpared ==
  \A p \in Process :
    pc[p] \in Acting /\ since[p] # None => lifted[GoCache] > since[p]

\* Unprotect does not revive a plan, whatever dies between the generation and
\* the tombstone and however the generation is lost by concurrent updates:
\* the cleaner runs only for a plan that was unprotected from its making to
\* the beginning of Apply, unless an Unprotect ran at the same time as the
\* command that made the plan or as the one that applies it.
CleansOnlyOnValidPlan ==
  \A p \in Process :
    pc[p] \in Acting => valid[p] \/ overlapped[p] \/ plan[p].overlapped

\* docs/DEVELOPER-CLEANUP-CONTRACT.md:74 "pre-existing plans cannot become valid
\* again after unprotect", and an Apply that begins before the Unprotect ends
\* finds the cache protected: the same without the exception.
CleansNeverAfterUnprotect ==
  \A p \in Process : pc[p] \in Acting => valid[p] \/ plan[p].overlapped

-----------------------------------------------------------------------------
(* The inductive invariant.                                                *)

Looking  == {"apply.generation", "apply.protected"}
Cleared  == {"apply.inspect"} \cup Acting
Applying == Looking \cup Cleared \cup {"apply.failed", "apply.receipt"}

\* The locals of a command are there when it uses them.
LocalsOK(p) ==
  /\ pc[p] \in ProtectionPCs \ {"idle"} => target[p] \in Candidate
  /\ pc[p] \in {"plan.newhost", "plan.generation", "plan.bind"} => id[p] \in Process
  /\ pc[p] = "plan.write" => plan[p] \in Plan
  /\ pc[p] \in Applying => plan[p] \in plans
  /\ pc[p] = "apply.receipt" => outcome[p] \in Receipt /\ ValidReceipt(outcome[p])

\* A command of Workers that is not marked runs while no Unprotect does, so
\* that the generation that Plan read is still the present one.
Alone(p) == pc[p] \notin ProtectionPCs /\ ~overlapped[p]

BindingOK(p) ==
  Alone(p) =>
    /\ ~Running
    /\ pc[p] = "plan.bind" => read[p] = generation
    /\ pc[p] = "plan.write" => plan[p].generation = generation

\* The generation of an unmarked plan is behind the present one as soon as a
\* protection has been lifted since.
GenerationsOK(l) ==
  /\ generation >= l.generation
  /\ lifted[GoCache] >= l.lifted
  /\ lifted[GoCache] > l.lifted => generation > l.generation

\* No update of the generation that is pending, stale as it may be, takes it
\* back to the one of the plan.
PendingOK(l, p) ==
  /\ pc[p] = "unprotect.advance" => read[p] >= l.generation
  /\ pc[p] \in {"unprotect.truncate", "unprotect.tombstone"} =>
       generation > l.generation

\* What Apply knows of the plan.
ChecksOK(p) ==
  Alone(p) =>
    /\ pc[p] \in Looking /\ ~valid[p] =>
         Protected(GoCache) \/ lifted[GoCache] # plan[p].lifted
    /\ pc[p] = "apply.protected" /\ ~plan[p].overlapped =>
         lifted[GoCache] = plan[p].lifted
    /\ pc[p] \in Cleared => valid[p] \/ plan[p].overlapped

\* What Apply knows of a protection that was in force when it began.
SinceOK(p) ==
  since[p] # None =>
    /\ since[p] =< lifted[GoCache]
    /\ pc[p] \in Looking /\ lifted[GoCache] = since[p] => Protected(GoCache)
    /\ pc[p] \in Cleared => lifted[GoCache] > since[p]

IInv ==
  /\ TypeOK /\ ReceiptsReadable
  /\ \A p \in Process : LocalsOK(p) /\ BindingOK(p) /\ ChecksOK(p) /\ SinceOK(p)
  /\ \A l \in plans : ~l.overlapped =>
       GenerationsOK(l) /\ \A p \in Process : PendingOK(l, p)

=============================================================================
