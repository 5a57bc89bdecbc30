------------------------- MODULE SampleHistoryProofs -------------------------
(***************************************************************************)
(* Theorems about SampleHistory, for every set of processes, every bound   *)
(* of the history and any number of faults and crashes.                    *)
(*                                                                         *)
(* The first two follow from the inductive invariant IInv.  Two lemmas say *)
(* once what a step inside Append and the return of a command must satisfy *)
(* to preserve it; every action then is one of them, or has a proof of its *)
(* own.  The parts after it are built the same way, each on an invariant   *)
(* of its own:                                                             *)
(*                                                                         *)
(*   AckInv    a sample that is acknowledged, or that its process is about *)
(*             to acknowledge, is there or beyond the bounds;              *)
(*   LeftInv   each temporary file and backup has a process that attends   *)
(*             to it, as long as no command stops;                         *)
(*   AloneInv  what a process that runs alone knows of the directory, and  *)
(*             with it that each append is one step of AtomicHistory.      *)
(*                                                                         *)
(* Fits is never expanded in the first three: that the bounds are these    *)
(* bounds plays no part in the argument.                                   *)
(***************************************************************************)
EXTENDS SampleHistory, TLAPS

-----------------------------------------------------------------------------
(* Lemmas.                                                                 *)

\* What is justified stays justified: samples are published once and for all.
LEMMA BeyondForEver ==
  ASSUME NEW t, BeyondBounds(t), published \subseteq published'
  PROVE  BeyondBounds(t)'
BY DEF BeyondBounds, Named, From, Fits

\* The same of an entry that was in the history itself.
LEMMA JustifiedForEver ==
  ASSUME NEW e, Justified(e), published \subseteq published'
  PROVE  Justified(e)'
BY BeyondForEver DEF Justified

\* The last entry of a non-empty sequence, and what remains without it.
LEMMA LastEntry ==
  ASSUME NEW S, NEW s \in Seq(S), s # <<>>
  PROVE  /\ Len(s) \in Nat /\ Len(s) >= 1
         /\ Last(s) \in S /\ Last(s) = s[Len(s)]
         /\ Front(s) \in Seq(S)
         /\ Len(Front(s)) = Len(s) - 1
         /\ \A i \in 1 .. Len(Front(s)) : i \in 1 .. Len(s) /\ Front(s)[i] = s[i]
<1>1. Len(s) \in Nat /\ Len(s) >= 1 /\ s \in [1 .. Len(s) -> S]
  OBVIOUS
<1>2. Last(s) \in S /\ Last(s) = s[Len(s)]
  BY <1>1 DEF Last
<1>3. /\ Front(s) \in Seq(S)
      /\ Len(Front(s)) = Len(s) - 1
  BY <1>1 DEF Front
<1>4. ASSUME NEW i \in 1 .. Len(Front(s))
      PROVE  i \in 1 .. Len(s) /\ Front(s)[i] = s[i]
  BY <1>1, <1>3, <1>4 DEF Front
<1>5. QED
  BY <1>1, <1>2, <1>3, <1>4

\* A file that is renamed or added under a free name keeps the names apart.
LEMMA NamesStayApart ==
  ASSUME NEW S, NamesDiffer(S), NEW s
  PROVE  /\ \A R \in SUBSET S : NamesDiffer(R)
         /\ NamesDiffer((S \ Named(S, s.at)) \cup {s})
         /\ Named(S, s.at) = {} => NamesDiffer(S \cup {s})
BY DEF NamesDiffer, Named

\* The files of a process are hidden files.
LEMMA HiddenFiles ==
  ASSUME NEW p \in Process, NEW s \in Sample
  PROVE  /\ sample[p] \in Sample => Temporary(p) \in Hidden /\ Placeholder(p) \in Hidden
         /\ Backup(p, s) \in Hidden /\ Replica(p, s) \in Hidden
         /\ Temporary(p).kind # "backup" /\ Placeholder(p).kind # "backup"
         /\ Replica(p, s).kind # "backup" /\ Backup(p, s).sample = s
BY DEF Temporary, Placeholder, Backup, Replica, Hidden, Kinds

\* A fault, or none, stays within the bound of the instance.
LEMMA FaultsBounded ==
  ASSUME TypeOK, NEW n \in Nat, NoFault \/ Fault(n)
  PROVE  faults' \in 0 .. MaxFaults
BY HistoryAssumption DEF TypeOK, NoFault, Fault

\* The first state satisfies the invariant.
LEMMA InitOK == Init => IInv
<1> SUFFICES ASSUME Init PROVE IInv
  OBVIOUS
<1>1. TypeOK
  BY HistoryAssumption DEF Init, TypeOK, PCs
<1>2. WorkOK /\ Known /\ PlansOK /\ PruningOK
  BY DEF Init, WorkOK, Known, PlansOK, PruningOK, Appending, Reading, Preparing,
         Restoring, Pruning, PuttingAside
<1>3. QED
  BY <1>1, <1>2 DEF IInv

\* A step inside Append preserves the invariant when it leaves well-formed
\* files behind, puts known samples into the history only, and does not enter
\* the preparation or the pruning from outside.
LEMMA StepOK ==
  ASSUME IInv, NEW p \in Process, NEW here \in Appending, NEW next \in Appending,
         Step(p, here, next),
         stored' \subseteq published, NamesDiffer(stored'),
         hidden' \subseteq Hidden,
         \A f \in hidden' : f.kind = "backup" => f.sample \in published,
         faults' \in 0 .. MaxFaults,
         next \in Restoring => removed[p] # <<>>,
         next \notin PuttingAside => here \notin PuttingAside,
         next \in Preparing => here \in Preparing,
         next \in Pruning => here \in Pruning
  PROVE  IInv'
<1> USE DEF Step, Go, call, history
<1>1. TypeOK'
  BY DEF IInv, TypeOK, Appending
<1>2. WorkOK'
  BY DEF IInv, TypeOK, WorkOK
<1>3. Known'
  BY DEF IInv, Known
<1>4. PlansOK'
  BY DEF IInv, TypeOK, PlansOK
<1>5. PruningOK'
  <2> SUFFICES ASSUME NEW q \in Process, pc'[q] \in Pruning
               PROVE  /\ \A e \in prune[q] : Justified(e)'
                      /\ \A i \in 1 .. Len(removed[q]) : Justified(removed[q][i])'
    BY DEF PruningOK
  <2>1. pc[q] \in Pruning
    BY DEF IInv, TypeOK
  <2>2. /\ \A e \in prune[q] : Justified(e)
        /\ \A i \in 1 .. Len(removed[q]) : Justified(removed[q][i])
    BY <2>1 DEF IInv, PruningOK
  <2>3. QED
    BY <2>2, JustifiedForEver
<1>6. QED
  BY <1>1, <1>2, <1>3, <1>4, <1>5 DEF IInv

\* The return of a command preserves the invariant when it leaves well-formed
\* files behind and puts nothing into the history.
LEMMA ReturnOK ==
  ASSUME IInv, NEW p \in Process, NEW a \in {"none", "ok", "error"}, Return(p, a),
         UNCHANGED <<stored, legacy, published>>,
         hidden' \subseteq hidden,
         faults' \in 0 .. MaxFaults, crashes' \in 0 .. MaxCrashes,
         acked' \subseteq Sample
  PROVE  IInv'
<1> USE DEF Return, Go
<1>1. TypeOK'
  BY DEF IInv, TypeOK, PCs
<1>2. WorkOK'
  BY DEF IInv, TypeOK, WorkOK, Appending, Restoring, PuttingAside
<1>3. Known'
  BY DEF IInv, TypeOK, Known
<1>4. PlansOK'
  BY DEF IInv, TypeOK, PlansOK, Preparing
<1>5. PruningOK'
  <2> SUFFICES ASSUME NEW q \in Process, pc'[q] \in Pruning
               PROVE  (/\ \A e \in prune[q] : Justified(e)
                       /\ \A i \in 1 .. Len(removed[q]) : Justified(removed[q][i]))'
    BY DEF PruningOK
  <2>1. q # p
    BY DEF IInv, TypeOK, Pruning, PuttingAside, Restoring
  <2>2. pc[q] \in Pruning /\ prune'[q] = prune[q] /\ removed'[q] = removed[q]
    BY <2>1 DEF IInv, TypeOK
  <2>3. /\ \A e \in prune[q] : Justified(e)
        /\ \A i \in 1 .. Len(removed[q]) : Justified(removed[q][i])
    BY <2>2 DEF IInv, PruningOK
  <2>4. QED
    BY <2>2, <2>3, JustifiedForEver
<1>6. QED
  BY <1>1, <1>2, <1>3, <1>4, <1>5 DEF IInv

\* A step that leaves the directory and the history alone, and gives its
\* process no entries to prune, preserves the invariant.
LEMMA ReadStepOK ==
  ASSUME IInv, NEW p \in Process, NEW next \in PCs, Go(p, next),
         pc[p] \notin PuttingAside,
         UNCHANGED <<directory, legacy, prune, removed, faults, crashes, history>>,
         answer' \in [Process -> {"none", "ok", "error"}],
         sample' \in [Process -> Sample \cup {None}],
         \A q \in Process \ {p} : sample'[q] = sample[q] /\ entries'[q] = entries[q],
         entries' \in [Process -> SUBSET Sample],
         listed' \in [Process -> SUBSET published],
         next \in Appending => sample'[p] \in Sample,
         next \notin Preparing \cup Pruning
  PROVE  IInv'
<1> USE DEF Go, directory, history
<1>1. TypeOK'
  <2>1. listed' \in [Process -> SUBSET Sample]
    BY DEF IInv, TypeOK
  <2>2. QED
    BY <2>1 DEF IInv, TypeOK
<1>2. WorkOK'
  BY DEF IInv, TypeOK, WorkOK, Pruning, PuttingAside
<1>3. Known'
  BY DEF IInv, Known
<1>4. PlansOK'
  BY DEF IInv, TypeOK, PlansOK
<1>5. PruningOK'
  <2> SUFFICES ASSUME NEW q \in Process, pc'[q] \in Pruning
               PROVE  /\ \A e \in prune[q] : Justified(e)'
                      /\ \A i \in 1 .. Len(removed[q]) : Justified(removed[q][i])'
    BY DEF PruningOK
  <2>1. pc[q] \in Pruning
    BY DEF IInv, TypeOK
  <2>2. QED
    BY <2>1, JustifiedForEver DEF IInv, PruningOK
<1>6. QED
  BY <1>1, <1>2, <1>3, <1>4, <1>5 DEF IInv

-----------------------------------------------------------------------------
(* Reading.                                                                *)

\* A command begins, lists the directory, reads what is listed: nothing but
\* its own variables changes, and it knows samples of the history only.
LEMMA ReadingOK ==
  ASSUME IInv, NEW p \in Process,
         ReadNext(p) \/ (\E s \in Sample : Begin(p, s)) \/ LegacyLoad(p)
  PROVE  IInv' /\ stored' = stored
<1> USE DEF IInv, TypeOK
<1>1. stored \subseteq published /\ listed \in [Process -> SUBSET published]
  BY DEF Known
<1>0. pc[p] \notin PuttingAside
  BY DEF ReadNext, List, LoadFails, BeginRead, ReadLoad, ReadLegacyLoad, Begin, LegacyLoad, Listing,
         PuttingAside, Restoring
<1>2. CASE List(p)
  <2>1. CASE Return(p, "error")
    BY <1>2, <2>1, ReturnOK DEF List, directory, history
  <2>2. CASE ~Return(p, "error")
    <3>1. /\ Go(p, Loading[pc[p]]) /\ listed' = [listed EXCEPT ![p] = stored]
          /\ UNCHANGED <<answer, sample, entries, prune, removed>>
          /\ UNCHANGED <<directory, legacy, faults, crashes, history>>
          /\ pc[p] \in Listing
      BY <1>2, <2>2 DEF List
    <3>2. /\ Loading[pc[p]] \in PCs
          /\ Loading[pc[p]] \notin Preparing \cup Pruning
          /\ Loading[pc[p]] \in Appending => pc[p] \in Appending
      BY <3>1 DEF Listing, Loading, PCs, Preparing, Pruning, PuttingAside, Restoring, Appending, Reading
    <3>3. Loading[pc[p]] \in Appending => sample[p] \in Sample
      BY <3>2 DEF WorkOK
    <3>4. listed' \in [Process -> SUBSET published]
      BY <1>1, <3>1
    <3>5. QED
      BY <1>0, <3>1, <3>2, <3>3, <3>4, ReadStepOK DEF directory
  <2>3. QED
    BY <2>1, <2>2
<1>3. CASE LoadFails(p)
  BY <1>3, ReturnOK DEF LoadFails, directory, history
<1>4. CASE BeginRead(p)
  <2>1. "read.list" \in PCs /\ "read.list" \notin Preparing \cup Pruning \cup Appending
    BY DEF PCs, Preparing, Pruning, PuttingAside, Restoring, Appending, Reading
  <2>2. QED
    BY <1>0, <1>1, <1>4, <2>1, ReadStepOK DEF BeginRead, call, directory
<1>5. CASE ReadLoad(p)
  <2>1. CASE legacy # None
    <3>1. /\ "read.legacy.list" \in PCs
          /\ "read.legacy.list" \notin Preparing \cup Pruning \cup Appending
      BY DEF PCs, Preparing, Pruning, PuttingAside, Restoring, Appending, Reading
    <3>2. entries' \in [Process -> SUBSET Sample]
      BY <1>5, <2>1 DEF ReadLoad
    <3>3. \A q \in Process \ {p} : entries'[q] = entries[q]
      BY <1>5, <2>1 DEF ReadLoad
    <3>4. QED
      BY <1>0, <1>1, <1>5, <2>1, <3>1, <3>2, <3>3, ReadStepOK DEF ReadLoad, directory
  <2>2. CASE legacy = None
    BY <1>5, <2>2, ReturnOK DEF ReadLoad, directory, history
  <2>3. QED
    BY <2>1, <2>2
<1>6. CASE ReadLegacyLoad(p)
  BY <1>6, ReturnOK DEF ReadLegacyLoad, directory, history
<1>7. CASE \E s \in Sample : Begin(p, s)
  <2>1. PICK s \in Sample : Begin(p, s)
    BY <1>7
  <2> DEFINE next == IF legacy # None THEN "legacy.list" ELSE "list"
  <2>2. next \in PCs /\ next \notin Preparing \cup Pruning
    BY DEF PCs, Preparing, Pruning, PuttingAside, Restoring
  <2>3. Go(p, next) /\ sample'[p] = s
    BY <2>1 DEF Begin
  <2> HIDE DEF next
  <2>4. QED
    BY <1>0, <1>1, <2>1, <2>2, <2>3, ReadStepOK DEF Begin, directory
<1>8. CASE LegacyLoad(p)
  <2>1. CASE Return(p, "error")
    BY <1>8, <2>1, ReturnOK DEF LegacyLoad, directory, history
  <2>2. CASE ~Return(p, "error")
    <3>1. "list" \in PCs /\ "list" \notin Preparing \cup Pruning
      BY DEF PCs, Preparing, Pruning, PuttingAside, Restoring
    <3>2. sample[p] \in Sample
      BY <1>8 DEF LegacyLoad, WorkOK, Appending, PCs, Reading
    <3>3. QED
      BY <1>0, <1>1, <1>8, <2>2, <3>1, <3>2, ReadStepOK DEF LegacyLoad, directory, call
  <2>3. QED
    BY <2>1, <2>2
<1>9. QED
  BY <1>2, <1>3, <1>4, <1>5, <1>6, <1>7, <1>8
     DEF ReadNext, List, LoadFails, BeginRead, ReadLoad, ReadLegacyLoad, Begin,
         LegacyLoad, directory

\* Load computes what to prune from samples of the history and the new one.
LEMMA LoadOK ==
  ASSUME IInv, NEW p \in Process, Load(p)
  PROVE  IInv' /\ stored' = stored
<1> USE DEF IInv, TypeOK
<1>1. pc[p] = "load" /\ sample[p] \in Sample
  BY DEF Load, WorkOK, Appending, PCs, Reading
<1>2. UNCHANGED <<directory, legacy, faults, crashes, history>>
  BY DEF Load
<1>3. CASE Return(p, "error")
  BY <1>2, <1>3, ReturnOK DEF directory, history
<1>4. CASE ~Return(p, "error")
  <2> DEFINE candidate == listed[p] \cup {sample[p]}
  <2>1. /\ pc' = [pc EXCEPT ![p] = "create"]
        /\ entries' = [entries EXCEPT ![p] = listed[p]]
        /\ prune'   = [prune EXCEPT ![p] = candidate \ Kept(candidate)]
        /\ UNCHANGED <<answer, sample, listed, removed>>
    BY <1>4 DEF Load, Go
  <2>2. candidate \subseteq Sample
    BY <1>1
  <2>3. TypeOK'
    BY <1>2, <2>1, <2>2 DEF directory, history, PCs
  <2>4. WorkOK'
    BY <1>1, <2>1 DEF WorkOK, Restoring, PuttingAside
  <2>5. Known'
    BY <1>2, <2>1 DEF Known, directory, history
  <2>6. removed[p] = <<>>
    BY <1>1 DEF WorkOK, PuttingAside, Restoring
  <2>7. PlansOK'
    BY <1>2, <2>1, <2>6 DEF PlansOK, Known, history
  <2>8. PruningOK'
    <3> SUFFICES ASSUME NEW q \in Process, pc'[q] \in Pruning
                 PROVE  (/\ \A e \in prune[q] : Justified(e)
                         /\ \A i \in 1 .. Len(removed[q]) : Justified(removed[q][i]))'
      BY DEF PruningOK
    <3>1. q # p
      BY <2>1 DEF Pruning, PuttingAside, Restoring
    <3>2. pc[q] \in Pruning /\ prune'[q] = prune[q] /\ removed'[q] = removed[q]
      BY <2>1, <3>1
    <3>3. /\ \A e \in prune[q] : Justified(e)
          /\ \A i \in 1 .. Len(removed[q]) : Justified(removed[q][i])
      BY <3>2 DEF PruningOK
    <3>4. QED
      BY <1>2, <3>2, <3>3, JustifiedForEver DEF history
  <2>9. QED
    BY <1>2, <2>3, <2>4, <2>5, <2>7, <2>8 DEF directory
<1>5. QED
  BY <1>2, <1>3, <1>4 DEF directory

-----------------------------------------------------------------------------
(* Steps inside Append that neither add nor remove a sample file.          *)

\* Such a step preserves the invariant when the files it creates are hidden
\* files of its process and no backups.
LEMMA HiddenStepOK ==
  ASSUME IInv, NEW p \in Process, NEW here \in Appending, NEW next \in Appending,
         Step(p, here, next), stored' = stored,
         NEW s \in Sample, sample[p] \in Sample,
         hidden' \subseteq hidden \cup {Temporary(p), Placeholder(p), Replica(p, s)},
         NEW n \in Nat, NoFault \/ Fault(n),
         next \in Restoring => removed[p] # <<>>,
         next \notin PuttingAside => here \notin PuttingAside,
         next \in Preparing => here \in Preparing,
         next \in Pruning => here \in Pruning
  PROVE  IInv' /\ stored' = stored
<1>1. /\ Temporary(p) \in Hidden /\ Placeholder(p) \in Hidden /\ Replica(p, s) \in Hidden
      /\ Temporary(p).kind # "backup" /\ Placeholder(p).kind # "backup"
      /\ Replica(p, s).kind # "backup"
  BY HiddenFiles
<1>2. hidden \subseteq Hidden /\ (\A f \in hidden : f.kind = "backup" => f.sample \in published)
  BY DEF IInv, TypeOK, Known
<1>3. /\ hidden' \subseteq Hidden
      /\ \A f \in hidden' : f.kind = "backup" => f.sample \in published
  BY <1>1, <1>2
<1>4. stored' \subseteq published /\ NamesDiffer(stored')
  BY DEF IInv, TypeOK, Known
<1>5. faults' \in 0 .. MaxFaults
  BY FaultsBounded DEF IInv
<1>6. QED
  BY <1>3, <1>4, <1>5, StepOK

\* Where a process is inside Append it knows its sample; where it restores an
\* entry it has one.
LEMMA AtWork ==
  ASSUME IInv, NEW p \in Process
  PROVE  /\ pc[p] \in Appending => sample[p] \in Sample
         /\ pc[p] \in Restoring => /\ removed[p] # <<>>
                                   /\ Last(removed[p]) \in Sample
BY LastEntry DEF IInv, WorkOK, TypeOK

\* The temporary is created, or the command fails before anything is written.
LEMMA CreateOK ==
  ASSUME IInv, NEW p \in Process, Create(p)
  PROVE  IInv' /\ stored' = stored
<1>1. CASE Step(p, "create", "link") /\ hidden' = hidden \cup {Temporary(p)}
           /\ NoFault /\ UNCHANGED stored
  <2>1. sample[p] \in Sample
    BY <1>1, AtWork DEF Step, Appending, PCs, Reading, Preparing, Pruning, PuttingAside, Restoring
  <2>2. QED
    BY <1>1, <2>1, HiddenStepOK DEF Appending, PCs, Reading, Preparing, Pruning, PuttingAside, Restoring
<1>2. CASE Fault(1) /\ Return(p, "error") /\ UNCHANGED <<directory, legacy, crashes, history>>
  BY <1>2, ReturnOK, FaultsBounded DEF directory, history, IInv, TypeOK
<1>3. QED
  BY <1>1, <1>2 DEF Create

\* The temporary is removed after the link, or the removal fails.
LEMMA UnlinkOK ==
  ASSUME IInv, NEW p \in Process, Unlink(p)
  PROVE  IInv' /\ stored' = stored
<1>1. sample[p] \in Sample
  BY AtWork DEF Unlink, Step, Appending, PCs, Reading, Preparing, Pruning, PuttingAside, Restoring
<1>2. CASE Step(p, "unlink", "stage") /\ hidden' \subseteq hidden /\ NoFault /\ UNCHANGED stored
  BY <1>1, <1>2, HiddenStepOK DEF Appending, PCs, Reading, Preparing, Pruning, PuttingAside, Restoring
<1>3. CASE Step(p, "unlink", "unpublish") /\ UNCHANGED hidden /\ Fault(1) /\ UNCHANGED stored
  BY <1>1, <1>3, HiddenStepOK DEF Appending, PCs, Reading, Preparing, Pruning, PuttingAside, Restoring
<1>4. QED
  BY <1>2, <1>3 DEF Unlink

\* The temporary of a failed append is removed, or left after two attempts.
LEMMA DiscardOK ==
  ASSUME IInv, NEW p \in Process, Discard(p)
  PROVE  IInv' /\ stored' = stored
<1>1. sample[p] \in Sample
  BY AtWork DEF Discard, Step, Appending, PCs, Reading, Preparing, Pruning, PuttingAside, Restoring
<1>2. CASE Step(p, "retract", "discard") /\ Fault(2) /\ UNCHANGED directory
  BY <1>1, <1>2, HiddenStepOK DEF directory, Appending, PCs, Reading, Preparing, Pruning, PuttingAside, Restoring
<1>3. CASE /\ hidden' \subseteq hidden
           /\ NoFault \/ Fault(2)
           /\ Return(p, "error") /\ UNCHANGED <<stored, legacy, crashes, history>>
  BY <1>3, ReturnOK, FaultsBounded DEF history, IInv, TypeOK
<1>4. QED
  BY <1>2, <1>3 DEF Discard

\* A placeholder is created, or all entries have been put aside.
LEMMA StageOK ==
  ASSUME IInv, NEW p \in Process, Stage(p)
  PROVE  IInv' /\ stored' = stored
<1>1. sample[p] \in Sample
  BY AtWork DEF Stage, Step, Appending, PCs, Reading, Preparing, Pruning, PuttingAside, Restoring
<1>2. CASE Step(p, "stage", "clear") /\ NoFault /\ UNCHANGED directory
  BY <1>1, <1>2, HiddenStepOK DEF directory, Appending, PCs, Reading, Preparing, Pruning, PuttingAside, Restoring
<1>3. CASE Step(p, "stage", "placed") /\ hidden' = hidden \cup {Placeholder(p)}
           /\ NoFault /\ UNCHANGED stored
  BY <1>1, <1>3, HiddenStepOK DEF Appending, PCs, Reading, Preparing, Pruning, PuttingAside, Restoring
<1>4. CASE Step(p, "stage", "rollback") /\ Fault(1) /\ UNCHANGED directory
  BY <1>1, <1>4, HiddenStepOK DEF directory, Appending, PCs, Reading, Preparing, Pruning, PuttingAside, Restoring
<1>5. QED
  BY <1>2, <1>3, <1>4 DEF Stage

\* The placeholder is removed, or left after two attempts.
LEMMA UnplaceOK ==
  ASSUME IInv, NEW p \in Process, Unplace(p)
  PROVE  IInv' /\ stored' = stored
<1>1. sample[p] \in Sample
  BY AtWork DEF Unplace, Step, Appending, PCs, Reading, Preparing, Pruning, PuttingAside, Restoring
<1>2. CASE Step(p, "placed", "rename") /\ hidden' \subseteq hidden /\ NoFault /\ UNCHANGED stored
  BY <1>1, <1>2, HiddenStepOK DEF Appending, PCs, Reading, Preparing, Pruning, PuttingAside, Restoring
<1>3. CASE Step(p, "placed", "rollback") /\ hidden' \subseteq hidden
           /\ (Fault(1) \/ Fault(2)) /\ UNCHANGED stored
  BY <1>1, <1>3, HiddenStepOK DEF Appending, PCs, Reading, Preparing, Pruning, PuttingAside, Restoring
<1>4. QED
  BY <1>2, <1>3 DEF Unplace

\* A backup is removed, or the removal fails.
LEMMA ClearOK ==
  ASSUME IInv, NEW p \in Process, Clear(p)
  PROVE  IInv' /\ stored' = stored
<1>1. sample[p] \in Sample
  BY AtWork DEF Clear, Step, Appending, PCs, Reading, Preparing, Pruning, PuttingAside, Restoring
<1>2. CASE Step(p, "clear", "clear") /\ hidden' \subseteq hidden /\ NoFault /\ UNCHANGED stored
  BY <1>1, <1>2, HiddenStepOK DEF Appending, PCs, Reading, Preparing, Pruning, PuttingAside, Restoring
<1>3. CASE Step(p, "clear", "sync") /\ UNCHANGED hidden /\ NoFault /\ UNCHANGED stored
  BY <1>1, <1>3, HiddenStepOK DEF Appending, PCs, Reading, Preparing, Pruning, PuttingAside, Restoring
<1>4. CASE Step(p, "clear", "rollback") /\ UNCHANGED hidden /\ Fault(1) /\ UNCHANGED stored
  BY <1>1, <1>4, HiddenStepOK DEF Appending, PCs, Reading, Preparing, Pruning, PuttingAside, Restoring
<1>5. QED
  BY <1>2, <1>3, <1>4 DEF Clear

\* The append is acknowledged, or the sync of the directory fails.
LEMMA SyncOK ==
  ASSUME IInv, NEW p \in Process, Sync(p)
  PROVE  IInv' /\ stored' = stored
<1>1. sample[p] \in Sample
  BY AtWork DEF Sync, Step, Appending, PCs, Reading, Preparing, Pruning, PuttingAside, Restoring
<1>2. CASE Return(p, "ok") /\ acked' = acked \cup {sample[p]} /\ NoFault
           /\ UNCHANGED <<directory, legacy, crashes, published>>
  BY <1>1, <1>2, ReturnOK DEF directory, NoFault, IInv, TypeOK
<1>3. CASE Step(p, "sync", "rollback") /\ Fault(1) /\ UNCHANGED directory
  BY <1>1, <1>3, HiddenStepOK DEF directory, Appending, PCs, Reading, Preparing, Pruning, PuttingAside, Restoring
<1>4. QED
  BY <1>2, <1>3 DEF Sync

\* The next entry to restore is looked at, or the rollback is over.
LEMMA RestoreOK ==
  ASSUME IInv, NEW p \in Process, Restore(p)
  PROVE  IInv' /\ stored' = stored
<1>1. sample[p] \in Sample
  BY AtWork DEF Restore, Step, Appending, PCs, Reading, Preparing, Pruning, PuttingAside, Restoring
<1>2. CASE Return(p, "error") /\ NoFault /\ UNCHANGED <<directory, legacy, crashes, history>>
  BY <1>2, ReturnOK DEF directory, history, NoFault, IInv, TypeOK
<1>3. CASE /\ removed[p] # <<>> /\ NoFault /\ UNCHANGED directory
           /\ Step(p, "restore", "return")
  <2>1. /\ "restore" \in Appending /\ "restore" \in Pruning
        /\ "return" \in Appending /\ "return" \in PuttingAside /\ "return" \notin Preparing
    BY DEF Appending, PCs, Reading, Preparing, Pruning, PuttingAside, Restoring
  <2>2. QED
    BY <1>1, <1>3, <2>1, HiddenStepOK DEF directory
<1>4. CASE /\ removed[p] # <<>> /\ NoFault /\ UNCHANGED directory
           /\ Step(p, "restore", "drop")
  <2>1. /\ "restore" \in Appending /\ "restore" \in Pruning
        /\ "drop" \in Appending /\ "drop" \in PuttingAside /\ "drop" \notin Preparing
    BY DEF Appending, PCs, Reading, Preparing, Pruning, PuttingAside, Restoring
  <2>2. QED
    BY <1>1, <1>4, <2>1, HiddenStepOK DEF directory
<1>5. CASE /\ removed[p] # <<>> /\ Fault(1) /\ UNCHANGED directory
           /\ Step(p, "restore", "drop")
  BY <1>1, <1>5, HiddenStepOK DEF directory, Appending, PCs, Reading, Preparing, Pruning, PuttingAside, Restoring
<1>6. QED
  BY <1>2, <1>3, <1>4, <1>5 DEF Restore

\* An entry is written anew, or that fails.
LEMMA RecreateOK ==
  ASSUME IInv, NEW p \in Process, Recreate(p)
  PROVE  IInv' /\ stored' = stored
<1>1. sample[p] \in Sample /\ removed[p] # <<>> /\ Last(removed[p]) \in Sample
  BY AtWork DEF Recreate, Step, Appending, PCs, Reading, Preparing, Pruning, PuttingAside, Restoring
<1>2. CASE Step(p, "recreate", "relink") /\ NoFault /\ UNCHANGED stored
           /\ hidden' = hidden \cup {Replica(p, Last(removed[p]))}
  BY <1>1, <1>2, HiddenStepOK DEF Appending, PCs, Reading, Preparing, Pruning, PuttingAside, Restoring
<1>3. CASE Step(p, "recreate", "drop") /\ UNCHANGED hidden /\ Fault(1) /\ UNCHANGED stored
  BY <1>1, <1>3, HiddenStepOK DEF Appending, PCs, Reading, Preparing, Pruning, PuttingAside, Restoring
<1>4. QED
  BY <1>2, <1>3 DEF Recreate

\* The temporary of a restored entry is removed, or that fails twice.
LEMMA FinishOK ==
  ASSUME IInv, NEW p \in Process, Finish(p)
  PROVE  IInv' /\ stored' = stored
<1>1. sample[p] \in Sample /\ removed[p] # <<>>
  BY AtWork DEF Finish, Step, Appending, PCs, Reading, Preparing, Pruning, PuttingAside, Restoring
<1>2. CASE Step(p, "finish", "drop") /\ hidden' \subseteq hidden /\ NoFault /\ UNCHANGED stored
  BY <1>1, <1>2, HiddenStepOK DEF Appending, PCs, Reading, Preparing, Pruning, PuttingAside, Restoring
<1>3. CASE Step(p, "finish", "withdraw") /\ UNCHANGED hidden /\ Fault(2) /\ UNCHANGED stored
  BY <1>1, <1>3, HiddenStepOK DEF Appending, PCs, Reading, Preparing, Pruning, PuttingAside, Restoring
<1>4. QED
  BY <1>2, <1>3 DEF Finish

\* The temporary of an entry that could not be restored is removed, or left.
LEMMA AbandonOK ==
  ASSUME IInv, NEW p \in Process, Abandon(p)
  PROVE  IInv' /\ stored' = stored
<1>1. sample[p] \in Sample /\ removed[p] # <<>>
  BY AtWork DEF Abandon, Step, Appending, PCs, Reading, Preparing, Pruning, PuttingAside, Restoring
<1>2. Step(p, "abandon", "drop") /\ hidden' \subseteq hidden /\ UNCHANGED stored
      /\ (NoFault \/ Fault(2))
  BY DEF Abandon
<1>3. QED
  BY <1>1, <1>2, HiddenStepOK DEF Appending, PCs, Reading, Preparing, Pruning, PuttingAside, Restoring

-----------------------------------------------------------------------------
(* Steps inside Append that add or remove a sample file.                   *)

\* Such a step preserves the invariant when it keeps the names apart and adds
\* samples of the history only.
LEMMA StoredStepOK ==
  ASSUME IInv, NEW p \in Process, NEW here \in Appending, NEW next \in Appending,
         Step(p, here, next), stored' \subseteq published, NamesDiffer(stored'),
         hidden' \subseteq hidden,
         NEW n \in Nat, NoFault \/ Fault(n),
         next \in Restoring => removed[p] # <<>>,
         next \notin PuttingAside => here \notin PuttingAside,
         next \in Preparing => here \in Preparing,
         next \in Pruning => here \in Pruning
  PROVE  IInv'
<1>1. /\ hidden' \subseteq Hidden
      /\ \A f \in hidden' : f.kind = "backup" => f.sample \in published
  BY DEF IInv, TypeOK, Known
<1>2. faults' \in 0 .. MaxFaults
  BY FaultsBounded DEF IInv
<1>3. QED
  BY <1>1, <1>2, StepOK

\* Restoring is part of putting aside, and that of pruning, inside Append.
LEMMA RestoringPhases ==
  /\ Restoring \subseteq PuttingAside /\ PuttingAside \subseteq Pruning
  /\ Pruning \subseteq Appending /\ Pruning \cap Preparing = {}
  /\ "return" \in Restoring /\ "recreate" \in Restoring /\ "relink" \in Restoring
  /\ "finish" \in Restoring /\ "abandon" \in Restoring /\ "drop" \in Restoring
BY DEF Appending, PCs, Reading, Preparing, Pruning, PuttingAside, Restoring

\* What the entries of a rollback and of a restore are worth.
LEMMA RestoredEntry ==
  ASSUME IInv, NEW p \in Process, pc[p] \in Restoring
  PROVE  /\ removed[p] # <<>> /\ Last(removed[p]) \in Sample
         /\ Last(removed[p]) \in published
         /\ BeyondBounds(Last(removed[p]).at)
<1>1. removed[p] \in Seq(Sample) /\ removed[p] # <<>>
  BY DEF IInv, TypeOK, WorkOK
<1>2. /\ Last(removed[p]) \in Sample /\ Last(removed[p]) = removed[p][Len(removed[p])]
      /\ Len(removed[p]) \in Nat /\ Len(removed[p]) >= 1
  BY <1>1, LastEntry
<1>3. pc[p] \in Pruning
  BY DEF Pruning, PuttingAside
<1>4. Justified(removed[p][Len(removed[p])])
  BY <1>2, <1>3 DEF IInv, PruningOK
<1>5. QED
  BY <1>1, <1>2, <1>4 DEF Justified

\* The sample enters the history; from here on what Load has selected is
\* beyond the bounds of samples that were in the history.
LEMMA LinkOK ==
  ASSUME IInv, NEW p \in Process, Link(p)
  PROVE  IInv' /\ stored \subseteq stored'
<1>1. pc[p] = "link" /\ sample[p] \in Sample
  BY AtWork DEF Link, Step, Appending, PCs, Reading, Preparing, Pruning, PuttingAside, Restoring
<1>2. CASE /\ Step(p, "link", "discard") /\ UNCHANGED directory
           /\ NoFault \/ Fault(1)
  <2>1. stored \subseteq published /\ NamesDiffer(stored)
    BY DEF IInv, TypeOK, Known
  <2>2. QED
    BY <1>2, <2>1, StoredStepOK DEF directory, Appending, PCs, Reading, Preparing, Pruning, PuttingAside, Restoring
<1>3. CASE /\ pc[p] = "link" /\ Go(p, "unlink")
           /\ Named(stored, sample[p].at) = {}
           /\ stored' = stored \cup {sample[p]}
           /\ published' = published \cup {sample[p]}
           /\ NoFault /\ UNCHANGED <<hidden, legacy, answer, call, crashes, acked>>
  <2> DEFINE candidate == entries[p] \cup {sample[p]}
  <2>1. TypeOK'
    BY <1>1, <1>3, NamesStayApart DEF IInv, TypeOK, Go, NoFault, call, PCs
  <2>2. WorkOK'
    BY <1>1, <1>3 DEF IInv, TypeOK, WorkOK, Go, call, Appending, PCs, Reading, Preparing, Pruning, PuttingAside, Restoring
  <2>3. Known'
    BY <1>3 DEF IInv, Known, call
  <2>4. PlansOK'
    BY <1>3 DEF IInv, TypeOK, PlansOK, Go, call, Preparing
  <2>5. PruningOK'
    <3>1. candidate \subseteq published' /\ prune[p] = candidate \ Kept(candidate)
      BY <1>1, <1>3 DEF IInv, PlansOK, Preparing
    <3>2. \A e \in prune[p] : Justified(e)'
      <4> SUFFICES ASSUME NEW e \in prune[p] PROVE Justified(e)'
        OBVIOUS
      <4>1. e \in candidate /\ e \notin Kept(candidate)
        BY <3>1
      <4>2. Named(candidate, e.at) # {} /\ ~Fits(From(candidate, e.at))
        BY <4>1 DEF Named, Kept
      <4> HIDE DEF candidate
      <4>3. QED
        BY <3>1, <4>1, <4>2 DEF BeyondBounds, Justified
    <3>3. removed[p] = <<>>
      BY <1>1 DEF IInv, WorkOK, PuttingAside, Restoring
    <3> SUFFICES ASSUME NEW q \in Process, pc'[q] \in Pruning
                 PROVE  (/\ \A e \in prune[q] : Justified(e)
                         /\ \A i \in 1 .. Len(removed[q]) : Justified(removed[q][i]))'
      BY DEF PruningOK
    <3>4. CASE q = p
      BY <1>3, <3>2, <3>3, <3>4 DEF call
    <3>5. CASE q # p
      <4>1. pc[q] \in Pruning
        BY <1>3, <3>5 DEF IInv, TypeOK, Go
      <4>2. /\ \A e \in prune[q] : Justified(e)
            /\ \A i \in 1 .. Len(removed[q]) : Justified(removed[q][i])
        BY <4>1 DEF IInv, PruningOK
      <4>3. QED
        BY <1>3, <4>2, JustifiedForEver DEF call
    <3>6. QED
      BY <3>4, <3>5
  <2>6. QED
    BY <1>3, <2>1, <2>2, <2>3, <2>4, <2>5 DEF IInv
<1>4. QED
  BY <1>2, <1>3 DEF Link, directory

\* The new sample is removed again by its name.
LEMMA UndoOK ==
  ASSUME IInv, NEW p \in Process, Unpublish(p) \/ Rollback(p)
  PROVE  IInv' /\ Accounted
<1>1. /\ stored' \subseteq published /\ NamesDiffer(stored')
      /\ stored' = stored \ Named(stored, sample[p].at) \/ stored' = stored
  BY DEF IInv, TypeOK, Known, Unpublish, Rollback, NamesDiffer, Named
<1>2. Accounted
  BY <1>1 DEF Accounted, Unpublish, Rollback, Step, Named
<1>3. hidden' \subseteq hidden /\ (NoFault \/ Fault(2))
  BY DEF Unpublish, Rollback
<1>4. CASE Step(p, "unpublish", "retract")
  BY <1>1, <1>2, <1>3, <1>4, StoredStepOK DEF Appending, PCs, Reading, Preparing, Pruning, PuttingAside, Restoring
<1>5. CASE Step(p, "rollback", "restore")
  BY <1>1, <1>2, <1>3, <1>5, StoredStepOK DEF Appending, PCs, Reading, Preparing, Pruning, PuttingAside, Restoring
<1>6. QED
  BY <1>4, <1>5 DEF Unpublish, Rollback

\* An entry that is beyond the bounds is put aside.
LEMMA RenameOK ==
  ASSUME IInv, NEW p \in Process, Rename(p)
  PROVE  IInv' /\ Accounted
<1>1. CASE /\ Step(p, "rename", "rollback") /\ UNCHANGED directory
           /\ NoFault \/ Fault(1)
  <2>1. stored \subseteq published /\ NamesDiffer(stored)
    BY DEF IInv, TypeOK, Known
  <2>2. QED
    BY <1>1, <2>1, StoredStepOK DEF directory, Accounted, Appending, PCs, Reading, Preparing, Pruning, PuttingAside, Restoring
<1>2. CASE \E e \in prune[p], f \in stored :
             /\ pc[p] = "rename" /\ f.at = e.at
             /\ stored'  = stored \ {f}
             /\ hidden'  = hidden \cup {Backup(p, f)}
             /\ prune'   = [prune EXCEPT ![p] = prune[p] \ {e}]
             /\ removed' = [removed EXCEPT ![p] = Append(removed[p], e)]
             /\ Go(p, "stage")
             /\ NoFault
             /\ UNCHANGED <<legacy, answer, sample, listed, entries, crashes, history>>
  <2>1. PICK e \in prune[p], f \in stored :
             /\ pc[p] = "rename" /\ f.at = e.at
             /\ stored'  = stored \ {f}
             /\ hidden'  = hidden \cup {Backup(p, f)}
             /\ prune'   = [prune EXCEPT ![p] = prune[p] \ {e}]
             /\ removed' = [removed EXCEPT ![p] = Append(removed[p], e)]
             /\ pc' = [pc EXCEPT ![p] = "stage"]
             /\ NoFault
             /\ UNCHANGED <<legacy, answer, sample, listed, entries, crashes, history>>
    BY <1>2 DEF Go
  <2>2. e \in Sample /\ f \in Sample /\ f \in published /\ removed[p] \in Seq(Sample)
    BY DEF IInv, TypeOK, Known
  <2>3. /\ \A d \in prune[p] : Justified(d)
        /\ \A i \in 1 .. Len(removed[p]) : Justified(removed[p][i])
    BY <2>1 DEF IInv, PruningOK, Pruning, PuttingAside
  <2>4. Backup(p, f) \in Hidden /\ Backup(p, f).sample = f
    BY <2>2, HiddenFiles
  <2>5. TypeOK'
    <3>1. NamesDiffer(stored') /\ hidden' \subseteq Hidden
      BY <2>1, <2>4 DEF IInv, TypeOK, NamesDiffer
    <3>2. removed' \in [Process -> Seq(Sample)]
      BY <2>1, <2>2 DEF IInv, TypeOK
    <3>3. prune' \in [Process -> SUBSET Sample]
      BY <2>1 DEF IInv, TypeOK
    <3>4. QED
      BY <2>1, <3>1, <3>2, <3>3 DEF IInv, TypeOK, NoFault, history, PCs
  <2>6. WorkOK'
    BY <2>1 DEF IInv, TypeOK, WorkOK, Appending, PCs, Reading, Preparing, Pruning, PuttingAside, Restoring
  <2>7. Known'
    BY <2>1, <2>2, <2>4 DEF IInv, TypeOK, Known, history
  <2>8. PlansOK'
    BY <2>1 DEF IInv, TypeOK, PlansOK, Preparing, history
  <2>9. PruningOK'
    <3> SUFFICES ASSUME NEW q \in Process, pc'[q] \in Pruning
                 PROVE  (/\ \A d \in prune[q] : Justified(d)
                         /\ \A i \in 1 .. Len(removed[q]) : Justified(removed[q][i]))'
      BY DEF PruningOK
    <3>1. published' = published
      BY <2>1 DEF history
    <3>2. CASE q = p
      <4>1. removed'[q] = Append(removed[p], e) /\ prune'[q] = prune[p] \ {e}
        BY <2>1, <3>2 DEF IInv, TypeOK
      <4>2. \A i \in 1 .. Len(Append(removed[p], e)) :
              Justified(Append(removed[p], e)[i])
        BY <2>2, <2>3
      <4>3. QED
        BY <2>3, <3>1, <4>1, <4>2, JustifiedForEver
    <3>3. CASE q # p
      <4>1. pc[q] \in Pruning /\ prune'[q] = prune[q] /\ removed'[q] = removed[q]
        BY <2>1, <3>3 DEF IInv, TypeOK
      <4>2. /\ \A d \in prune[q] : Justified(d)
            /\ \A i \in 1 .. Len(removed[q]) : Justified(removed[q][i])
        BY <4>1 DEF IInv, PruningOK
      <4>3. QED
        BY <3>1, <4>1, <4>2, JustifiedForEver
    <3>4. QED
      BY <3>2, <3>3
  <2>10. Accounted
    <3>1. BeyondBounds(f.at)
      BY <2>1, <2>3 DEF Justified
    <3>2. BeyondBounds(f.at)'
      BY <2>1, <3>1, BeyondForEver DEF history
    <3>3. QED
      BY <2>1, <3>2 DEF Accounted
  <2>11. QED
    BY <2>5, <2>6, <2>7, <2>8, <2>9, <2>10 DEF IInv
<1>3. QED
  BY <1>1, <1>2 DEF Rename

\* A backup comes back under its name, over what may be there by now.
LEMMA RenameBackOK ==
  ASSUME IInv, NEW p \in Process, RenameBack(p)
  PROVE  IInv' /\ Accounted
<1>0. PICK b : b = Last(removed[p])
  OBVIOUS
<1>1. pc[p] = "return" /\ removed[p] # <<>> /\ b \in Sample /\ BeyondBounds(b.at)
  BY <1>0, RestoredEntry DEF RenameBack, Restoring
<1>2. stored \subseteq published /\ NamesDiffer(stored)
  BY DEF IInv, TypeOK, Known
<1>3. CASE /\ Step(p, "return", "recreate") /\ UNCHANGED directory
           /\ NoFault \/ Fault(2)
  BY <1>1, <1>2, <1>3, StoredStepOK DEF directory, Accounted, Appending, PCs, Reading, Preparing, Pruning, PuttingAside, Restoring
<1>4. CASE \E f \in Backups(p) :
             /\ f.sample.at = b.at
             /\ Step(p, "return", "drop")
             /\ stored' = (stored \ Named(stored, b.at)) \cup {f.sample}
             /\ hidden' = hidden \ {f}
             /\ NoFault
  <2>1. PICK f \in Backups(p) :
             /\ f.sample.at = b.at
             /\ Step(p, "return", "drop")
             /\ stored' = (stored \ Named(stored, b.at)) \cup {f.sample}
             /\ hidden' = hidden \ {f}
             /\ NoFault
    BY <1>4
  <2>2. f.sample \in published
    BY DEF Backups, IInv, Known
  <2>3. stored' \subseteq published /\ NamesDiffer(stored')
    BY <1>2, <2>1, <2>2, NamesStayApart
  <2>4. BeyondBounds(b.at)'
    BY <1>1, <2>1, BeyondForEver DEF Step, history
  <2>5. Accounted
    BY <2>1, <2>4 DEF Accounted, Named
  <2>6. hidden' \subseteq hidden
    BY <2>1
  <2>7. IInv'
    BY <1>1, <2>1, <2>3, <2>6, StoredStepOK, RestoringPhases
  <2>8. QED
    BY <2>5, <2>7
<1>5. QED
  BY <1>0, <1>3, <1>4 DEF RenameBack

\* An entry written anew is linked under its name, if that is free.
LEMMA RelinkOK ==
  ASSUME IInv, NEW p \in Process, Relink(p)
  PROVE  IInv' /\ stored \subseteq stored'
<1>0. PICK b : b = Last(removed[p])
  OBVIOUS
<1>1. pc[p] = "relink" /\ removed[p] # <<>> /\ b \in Sample
  BY <1>0, RestoredEntry DEF Relink, Step, Restoring
<1>2. stored \subseteq published /\ NamesDiffer(stored)
  BY DEF IInv, TypeOK, Known
<1>3. CASE /\ Step(p, "relink", "abandon") /\ UNCHANGED directory
           /\ NoFault \/ Fault(1)
  <2>1. IInv'
    BY <1>1, <1>2, <1>3, StoredStepOK, RestoringPhases DEF directory
  <2>2. QED
    BY <1>3, <2>1 DEF directory
<1>4. CASE /\ Step(p, "relink", "finish") /\ Named(stored, b.at) = {}
           /\ stored' = stored \cup {b} /\ NoFault /\ UNCHANGED hidden
  <2>1. b \in published
    BY <1>0, <1>1, RestoredEntry DEF Restoring
  <2>2. stored' \subseteq published /\ NamesDiffer(stored')
    BY <1>2, <1>4, <2>1, NamesStayApart
  <2>3. QED
    BY <1>1, <1>4, <2>2, StoredStepOK, RestoringPhases
<1>5. QED
  BY <1>0, <1>3, <1>4 DEF Relink, directory

\* An entry whose restoration failed is taken back.
LEMMA WithdrawOK ==
  ASSUME IInv, NEW p \in Process, Withdraw(p)
  PROVE  IInv' /\ Accounted
<1>0. PICK b : b = Last(removed[p])
  OBVIOUS
<1>1. pc[p] = "withdraw" /\ removed[p] # <<>> /\ BeyondBounds(b.at)
  BY <1>0, RestoredEntry DEF Withdraw, Step, Restoring
<1>2. BeyondBounds(b.at)'
  BY <1>1, BeyondForEver DEF Withdraw, Step, history
<1>3. /\ Step(p, "withdraw", "abandon") /\ hidden' \subseteq hidden
      /\ NoFault \/ Fault(2)
      /\ stored' = stored \ Named(stored, b.at) \/ stored' = stored
  BY <1>0 DEF Withdraw
<1>4. stored' \subseteq published /\ NamesDiffer(stored')
  BY <1>3, NamesStayApart DEF IInv, TypeOK, Known
<1>5. Accounted
  BY <1>2, <1>3 DEF Accounted, Named
<1>6. QED
  BY <1>1, <1>3, <1>4, <1>5, StoredStepOK DEF Appending, PCs, Reading, Preparing, Pruning, PuttingAside, Restoring

\* The next entry to restore comes up.
LEMMA DropOK ==
  ASSUME IInv, NEW p \in Process, Drop(p)
  PROVE  IInv' /\ stored' = stored
<1>1. pc[p] = "drop" /\ removed[p] # <<>> /\ removed[p] \in Seq(Sample)
  BY AtWork DEF Drop, Restoring, IInv, TypeOK
<1>2. PICK rest : rest = Front(removed[p])
  OBVIOUS
<1>3. /\ rest \in Seq(Sample)
      /\ \A i \in 1 .. Len(rest) : i \in 1 .. Len(removed[p]) /\ rest[i] = removed[p][i]
  BY <1>1, <1>2, LastEntry
<1>4. /\ pc' = [pc EXCEPT ![p] = "restore"]
      /\ removed' = [removed EXCEPT ![p] = rest]
      /\ hidden' \subseteq hidden
      /\ NoFault \/ Fault(2)
      /\ UNCHANGED <<stored, legacy, answer, sample, listed, entries, prune, crashes, history>>
  BY <1>2 DEF Drop, Go
<1>5. faults' \in 0 .. MaxFaults
  BY <1>4, FaultsBounded DEF IInv
<1>6. TypeOK'
  BY <1>3, <1>4, <1>5 DEF IInv, TypeOK, history, PCs
<1>7. WorkOK'
  BY <1>1, <1>4 DEF IInv, TypeOK, WorkOK, Appending, PCs, Reading, Preparing, Pruning, PuttingAside, Restoring
<1>8. Known'
  BY <1>4 DEF IInv, Known, history
<1>9. PlansOK'
  BY <1>4 DEF IInv, TypeOK, PlansOK, Preparing, history
<1>10. PruningOK'
  <2> SUFFICES ASSUME NEW q \in Process, pc'[q] \in Pruning
               PROVE  (/\ \A e \in prune[q] : Justified(e)
                       /\ \A i \in 1 .. Len(removed[q]) : Justified(removed[q][i]))'
    BY DEF PruningOK
  <2>1. pc[q] \in Pruning
    BY <1>1, <1>4 DEF IInv, TypeOK, Pruning, PuttingAside, Restoring
  <2>2. /\ \A e \in prune[q] : Justified(e)
        /\ \A i \in 1 .. Len(removed[q]) : Justified(removed[q][i])
    BY <2>1 DEF IInv, PruningOK
  <2>3. \A i \in 1 .. Len(removed'[q]) : i \in 1 .. Len(removed[q]) /\ removed'[q][i] = removed[q][i]
    BY <1>3, <1>4 DEF IInv, TypeOK
  <2>4. prune' = prune /\ published' = published
    BY <1>4 DEF history
  <2>5. \A i \in 1 .. Len(removed'[q]) : Justified(removed'[q][i])
    BY <2>2, <2>3
  <2>6. QED
    BY <2>2, <2>4, <2>5, JustifiedForEver DEF Justified, BeyondBounds
<1>11. QED
  BY <1>4, <1>6, <1>7, <1>8, <1>9, <1>10 DEF IInv

-----------------------------------------------------------------------------
(* Theorems.                                                               *)

\* The invariant is inductive, and every step accounts for what it removes.
LEMMA NextOK == IInv /\ [Next]_vars => IInv' /\ Accounted
<1> SUFFICES ASSUME IInv, [Next]_vars PROVE IInv' /\ Accounted
  OBVIOUS
<1>1. CASE UNCHANGED vars
  <2>1. IInv'
    BY <1>1 DEF vars, IInv, TypeOK, WorkOK, Known, PlansOK, PruningOK, Justified,
                BeyondBounds
  <2>2. QED
    BY <1>1, <2>1 DEF vars, Accounted
<1>2. CASE Next
  <2>1. PICK p \in Process : AppendNext(p) \/ ReadNext(p) \/ Crash(p)
    BY <1>2 DEF Next
  <2>2. stored \subseteq stored' => Accounted
    BY DEF Accounted
  <2>3. CASE ReadNext(p) \/ (\E s \in Sample : Begin(p, s)) \/ LegacyLoad(p)
    BY <2>2, <2>3, ReadingOK
  <2>4. CASE Load(p)
    BY <2>2, <2>4, LoadOK
  <2>5. CASE Create(p)
    BY <2>2, <2>5, CreateOK
  <2>6. CASE Link(p)
    BY <2>2, <2>6, LinkOK
  <2>7. CASE Unlink(p)
    BY <2>2, <2>7, UnlinkOK
  <2>8. CASE Unpublish(p) \/ Rollback(p)
    BY <2>8, UndoOK
  <2>9. CASE Discard(p)
    BY <2>2, <2>9, DiscardOK
  <2>10. CASE Stage(p)
    BY <2>2, <2>10, StageOK
  <2>11. CASE Unplace(p)
    BY <2>2, <2>11, UnplaceOK
  <2>12. CASE Rename(p)
    BY <2>12, RenameOK
  <2>13. CASE Clear(p)
    BY <2>2, <2>13, ClearOK
  <2>14. CASE Sync(p)
    BY <2>2, <2>14, SyncOK
  <2>15. CASE Restore(p)
    BY <2>2, <2>15, RestoreOK
  <2>16. CASE RenameBack(p)
    BY <2>16, RenameBackOK
  <2>17. CASE Recreate(p)
    BY <2>2, <2>17, RecreateOK
  <2>18. CASE Relink(p)
    BY <2>2, <2>18, RelinkOK
  <2>19. CASE Finish(p)
    BY <2>2, <2>19, FinishOK
  <2>20. CASE Withdraw(p)
    BY <2>20, WithdrawOK
  <2>21. CASE Abandon(p)
    BY <2>2, <2>21, AbandonOK
  <2>22. CASE Drop(p)
    BY <2>2, <2>22, DropOK
  <2>23. CASE Crash(p)
    <3>1. crashes' \in 0 .. MaxCrashes
      BY <2>23, HistoryAssumption DEF Crash, IInv, TypeOK
    <3>2. IInv' /\ stored' = stored
      BY <2>23, <3>1, ReturnOK DEF Crash, directory, history, IInv, TypeOK
    <3>3. QED
      BY <2>2, <3>2
  <2>24. QED
    BY <2>1, <2>3, <2>4, <2>5, <2>6, <2>7, <2>8, <2>9, <2>10, <2>11, <2>12, <2>13,
       <2>14, <2>15, <2>16, <2>17, <2>18, <2>19, <2>20, <2>21, <2>22, <2>23
       DEF AppendNext
<1>3. QED
  BY <1>1, <1>2

\* IInv holds throughout every behaviour: the store's files, and what every
\* command has read, selected and put aside, fit together.
THEOREM Invariant == Spec => []IInv
<1>1. IInv /\ [Next]_vars => IInv'
  BY NextOK
<1>2. QED
  BY <1>1, InitOK, PTL DEF Spec

\* Every variable keeps its type and the names in the directory differ,
\* whatever the interleaving, the faults and the crashes of Append.
THEOREM TypeCorrect == Spec => []TypeOK
BY Invariant, PTL DEF IInv

\* A sample file disappears only when it is beyond the bounds of samples that
\* were in the history, or as the new sample of an append that is undone: the
\* pruning and the rollback of Append take nothing else away.
THEOREM PruningIsBounded == Spec => PrunesOnlyBeyondBounds
<1>1. IInv /\ [Next]_vars => [Accounted]_vars
  BY NextOK
<1>2. QED
  BY <1>1, Invariant, PTL DEF Spec, PrunesOnlyBeyondBounds

-----------------------------------------------------------------------------
(* What an append has acknowledged is not lost.                            *)

\* A step inside Append that takes away only what is beyond the bounds, and
\* does not publish a sample, leaves every sample with its owner.
LEMMA AckStepOK ==
  ASSUME TypeOK, AckInv, NEW p \in Process, NEW here, NEW next, Step(p, here, next),
         \A e \in stored \ stored' : BeyondBounds(e.at),
         next \in Linked => here \in Linked
  PROVE  AckInv'
<1>1. /\ published' = published /\ acked' = acked /\ sample' = sample
      /\ pc[p] = here /\ pc' = [pc EXCEPT ![p] = next]
  BY DEF Step, Go, call, history
<1>2. \A t : BeyondBounds(t) => BeyondBounds(t)'
  BY <1>1, BeyondForEver
<1>3. \A q \in Process : pc'[q] \in Linked => pc[q] \in Linked
  BY <1>1 DEF TypeOK
<1>4. AcknowledgedNotLost'
  BY <1>1, <1>2 DEF AckInv, AcknowledgedNotLost
<1>5. LinksOK'
  <2> SUFFICES ASSUME NEW q \in Process, pc'[q] \in Linked PROVE OwnName(q)'
    BY DEF LinksOK
  <2>1. pc[q] \in Linked /\ OwnName(q)
    BY <1>3 DEF AckInv, LinksOK
  <2>2. CASE BeyondBounds(sample[q].at)
    BY <1>1, <1>2, <2>2 DEF OwnName
  <2>3. CASE ~BeyondBounds(sample[q].at)
    <3>1. /\ sample[q] \in stored
          /\ \A s \in acked : s.at # sample[q].at
          /\ \A r \in Process \ {q} : pc[r] \in Linked => sample[r].at # sample[q].at
      BY <2>1, <2>3 DEF OwnName
    <3>2. sample[q] \in stored'
      BY <2>3, <3>1
    <3>3. QED
      BY <1>1, <1>3, <3>1, <3>2 DEF OwnName
  <2>4. QED
    BY <2>2, <2>3
<1>6. QED
  BY <1>4, <1>5 DEF AckInv

\* So does a step that enters or leaves a command, or goes on reading, and
\* changes neither the history nor what is acknowledged.
LEMMA AckOtherOK ==
  ASSUME TypeOK, AckInv, NEW p \in Process,
         UNCHANGED <<stored, published, acked>>,
         pc'[p] \notin Linked,
         \A q \in Process \ {p} : pc'[q] = pc[q] /\ sample'[q] = sample[q]
  PROVE  AckInv'
<1>1. \A t : BeyondBounds(t) => BeyondBounds(t)'
  BY BeyondForEver
<1>2. AcknowledgedNotLost'
  BY <1>1 DEF AckInv, AcknowledgedNotLost
<1>3. LinksOK'
  <2> SUFFICES ASSUME NEW q \in Process, pc'[q] \in Linked PROVE OwnName(q)'
    BY DEF LinksOK
  <2>1. q # p /\ pc[q] \in Linked /\ sample'[q] = sample[q] /\ OwnName(q)
    BY DEF AckInv, LinksOK
  <2>2. \A r \in Process \ {q} : pc'[r] \in Linked => pc[r] \in Linked /\ sample'[r] = sample[r]
    OBVIOUS
  <2>3. QED
    BY <1>1, <2>1, <2>2 DEF OwnName
<1>4. QED
  BY <1>2, <1>3 DEF AckInv

\* The return of a command that has acknowledged nothing.
LEMMA AckReturnOK ==
  ASSUME TypeOK, AckInv, NEW p \in Process, NEW a, Return(p, a),
         UNCHANGED <<stored, published, acked>>
  PROVE  AckInv'
<1>1. pc'[p] = "idle" /\ \A q \in Process \ {p} : pc'[q] = pc[q] /\ sample'[q] = sample[q]
  BY DEF Return, Go, TypeOK
<1>2. pc'[p] \notin Linked
  BY <1>1 DEF Linked
<1>3. QED
  BY <1>1, <1>2, AckOtherOK

\* The reading commands, and Append until it has created its temporary.
LEMMA AckReading ==
  ASSUME TypeOK, AckInv, NEW p \in Process,
         ReadNext(p) \/ (\E s \in Sample : Begin(p, s)) \/ LegacyLoad(p) \/ Load(p)
  PROVE  AckInv'
<1>1. UNCHANGED <<stored, published, acked>>
  BY DEF ReadNext, List, LoadFails, BeginRead, ReadLoad, ReadLegacyLoad, Begin,
         LegacyLoad, Load, directory, history
<1>2. CASE \E a : Return(p, a)
  BY <1>1, <1>2, AckReturnOK
<1>3. CASE ~\E a : Return(p, a)
  <2>1. PICK next : Go(p, next) /\ next \notin Linked
    <3>1. CASE List(p)
      BY <1>3, <3>1 DEF List, Listing, Loading, Linked
    <3>2. CASE LoadFails(p)
      BY <1>3, <3>2 DEF LoadFails
    <3>3. CASE BeginRead(p)
      BY <3>3 DEF BeginRead, Linked
    <3>4. CASE ReadLoad(p)
      BY <1>3, <3>4 DEF ReadLoad, Linked
    <3>5. CASE ReadLegacyLoad(p)
      BY <1>3, <3>5 DEF ReadLegacyLoad
    <3>6. CASE \E s \in Sample : Begin(p, s)
      BY <3>6 DEF Begin, Linked
    <3>7. CASE LegacyLoad(p)
      BY <1>3, <3>7 DEF LegacyLoad, Linked
    <3>8. CASE Load(p)
      BY <1>3, <3>8 DEF Load, Linked
    <3>9. QED
      BY <3>1, <3>2, <3>3, <3>4, <3>5, <3>6, <3>7, <3>8 DEF ReadNext
  <2>2. \A q \in Process \ {p} : sample'[q] = sample[q]
    BY <1>3 DEF ReadNext, List, LoadFails, BeginRead, ReadLoad, ReadLegacyLoad, Begin,
                LegacyLoad, Load, call, TypeOK
  <2>3. QED
    BY <1>1, <2>1, <2>2, AckOtherOK DEF Go, TypeOK
<1>4. QED
  BY <1>2, <1>3

\* The sample that is linked has a name no file has: a sample of that name that
\* was acknowledged, or linked by another append, is beyond the bounds by now.
LEMMA AckLink ==
  ASSUME IInv, AckInv, NEW p \in Process, Link(p)
  PROVE  AckInv'
<1> USE DEF IInv
<1>1. CASE Step(p, "link", "discard") /\ UNCHANGED directory
  BY <1>1, AckStepOK DEF directory, Linked
<1>2. CASE /\ pc[p] = "link" /\ Go(p, "unlink")
           /\ Named(stored, sample[p].at) = {}
           /\ stored' = stored \cup {sample[p]}
           /\ published' = published \cup {sample[p]}
           /\ UNCHANGED <<call, acked>>
  <2>1. \A t : BeyondBounds(t) => BeyondBounds(t)'
    BY <1>2, BeyondForEver
  <2>2. sample' = sample /\ \A q \in Process \ {p} : pc'[q] = pc[q]
    BY <1>2 DEF call, Go, TypeOK
  <2>3. AcknowledgedNotLost'
    BY <1>2, <2>1 DEF AckInv, AcknowledgedNotLost
  <2>4. LinksOK'
    <3> SUFFICES ASSUME NEW q \in Process, pc'[q] \in Linked, ~BeyondBounds(sample[q].at)'
                 PROVE  OwnName(q)'
      BY DEF LinksOK, OwnName
    <3>1. ~BeyondBounds(sample[q].at)
      BY <2>1, <2>2
    <3>2. CASE q = p
      <4>1. sample[p] \in stored' /\ \A s \in stored : s.at # sample[p].at
        BY <1>2 DEF Named
      <4>2. \A s \in acked : s.at # sample[p].at
        BY <3>1, <3>2, <4>1 DEF AckInv, AcknowledgedNotLost
      <4>3. \A r \in Process \ {p} : pc[r] \in Linked => sample[r].at # sample[p].at
        BY <3>1, <3>2, <4>1 DEF AckInv, LinksOK, OwnName
      <4>4. QED
        BY <1>2, <2>2, <3>2, <4>1, <4>2, <4>3 DEF OwnName
    <3>3. CASE q # p
      <4>1. /\ sample[q] \in stored
            /\ \A s \in acked : s.at # sample[q].at
            /\ \A r \in Process \ {q} : pc[r] \in Linked => sample[r].at # sample[q].at
        BY <2>2, <3>1, <3>3 DEF AckInv, LinksOK, OwnName
      <4>2. sample[p].at # sample[q].at
        BY <1>2, <4>1 DEF Named
      <4>3. QED
        BY <1>2, <2>2, <4>1, <4>2 DEF OwnName
    <3>4. QED
      BY <3>2, <3>3
  <2>5. QED
    BY <2>3, <2>4 DEF AckInv
<1>3. QED
  BY <1>1, <1>2 DEF Link

\* Undoing an append removes the sample that bears its name: its own, or one
\* that is beyond the bounds.
LEMMA AckUndo ==
  ASSUME IInv, AckInv, NEW p \in Process, Unpublish(p) \/ Rollback(p)
  PROVE  AckInv'
<1> USE DEF IInv
<1>1. PICK here \in Linked, next \in {"retract", "restore"} : Step(p, here, next)
  BY DEF Unpublish, Rollback, Linked
<1>2. /\ published' = published /\ acked' = acked /\ sample' = sample
      /\ pc[p] \in Linked /\ pc' = [pc EXCEPT ![p] = next]
  BY <1>1 DEF Step, Go, call, history
<1>3. stored' = stored \ Named(stored, sample[p].at) \/ stored' = stored
  BY DEF Unpublish, Rollback
<1>4. \A t : BeyondBounds(t) => BeyondBounds(t)'
  BY <1>2, BeyondForEver
<1>5. OwnName(p)
  BY <1>2 DEF AckInv, LinksOK
<1>6. AcknowledgedNotLost'
  BY <1>2, <1>3, <1>4, <1>5 DEF AckInv, AcknowledgedNotLost, OwnName, Named
<1>7. LinksOK'
  <2> SUFFICES ASSUME NEW q \in Process, pc'[q] \in Linked, ~BeyondBounds(sample[q].at)'
               PROVE  OwnName(q)'
    BY DEF LinksOK, OwnName
  <2>1. q # p /\ pc[q] \in Linked /\ ~BeyondBounds(sample[q].at)
    BY <1>2, <1>4 DEF Linked, TypeOK
  <2>2. /\ sample[q] \in stored
        /\ \A s \in acked : s.at # sample[q].at
        /\ \A r \in Process \ {q} : pc[r] \in Linked => sample[r].at # sample[q].at
    BY <2>1 DEF AckInv, LinksOK, OwnName
  <2>3. sample[q] \in stored'
    BY <1>2, <1>3, <2>1, <2>2 DEF Named
  <2>4. \A r \in Process : pc'[r] \in Linked => pc[r] \in Linked
    BY <1>2 DEF Linked, TypeOK
  <2>5. QED
    BY <1>2, <2>2, <2>3, <2>4 DEF OwnName
<1>8. QED
  BY <1>6, <1>7 DEF AckInv

\* An entry that is put aside is beyond the bounds.
LEMMA AckRename ==
  ASSUME IInv, AckInv, NEW p \in Process, Rename(p)
  PROVE  AckInv'
<1> USE DEF IInv
<1>1. CASE Step(p, "rename", "rollback") /\ UNCHANGED directory
  BY <1>1, AckStepOK DEF directory, Linked
<1>2. CASE \E e \in prune[p], f \in stored :
             /\ pc[p] = "rename" /\ f.at = e.at /\ stored' = stored \ {f} /\ Go(p, "stage")
             /\ UNCHANGED <<sample, history>>
  <2>1. PICK e \in prune[p], f \in stored :
             /\ pc[p] = "rename" /\ f.at = e.at /\ stored' = stored \ {f} /\ Go(p, "stage")
             /\ UNCHANGED <<sample, history>>
    BY <1>2
  <2>2. /\ published' = published /\ acked' = acked /\ sample' = sample
        /\ pc' = [pc EXCEPT ![p] = "stage"]
    BY <2>1 DEF Go, history
  <2>3. BeyondBounds(f.at)
    BY <2>1 DEF PruningOK, Pruning, PuttingAside, Justified
  <2>4. \A t : BeyondBounds(t) => BeyondBounds(t)'
    BY <2>2, BeyondForEver
  <2>5. AcknowledgedNotLost'
    BY <2>1, <2>2, <2>3, <2>4 DEF AckInv, AcknowledgedNotLost
  <2>6. \A q \in Process : pc'[q] \in Linked => pc[q] \in Linked
    BY <2>1, <2>2 DEF TypeOK, Linked
  <2>7. LinksOK'
    <3> SUFFICES ASSUME NEW q \in Process, pc'[q] \in Linked, ~BeyondBounds(sample[q].at)'
                 PROVE  OwnName(q)'
      BY DEF LinksOK, OwnName
    <3>1. pc[q] \in Linked /\ ~BeyondBounds(sample[q].at)
      BY <2>2, <2>4, <2>6
    <3>2. /\ sample[q] \in stored
          /\ \A s \in acked : s.at # sample[q].at
          /\ \A r \in Process \ {q} : pc[r] \in Linked => sample[r].at # sample[q].at
      BY <3>1 DEF AckInv, LinksOK, OwnName
    <3>3. sample[q] \in stored'
      BY <2>1, <2>3, <3>1, <3>2
    <3>4. QED
      BY <2>2, <2>6, <3>2, <3>3 DEF OwnName
  <2>8. QED
    BY <2>5, <2>7 DEF AckInv
<1>3. QED
  BY <1>1, <1>2 DEF Rename

\* What is overwritten or taken back by a restoration has the name of an entry
\* that is beyond the bounds.
LEMMA AckRestoring ==
  ASSUME IInv, AckInv, NEW p \in Process, RenameBack(p) \/ Relink(p) \/ Withdraw(p)
  PROVE  AckInv'
<1>1. PICK here \in Restoring, next \in {"drop", "recreate", "finish", "abandon"} : Step(p, here, next)
  BY DEF RenameBack, Relink, Withdraw, Restoring
<1>2. PICK b : b = Last(removed[p])
  OBVIOUS
<1>3. BeyondBounds(b.at)
  BY <1>1, <1>2, RestoredEntry DEF Step
<1>4. stored \ stored' \subseteq Named(stored, b.at)
  <2>1. CASE RenameBack(p)
    BY <1>2, <2>1 DEF RenameBack, directory
  <2>2. CASE Relink(p)
    BY <2>2 DEF Relink
  <2>3. CASE Withdraw(p)
    BY <1>2, <2>3 DEF Withdraw
  <2>4. QED
    BY <2>1, <2>2, <2>3
<1>5. \A e \in stored \ stored' : BeyondBounds(e.at)
  BY <1>3, <1>4 DEF Named
<1>6. next \notin Linked
  BY DEF Linked
<1>7. QED
  BY <1>1, <1>5, <1>6, AckStepOK DEF IInv

\* The sample that is acknowledged is in the history, or beyond the bounds.
LEMMA AckSync ==
  ASSUME IInv, AckInv, NEW p \in Process, Sync(p)
  PROVE  AckInv'
<1> USE DEF IInv
<1>1. CASE Step(p, "sync", "rollback") /\ UNCHANGED directory
  BY <1>1, AckStepOK DEF directory, Linked
<1>2. CASE /\ pc[p] = "sync" /\ Return(p, "ok") /\ acked' = acked \cup {sample[p]}
           /\ UNCHANGED <<directory, published>>
  <2>1. /\ pc' = [pc EXCEPT ![p] = "idle"] /\ stored' = stored /\ published' = published
        /\ \A q \in Process \ {p} : sample'[q] = sample[q]
    BY <1>2 DEF Return, Go, directory, TypeOK
  <2>2. \A t : BeyondBounds(t) => BeyondBounds(t)'
    BY <2>1, BeyondForEver
  <2>3. pc[p] \in Linked /\ OwnName(p)
    BY <1>2 DEF AckInv, LinksOK, Linked
  <2>4. AcknowledgedNotLost'
    BY <1>2, <2>1, <2>2, <2>3 DEF AckInv, AcknowledgedNotLost, OwnName
  <2>5. \A q \in Process : pc'[q] \in Linked => q # p /\ pc[q] \in Linked /\ sample'[q] = sample[q]
    BY <2>1 DEF Linked, TypeOK
  <2>6. LinksOK'
    <3> SUFFICES ASSUME NEW q \in Process, pc'[q] \in Linked, ~BeyondBounds(sample[q].at)'
                 PROVE  OwnName(q)'
      BY DEF LinksOK, OwnName
    <3>1. q # p /\ pc[q] \in Linked /\ sample'[q] = sample[q] /\ ~BeyondBounds(sample[q].at)
      BY <2>2, <2>5
    <3>2. /\ sample[q] \in stored
          /\ \A s \in acked : s.at # sample[q].at
          /\ \A r \in Process \ {q} : pc[r] \in Linked => sample[r].at # sample[q].at
      BY <3>1 DEF AckInv, LinksOK, OwnName
    <3>3. \A s \in acked' : s.at # sample[q].at
      BY <1>2, <2>3, <3>1, <3>2
    <3>4. QED
      BY <2>1, <2>5, <3>1, <3>2, <3>3 DEF OwnName
  <2>7. QED
    BY <2>4, <2>6 DEF AckInv
<1>3. QED
  BY <1>1, <1>2 DEF Sync

\* The steps that change hidden files only.
LEMMA AckHidden ==
  ASSUME IInv, AckInv, NEW p \in Process,
         \/ Create(p) \/ Unlink(p) \/ Discard(p) \/ Stage(p) \/ Unplace(p) \/ Clear(p)
         \/ Restore(p) \/ Recreate(p) \/ Finish(p) \/ Abandon(p) \/ Drop(p)
  PROVE  AckInv'
<1> USE DEF IInv
<1>1. stored' = stored
  BY DEF Create, Unlink, Discard, Stage, Unplace, Clear, Restore, Recreate, Finish,
         Abandon, Drop, directory
<1>2. CASE \E a : Return(p, a) /\ UNCHANGED history
  BY <1>1, <1>2, AckReturnOK DEF history
<1>3. CASE \E here, next : Step(p, here, next) /\ (next \in Linked => here \in Linked)
  BY <1>1, <1>3, AckStepOK
<1>4. CASE Drop(p)
  <2>1. pc' = [pc EXCEPT ![p] = "restore"] /\ UNCHANGED <<sample, history>>
    BY <1>4 DEF Drop, Go
  <2>2. QED
    BY <1>1, <2>1, AckOtherOK DEF Linked, TypeOK, history
<1>5. CASE Restore(p)
  <2>1. \/ Return(p, "error") /\ UNCHANGED history
        \/ Step(p, "restore", "return") \/ Step(p, "restore", "drop")
    BY <1>5 DEF Restore
  <2>2. QED
    BY <1>2, <1>3, <2>1 DEF Linked
<1>6. QED
  BY <1>2, <1>3, <1>4, <1>5
     DEF Create, Unlink, Discard, Stage, Unplace, Clear, Recreate, Finish, Abandon, Linked

\* Acknowledged samples, and the names of samples being appended, are kept by
\* every step.
LEMMA AckNext == IInv /\ AckInv /\ [Next]_vars => AckInv'
<1> SUFFICES ASSUME IInv, AckInv, [Next]_vars PROVE AckInv'
  OBVIOUS
<1>1. CASE UNCHANGED vars
  BY <1>1 DEF vars, AckInv, AcknowledgedNotLost, LinksOK, OwnName, BeyondBounds
<1>2. CASE Next
  <2>1. PICK p \in Process : AppendNext(p) \/ ReadNext(p) \/ Crash(p)
    BY <1>2 DEF Next
  <2>2. CASE Crash(p)
    BY <2>2, AckReturnOK DEF Crash, directory, history, IInv
  <2>3. CASE ReadNext(p) \/ (\E s \in Sample : Begin(p, s)) \/ LegacyLoad(p) \/ Load(p)
    BY <2>3, AckReading DEF IInv
  <2>4. CASE Link(p)
    BY <2>4, AckLink
  <2>5. CASE Unpublish(p) \/ Rollback(p)
    BY <2>5, AckUndo
  <2>6. CASE Rename(p)
    BY <2>6, AckRename
  <2>7. CASE RenameBack(p) \/ Relink(p) \/ Withdraw(p)
    BY <2>7, AckRestoring
  <2>8. CASE Sync(p)
    BY <2>8, AckSync
  <2>9. CASE \/ Create(p) \/ Unlink(p) \/ Discard(p) \/ Stage(p) \/ Unplace(p) \/ Clear(p)
             \/ Restore(p) \/ Recreate(p) \/ Finish(p) \/ Abandon(p) \/ Drop(p)
    BY <2>9, AckHidden
  <2>10. QED
    BY <2>1, <2>2, <2>3, <2>4, <2>5, <2>6, <2>7, <2>8, <2>9 DEF AppendNext
<1>3. QED
  BY <1>1, <1>2

\* A sample whose Append has returned nil stays in the history until the bounds
\* account for its loss: for any number of appends at once, with no lock
\* between them, whatever calls fail and whatever processes die.
THEOREM AcknowledgedStays == Spec => []AcknowledgedNotLost
<1>1. Init => AckInv
  BY DEF Init, AckInv, AcknowledgedNotLost, LinksOK, Linked
<1>2. IInv /\ AckInv /\ [Next]_vars => AckInv'
  BY AckNext
<1>3. AckInv => AcknowledgedNotLost
  BY DEF AckInv
<1>4. QED
  BY <1>1, <1>2, <1>3, Invariant, PTL DEF Spec

-----------------------------------------------------------------------------
(* Nothing is left behind.                                                 *)

\* A fault is for ever, and a second one makes the history unsound.
LEMMA SoundBefore ==
  ASSUME TypeOK, NEW n \in {1, 2}, NoFault \/ Fault(n), crashes' = crashes, Sound'
  PROVE  Sound /\ (Fault(n) => n = 1 /\ faults = 0)
BY DEF TypeOK, NoFault, Fault, Sound

\* A process disturbs no other one's hidden files: its step preserves the
\* invariant when it attends to its own.
LEMMA LeftOwnOK ==
  ASSUME TypeOK, LeftInv, NEW p \in Process,
         \A q \in Process \ {p} : pc'[q] = pc[q] /\ sample'[q] = sample[q] /\ removed'[q] = removed[q],
         \A f \in hidden' : f.by # p => f \in hidden,
         TypeOK',
         Sound' => Sound /\ \A f \in hidden' : f.by = p => Attended(f)'
  PROVE  LeftInv'
<1> SUFFICES ASSUME Sound', NEW f \in hidden' PROVE Attended(f)'
  BY DEF LeftInv
<1>1. CASE f.by = p
  BY <1>1
<1>2. CASE f.by # p
  <2>1. f \in hidden /\ Attended(f) /\ f.by \in Process
    BY <1>2 DEF LeftInv, TypeOK, Hidden
  <2>2. QED
    BY <1>2, <2>1 DEF Attended, Temporary, Placeholder, Replica
<1>3. QED
  BY <1>1, <1>2

\* A step inside Append.
LEMMA LeftStepOK ==
  ASSUME TypeOK, LeftInv, TypeOK', NEW p \in Process, NEW here, NEW next, Step(p, here, next),
         NEW n \in {1, 2}, NoFault \/ Fault(n),
         \A f \in hidden' : f.by # p => f \in hidden,
         Sound /\ NoFault => \A f \in hidden' : f.by = p => Attended(f)',
         Sound /\ Fault(n) /\ n = 1 => \A f \in hidden' : f.by = p => Attended(f)'
  PROVE  LeftInv'
<1>1. \A q \in Process \ {p} : pc'[q] = pc[q] /\ sample'[q] = sample[q] /\ removed'[q] = removed[q]
  BY DEF Step, Go, call, TypeOK
<1>2. Sound' => Sound /\ (Fault(n) => n = 1)
  BY SoundBefore DEF Step
<1>3. QED
  BY <1>1, <1>2, LeftOwnOK

\* The return of a command that has no hidden file.
LEMMA LeftReturnOK ==
  ASSUME TypeOK, LeftInv, TypeOK', NEW p \in Process, NEW a, Return(p, a),
         NEW n \in {1, 2}, NoFault \/ Fault(n), crashes' = crashes,
         hidden' \subseteq hidden,
         Sound /\ (NoFault \/ n = 1) => \A f \in hidden' : f.by # p
  PROVE  LeftInv'
<1>1. \A q \in Process \ {p} : pc'[q] = pc[q] /\ sample'[q] = sample[q] /\ removed'[q] = removed[q]
  BY DEF Return, Go, TypeOK
<1>2. Sound' => Sound /\ (NoFault \/ n = 1)
  BY SoundBefore
<1>3. QED
  BY <1>1, <1>2, LeftOwnOK

\* The hidden files of a process by where it is.
LEMMA OwnHidden ==
  ASSUME LeftInv, Sound, NEW p \in Process, NEW f \in hidden, f.by = p
  PROVE  /\ \/ pc[p] \in {"link", "unlink", "unpublish", "retract", "discard"}
            \/ pc[p] \in PuttingAside
         /\ pc[p] \in {"link", "unlink", "unpublish", "retract", "discard"} => f = Temporary(p)
         /\ pc[p] \in PuttingAside =>
              \/ f = Placeholder(p) /\ pc[p] = "placed"
              \/ f = Replica(p, Last(removed[p])) /\ pc[p] \in {"relink", "finish", "withdraw", "abandon"}
              \/ /\ f.kind = "backup" /\ pc[p] # "sync"
                 /\ \E i \in 1 .. Len(removed[p]) : removed[p][i].at = f.sample.at
BY DEF LeftInv, Attended, PuttingAside, Restoring

\* The reading commands, and Append until it has created its temporary.
LEMMA LeftReading ==
  ASSUME TypeOK, LeftInv, TypeOK', NEW p \in Process,
         ReadNext(p) \/ (\E s \in Sample : Begin(p, s)) \/ LegacyLoad(p) \/ Load(p)
  PROVE  LeftInv'
<1>1. UNCHANGED <<hidden, faults, crashes>>
  BY DEF ReadNext, List, LoadFails, BeginRead, ReadLoad, ReadLegacyLoad, Begin,
         LegacyLoad, Load, directory
<1>2. Sound' = Sound
  BY <1>1 DEF Sound
<1>3. pc[p] \notin {"link", "unlink", "unpublish", "retract", "discard"} \cup PuttingAside
  BY DEF ReadNext, List, LoadFails, BeginRead, ReadLoad, ReadLegacyLoad, Begin,
         LegacyLoad, Load, Listing, PuttingAside, Restoring
<1>4. Sound => \A f \in hidden : f.by # p
  BY <1>3, OwnHidden
<1>5. \A q \in Process \ {p} : pc'[q] = pc[q] /\ sample'[q] = sample[q] /\ removed'[q] = removed[q]
  <2>1. CASE \E a : Return(p, a)
    BY <2>1 DEF Return, Go, TypeOK
  <2>2. CASE ~\E a : Return(p, a)
    BY <2>2 DEF ReadNext, List, LoadFails, BeginRead, ReadLoad, ReadLegacyLoad, Begin,
         LegacyLoad, Load, call, Go, TypeOK
  <2>3. QED
    BY <2>1, <2>2
<1>6. QED
  BY <1>1, <1>2, <1>4, <1>5, LeftOwnOK

\* The temporary is created, and removed again however the link goes.
LEMMA LeftPublication ==
  ASSUME TypeOK, LeftInv, TypeOK', NEW p \in Process,
         Create(p) \/ Link(p) \/ Unlink(p) \/ Unpublish(p) \/ Discard(p)
  PROVE  LeftInv'
<1> DEFINE early == {"link", "unlink", "unpublish", "retract", "discard"}
<1>0. ASSUME Sound, NEW f \in hidden, f.by = p
      PROVE  pc[p] # "create" /\ (pc[p] \in early => f = Temporary(p))
  BY <1>0, OwnHidden DEF PuttingAside, Restoring
<1>1. CASE Step(p, "create", "link") /\ hidden' = hidden \cup {Temporary(p)} /\ NoFault
  <2>1. Temporary(p)' = Temporary(p) /\ pc'[p] = "link" /\ Temporary(p).by = p /\ pc[p] = "create"
    BY <1>1 DEF Step, Go, call, Temporary, TypeOK
  <2>2. Sound => \A f \in hidden' : f.by = p => Attended(f)'
    BY <1>0, <1>1, <2>1 DEF Attended
  <2>3. QED
    BY <1>1, <2>1, <2>2, LeftStepOK
<1>2. CASE /\ Return(p, "error") /\ pc[p] = "create" /\ Fault(1) /\ UNCHANGED <<hidden, crashes>>
  BY <1>0, <1>2, LeftReturnOK
<1>3. CASE \E here, next \in early : Step(p, here, next) /\ UNCHANGED hidden
             /\ (NoFault \/ Fault(1) \/ Fault(2))
  <2>1. PICK here \in early, next \in early : Step(p, here, next) /\ UNCHANGED hidden
             /\ (NoFault \/ Fault(1) \/ Fault(2))
    BY <1>3
  <2>2. Temporary(p)' = Temporary(p) /\ pc'[p] \in early /\ pc[p] \in early
    BY <2>1 DEF Step, Go, call, Temporary, TypeOK
  <2>3. Sound => \A f \in hidden' : f.by = p => Attended(f)'
    BY <1>0, <2>1, <2>2 DEF Attended
  <2>4. QED
    BY <2>1, <2>3, LeftStepOK
<1>4. CASE /\ pc[p] = "link" /\ Go(p, "unlink") /\ NoFault
           /\ UNCHANGED <<hidden, call, crashes>>
  <2>1. /\ Temporary(p)' = Temporary(p) /\ pc'[p] \in early /\ pc[p] \in early
        /\ \A q \in Process \ {p} : pc'[q] = pc[q] /\ sample'[q] = sample[q] /\ removed'[q] = removed[q]
    BY <1>4 DEF Go, call, Temporary, TypeOK
  <2>2. Sound => \A f \in hidden' : f.by = p => Attended(f)'
    BY <1>0, <1>4, <2>1 DEF Attended
  <2>3. QED
    BY <1>4, <2>1, <2>2, SoundBefore, LeftOwnOK
<1>5. CASE Step(p, "unlink", "stage") /\ hidden' = hidden \ {Temporary(p)} /\ NoFault
  <2>1. pc[p] \in early
    BY <1>5 DEF Step
  <2>2. Sound => \A f \in hidden' : f.by # p
    BY <1>0, <1>5, <2>1
  <2>3. QED
    BY <1>5, <2>2, LeftStepOK
<1>6. CASE /\ Return(p, "error") /\ pc[p] \in {"retract", "discard"}
           /\ \/ hidden' = hidden \ {Temporary(p)} /\ NoFault
              \/ UNCHANGED hidden /\ Fault(2)
           /\ UNCHANGED crashes
  <2>1. Sound /\ NoFault => \A f \in hidden' : f.by # p
    BY <1>0, <1>6 DEF NoFault, Fault, TypeOK
  <2>2. hidden' \subseteq hidden /\ (NoFault \/ Fault(2))
    BY <1>6
  <2>3. QED
    BY <1>6, <2>1, <2>2, LeftReturnOK
<1>7. QED
  BY <1>1, <1>2, <1>3, <1>4, <1>5, <1>6
     DEF Create, Link, Unlink, Unpublish, Discard, directory

\* A step of the pruning or the rollback that keeps what is put aside.
LEMMA LeftAsideOK ==
  ASSUME TypeOK, LeftInv, TypeOK', NEW p \in Process,
         NEW here \in PuttingAside, NEW next \in PuttingAside \ {"sync"}, Step(p, here, next),
         NEW n \in {1, 2}, NoFault \/ Fault(n),
         \A f \in hidden' : f.by # p => f \in hidden,
         Sound /\ (NoFault \/ (Fault(n) /\ n = 1)) =>
           \A f \in hidden' : f.by = p =>
             \/ f = Placeholder(p) /\ next = "placed"
             \/ f = Replica(p, Last(removed[p])) /\ next \in {"relink", "finish", "withdraw", "abandon"}
             \/ /\ f \in hidden
                /\ f = Placeholder(p) => here # "placed"
                /\ f = Replica(p, Last(removed[p])) => here \notin {"relink", "finish", "withdraw", "abandon"}
  PROVE  LeftInv'
<1>1. /\ Placeholder(p)' = Placeholder(p) /\ pc[p] = here /\ pc'[p] = next
      /\ removed' = removed
  BY DEF Step, Go, call, Placeholder, TypeOK
<1>2. ASSUME Sound, NoFault \/ (Fault(n) /\ n = 1), NEW f \in hidden', f.by = p
      PROVE  Attended(f)'
  <2>1. CASE f = Placeholder(p) /\ next = "placed"
    BY <1>1, <1>2, <2>1 DEF Attended
  <2>2. CASE f = Replica(p, Last(removed[p])) /\ next \in {"relink", "finish", "withdraw", "abandon"}
    BY <1>1, <1>2, <2>2 DEF Attended, Replica
  <2>3. CASE /\ f \in hidden
             /\ f = Placeholder(p) => here # "placed"
             /\ f = Replica(p, Last(removed[p])) => here \notin {"relink", "finish", "withdraw", "abandon"}
    <3>1. /\ f.kind = "backup"
          /\ \E i \in 1 .. Len(removed[p]) : removed[p][i].at = f.sample.at
      BY <1>1, <1>2, <2>3, OwnHidden
    <3>2. QED
      BY <1>1, <1>2, <3>1 DEF Attended
  <2>4. QED
    BY <1>2, <2>1, <2>2, <2>3
<1>3. Sound /\ NoFault => \A f \in hidden' : f.by = p => Attended(f)'
  <2> SUFFICES ASSUME Sound, NoFault, NEW f \in hidden', f.by = p PROVE Attended(f)'
    OBVIOUS
  <2>1. QED
    BY <1>2
<1>4. Sound /\ Fault(n) /\ n = 1 => \A f \in hidden' : f.by = p => Attended(f)'
  <2> SUFFICES ASSUME Sound, Fault(n), n = 1, NEW f \in hidden', f.by = p PROVE Attended(f)'
    OBVIOUS
  <2>1. QED
    BY <1>2
<1>5. QED
  BY ONLY <1>3, <1>4, LeftStepOK, TypeOK, LeftInv, TypeOK', p \in Process, Step(p, here, next),
     n \in {1, 2}, NoFault \/ Fault(n), \A f \in hidden' : f.by # p => f \in hidden

\* The entries are put aside, then what is put aside is removed.
LEMMA LeftPruning ==
  ASSUME IInv, LeftInv, TypeOK', NEW p \in Process,
         Stage(p) \/ Unplace(p) \/ Rename(p) \/ Clear(p) \/ Sync(p)
  PROVE  LeftInv'
<1> USE DEF IInv
<1>0. /\ {"stage", "placed", "rename", "clear", "rollback"} \subseteq PuttingAside \ {"sync"}
      /\ "sync" \in PuttingAside /\ Placeholder(p).by = p
  BY DEF PuttingAside, Restoring, Placeholder
<1>1. CASE Stage(p)
  <2>1. CASE Step(p, "stage", "placed") /\ NoFault /\ hidden' = hidden \cup {Placeholder(p)}
    BY <1>0, <2>1, LeftAsideOK
  <2>2. CASE Step(p, "stage", "clear") /\ NoFault /\ UNCHANGED hidden
    BY <1>0, <2>2, LeftAsideOK
  <2>3. CASE Step(p, "stage", "rollback") /\ Fault(1) /\ UNCHANGED hidden
    BY <1>0, <2>3, LeftAsideOK
  <2>4. QED
    BY <1>1, <2>1, <2>2, <2>3 DEF Stage, directory
<1>2. CASE Unplace(p)
  <2>1. CASE Step(p, "placed", "rename") /\ NoFault /\ hidden' = hidden \ {Placeholder(p)}
    BY <1>0, <2>1, LeftAsideOK
  <2>2. CASE Step(p, "placed", "rollback") /\ Fault(1) /\ hidden' = hidden \ {Placeholder(p)}
    BY <1>0, <2>2, LeftAsideOK
  <2>3. CASE Step(p, "placed", "rollback") /\ Fault(2) /\ UNCHANGED hidden
    <3>1. ~NoFault
      BY <2>3 DEF Fault, NoFault, TypeOK
    <3>2. QED
      BY <1>0, <2>3, <3>1, LeftAsideOK
  <2>4. QED
    BY <1>2, <2>1, <2>2, <2>3 DEF Unplace
<1>3. CASE Rename(p)
  <2>1. CASE Step(p, "rename", "rollback") /\ (NoFault \/ Fault(1)) /\ UNCHANGED hidden
    BY <1>0, <2>1, LeftAsideOK
  <2>2. CASE \E e \in prune[p], f \in stored :
               /\ pc[p] = "rename" /\ f.at = e.at
               /\ hidden'  = hidden \cup {Backup(p, f)}
               /\ removed' = [removed EXCEPT ![p] = Append(removed[p], e)]
               /\ Go(p, "stage")
               /\ NoFault /\ UNCHANGED <<sample, crashes>>
    <3>1. PICK e \in prune[p], f \in stored :
               /\ pc[p] = "rename" /\ f.at = e.at
               /\ hidden'  = hidden \cup {Backup(p, f)}
               /\ removed' = [removed EXCEPT ![p] = Append(removed[p], e)]
               /\ Go(p, "stage")
               /\ NoFault /\ UNCHANGED <<sample, crashes>>
      BY <2>2
    <3>2. /\ removed[p] \in Seq(Sample) /\ e \in Sample
          /\ removed'[p] = Append(removed[p], e) /\ pc'[p] = "stage"
          /\ \A q \in Process \ {p} : pc'[q] = pc[q] /\ sample'[q] = sample[q] /\ removed'[q] = removed[q]
      BY <3>1 DEF TypeOK, Go
    <3>3. ASSUME Sound, NEW g \in hidden', g.by = p PROVE Attended(g)'
      <4>1. /\ g.kind = "backup"
            /\ \E i \in 1 .. Len(removed'[p]) : removed'[p][i].at = g.sample.at
        <5>1. CASE g = Backup(p, f)
          <6>1. g.kind = "backup" /\ g.sample.at = e.at
            BY <3>1, <5>1 DEF Backup
          <6>2. /\ Len(removed'[p]) = Len(removed[p]) + 1 /\ Len(removed[p]) \in Nat
                /\ removed'[p][Len(removed[p]) + 1] = e
            BY <3>2
          <6>3. QED
            BY <6>1, <6>2
        <5>2. CASE g \in hidden
          <6>1. /\ g.kind = "backup"
                /\ \E i \in 1 .. Len(removed[p]) : removed[p][i].at = g.sample.at
            BY <1>0, <3>1, <3>3, <5>2, OwnHidden
          <6>2. /\ Len(removed'[p]) = Len(removed[p]) + 1
                /\ \A i \in 1 .. Len(removed[p]) : removed'[p][i] = removed[p][i] /\ i \in 1 .. Len(removed'[p])
            BY <3>2
          <6>3. QED
            BY <6>1, <6>2
        <5>3. QED
          BY <3>1, <5>1, <5>2
      <4>2. QED
        BY <1>0, <3>2, <3>3, <4>1 DEF Attended
    <3>4. Backup(p, f).by = p
      BY DEF Backup
    <3>5. QED
      BY <3>1, <3>2, <3>3, <3>4, SoundBefore, LeftOwnOK
  <2>3. QED
    BY <1>3, <2>1, <2>2 DEF Rename, directory
<1>4. CASE Clear(p)
  <2>1. CASE Step(p, "clear", "clear") /\ NoFault /\ hidden' \subseteq hidden
    BY <1>0, <2>1, LeftAsideOK
  <2>2. CASE Step(p, "clear", "sync") /\ NoFault /\ UNCHANGED hidden /\ Backups(p) = {}
    <3>1. Sound => \A f \in hidden : f.by # p
      BY <1>0, <2>2, OwnHidden DEF Step, Backups
    <3>2. QED
      BY <2>2, <3>1, LeftStepOK
  <2>3. CASE Step(p, "clear", "rollback") /\ Fault(1) /\ UNCHANGED hidden
    BY <1>0, <2>3, LeftAsideOK
  <2>4. QED
    BY <1>4, <2>1, <2>2, <2>3 DEF Clear
<1>5. CASE Sync(p)
  <2>1. Sound => \A f \in hidden : f.by # p
    BY <1>0, <1>5, OwnHidden DEF Sync, Step
  <2>2. CASE Return(p, "ok") /\ NoFault /\ UNCHANGED <<directory, crashes>>
    BY <2>1, <2>2, LeftReturnOK DEF directory
  <2>3. CASE Step(p, "sync", "rollback") /\ Fault(1) /\ UNCHANGED directory
    BY <2>1, <2>3, LeftStepOK DEF directory
  <2>4. QED
    BY <1>5, <2>2, <2>3 DEF Sync
<1>6. QED
  BY <1>1, <1>2, <1>3, <1>4, <1>5

\* The entries come back one by one, and their backups go.
LEMMA LeftRollback ==
  ASSUME IInv, LeftInv, TypeOK', NEW p \in Process,
         \/ Rollback(p) \/ Restore(p) \/ RenameBack(p) \/ Recreate(p) \/ Relink(p)
         \/ Finish(p) \/ Withdraw(p) \/ Abandon(p) \/ Drop(p)
  PROVE  LeftInv'
<1> USE DEF IInv
<1>0. /\ Restoring \cup {"rollback", "restore"} \subseteq PuttingAside \ {"sync"}
      /\ {"return", "recreate", "relink", "finish", "withdraw", "abandon", "drop"} = Restoring
      /\ Replica(p, Last(removed[p])).by = p
  BY DEF PuttingAside, Restoring, Replica
<1>1. CASE Rollback(p)
  BY <1>0, <1>1, LeftAsideOK DEF Rollback
<1>2. CASE Restore(p)
  <2>1. CASE /\ pc[p] = "restore" /\ removed[p] = <<>> /\ Return(p, "error")
             /\ NoFault /\ UNCHANGED <<directory, crashes>>
    <3>1. Sound => \A f \in hidden : f.by # p
      BY <1>0, <2>1, OwnHidden
    <3>2. QED
      BY <2>1, <3>1, LeftReturnOK DEF directory
  <2>2. CASE Step(p, "restore", "return") /\ NoFault /\ UNCHANGED hidden
    BY <1>0, <2>2, LeftAsideOK
  <2>3. CASE Step(p, "restore", "drop") /\ (NoFault \/ Fault(1)) /\ UNCHANGED hidden
    BY <1>0, <2>3, LeftAsideOK
  <2>4. QED
    BY <1>2, <2>1, <2>2, <2>3 DEF Restore, directory
<1>3. CASE RenameBack(p)
  <2>1. CASE Step(p, "return", "drop") /\ NoFault /\ hidden' \subseteq hidden
    BY <1>0, <2>1, LeftAsideOK
  <2>2. CASE Step(p, "return", "recreate") /\ (NoFault \/ Fault(2)) /\ UNCHANGED hidden
    BY <1>0, <2>2, LeftAsideOK
  <2>3. QED
    BY <1>3, <2>1, <2>2 DEF RenameBack, directory
<1>4. CASE Recreate(p)
  <2>1. CASE Step(p, "recreate", "relink") /\ NoFault /\ hidden' = hidden \cup {Replica(p, Last(removed[p]))}
    BY <1>0, <2>1, LeftAsideOK
  <2>2. CASE Step(p, "recreate", "drop") /\ Fault(1) /\ UNCHANGED hidden
    BY <1>0, <2>2, LeftAsideOK
  <2>3. QED
    BY <1>4, <2>1, <2>2 DEF Recreate
<1>5. CASE Relink(p)
  <2>0. "relink" # "placed"
    OBVIOUS
  <2>1. PICK next \in {"finish", "abandon"} :
          Step(p, "relink", next) /\ (NoFault \/ Fault(1)) /\ UNCHANGED hidden
    BY <1>5 DEF Relink
  <2>2. ASSUME NEW f \in hidden', f.by = p
        PROVE  \/ f = Replica(p, Last(removed[p])) /\ next \in {"relink", "finish", "withdraw", "abandon"}
               \/ f \in hidden /\ (f = Replica(p, Last(removed[p])) => FALSE)
    BY <2>1, <2>2
  <2>3. QED
    BY <1>0, <2>0, <2>1, <2>2, LeftAsideOK
<1>6. CASE Finish(p)
  <2>1. CASE Step(p, "finish", "drop") /\ NoFault /\ hidden' = hidden \ {Replica(p, Last(removed[p]))}
    BY <1>0, <2>1, LeftAsideOK
  <2>2. CASE Step(p, "finish", "withdraw") /\ Fault(2) /\ UNCHANGED hidden
    <3>1. ~NoFault
      BY <2>2 DEF Fault, NoFault, TypeOK
    <3>2. QED
      BY <1>0, <2>2, <3>1, LeftAsideOK
  <2>3. QED
    BY <1>6, <2>1, <2>2 DEF Finish
<1>7. CASE Withdraw(p)
  <2>1. Step(p, "withdraw", "abandon") /\ (NoFault \/ Fault(2)) /\ UNCHANGED hidden
    BY <1>7 DEF Withdraw
  <2>2. ASSUME NEW f \in hidden', f.by = p
        PROVE  \/ f = Replica(p, Last(removed[p]))
               \/ f \in hidden /\ (f = Replica(p, Last(removed[p])) => FALSE)
    BY <2>1, <2>2
  <2>3. QED
    BY <1>0, <2>1, <2>2, LeftAsideOK
<1>8. CASE Abandon(p)
  <2>1. CASE Step(p, "abandon", "drop") /\ NoFault /\ hidden' = hidden \ {Replica(p, Last(removed[p]))}
    BY <1>0, <2>1, LeftAsideOK
  <2>2. CASE Step(p, "abandon", "drop") /\ Fault(2) /\ UNCHANGED hidden
    <3>1. ~NoFault
      BY <2>2 DEF Fault, NoFault, TypeOK
    <3>2. QED
      BY <1>0, <2>2, <3>1, LeftAsideOK
  <2>3. QED
    BY <1>8, <2>1, <2>2 DEF Abandon
<1>9. CASE Drop(p)
  <2>1. PICK rest : rest = Front(removed[p])
    OBVIOUS
  <2>2. PICK last : last = Last(removed[p])
    OBVIOUS
  <2>3. /\ pc[p] = "drop" /\ pc' = [pc EXCEPT ![p] = "restore"]
        /\ removed' = [removed EXCEPT ![p] = rest]
        /\ hidden' \subseteq hidden /\ (NoFault \/ Fault(2))
        /\ NoFault => \A f \in hidden' : ~(f \in Backups(p) /\ f.sample.at = last.at)
        /\ sample' = sample /\ crashes' = crashes
    BY <1>9, <2>1, <2>2 DEF Drop, Go, Fault, NoFault, TypeOK
  <2>4. removed[p] \in Seq(Sample) /\ removed[p] # <<>>
    BY <1>0, <2>3, AtWork DEF TypeOK
  <2>5. /\ Len(rest) = Len(removed[p]) - 1 /\ Len(removed[p]) \in Nat
        /\ \A i \in 1 .. Len(rest) : rest[i] = removed[p][i]
        /\ last = removed[p][Len(removed[p])]
    BY <2>1, <2>2, <2>4, LastEntry
  <2>6. ASSUME Sound, NoFault, NEW f \in hidden', f.by = p PROVE Attended(f)'
    <3>1. /\ f.kind = "backup"
          /\ \E i \in 1 .. Len(removed[p]) : removed[p][i].at = f.sample.at
      BY <1>0, <2>3, <2>6, OwnHidden
    <3>2. f.sample.at # last.at
      BY <2>3, <2>6, <3>1 DEF Backups
    <3>3. \E i \in 1 .. Len(rest) : rest[i].at = f.sample.at
      BY <2>5, <3>1, <3>2
    <3>4. pc'[p] = "restore" /\ removed'[p] = rest
      BY <2>3 DEF TypeOK
    <3>5. QED
      BY <1>0, <2>6, <3>1, <3>3, <3>4 DEF Attended
  <2>7. \A q \in Process \ {p} : pc'[q] = pc[q] /\ sample'[q] = sample[q] /\ removed'[q] = removed[q]
    BY <2>3 DEF TypeOK
  <2>8. Sound' => Sound /\ NoFault
    BY <2>3, SoundBefore
  <2>9. QED
    BY <2>3, <2>6, <2>7, <2>8, LeftOwnOK
<1>10. QED
  BY <1>1, <1>2, <1>3, <1>4, <1>5, <1>6, <1>7, <1>8, <1>9

\* Every step leaves every hidden file with a process that attends to it.
LEMMA LeftNext == IInv /\ LeftInv /\ [Next]_vars => LeftInv'
<1> SUFFICES ASSUME IInv, LeftInv, [Next]_vars PROVE LeftInv'
  OBVIOUS
<1>0. TypeOK /\ TypeOK'
  BY NextOK DEF IInv
<1>1. CASE UNCHANGED vars
  BY <1>1 DEF vars, LeftInv, Sound, Attended, Temporary, Placeholder, Replica
<1>2. CASE Next
  <2>1. PICK p \in Process : AppendNext(p) \/ ReadNext(p) \/ Crash(p)
    BY <1>2 DEF Next
  <2>2. CASE Crash(p)
    BY <1>0, <2>2 DEF Crash, LeftInv, Sound, TypeOK
  <2>3. CASE ReadNext(p) \/ (\E s \in Sample : Begin(p, s)) \/ LegacyLoad(p) \/ Load(p)
    BY <1>0, <2>3, LeftReading
  <2>4. CASE Create(p) \/ Link(p) \/ Unlink(p) \/ Unpublish(p) \/ Discard(p)
    BY <1>0, <2>4, LeftPublication
  <2>5. CASE Stage(p) \/ Unplace(p) \/ Rename(p) \/ Clear(p) \/ Sync(p)
    BY <1>0, <2>5, LeftPruning
  <2>6. CASE \/ Rollback(p) \/ Restore(p) \/ RenameBack(p) \/ Recreate(p) \/ Relink(p)
             \/ Finish(p) \/ Withdraw(p) \/ Abandon(p) \/ Drop(p)
    BY <1>0, <2>6, LeftRollback
  <2>7. QED
    BY <2>1, <2>2, <2>3, <2>4, <2>5, <2>6 DEF AppendNext
<1>3. QED
  BY <1>1, <1>2

\* While no process has died and at most one call has failed, no temporary, no
\* placeholder and no backup survives the commands that made them, for any
\* number of appends at once: the next command can read the history.
THEOREM NothingIsLeft == Spec => []NothingLeftBehind
<1>1. Init => LeftInv
  BY DEF Init, LeftInv
<1>2. IInv /\ LeftInv /\ [Next]_vars => LeftInv'
  BY LeftNext
<1>3. IInv /\ LeftInv => NothingLeftBehind
  <2> SUFFICES ASSUME TypeOK, LeftInv, Sound, Quiet, NEW f \in hidden PROVE FALSE
    BY DEF NothingLeftBehind, IInv
  <2>1. f.by \in Process /\ pc[f.by] = "idle"
    BY DEF TypeOK, Hidden, Quiet
  <2>2. QED
    BY <2>1, OwnHidden DEF PuttingAside, Restoring
<1>4. QED
  BY <1>1, <1>2, <1>3, Invariant, PTL DEF Spec

-----------------------------------------------------------------------------
(* A process that runs alone implements AtomicHistory.                     *)

\* The history as AtomicHistory sees it, before and after a step.
LEMMA SettledAlone ==
  ASSUME NEW p, Process = {p}
  PROVE  /\ Settled = IF pc[p] \in Writing THEN entries[p] ELSE stored
         /\ Settled' = IF pc'[p] \in Writing THEN entries'[p] ELSE stored'
<1>1. ASSUME \E q \in Process : pc[q] \in Writing
      PROVE  (CHOOSE q \in Process : pc[q] \in Writing) = p
  BY <1>1
<1>2. ASSUME \E q \in Process : pc'[q] \in Writing
      PROVE  (CHOOSE q \in Process : pc'[q] \in Writing) = p
  BY <1>2
<1>3. QED
  BY <1>1, <1>2 DEF Settled

\* The operators of AtomicHistory are those of HistoryBounds.
LEMMA SameBounds ==
  /\ Atomic!Sample = Sample
  /\ \A S : Atomic!Fits(S) = Fits(S) /\ Atomic!Kept(S) = Kept(S)
  /\ \A S, t : Atomic!Named(S, t) = Named(S, t)
  /\ \A S : Atomic!NamesDiffer(S) = NamesDiffer(S)
<1>1. ASSUME NEW S PROVE Atomic!Bytes(S) = Bytes(S)
  BY Zenon DEF Atomic!Bytes, Bytes, MapThenSumSet, Atomic!MapThenSumSet,
               MapThenFoldSet, Atomic!MapThenFoldSet
<1>2. ASSUME NEW S PROVE Atomic!Fits(S) = Fits(S)
  BY <1>1, Zenon DEF Atomic!Fits, Fits, Atomic!Cardinality, Cardinality
<1>3. ASSUME NEW S PROVE Atomic!Kept(S) = Kept(S)
  BY <1>2, Zenon DEF Atomic!Kept, Kept, Atomic!From, From
<1>4. QED
  BY <1>2, <1>3, Zenon DEF Atomic!Sample, Sample, Atomic!Named, Named,
                           Atomic!NamesDiffer, NamesDiffer

\* A step that leaves the history as it is, or makes it unsound for good.
LEMMA Stutters ==
  ASSUME Sound' => Sound /\ Settled' = Settled
  PROVE  [Atomic!Next]_<<Settled, Sound>>
BY Zenon DEF Atomic!Next, Sound

LEMMA KeptPart == \A S : Kept(S) \subseteq S
BY DEF Kept

\* The invariant speaks of the only process.
LEMMA AloneOK ==
  ASSUME NEW p, Process = {p}
  PROVE  /\ AloneInv /\ Sound => /\ pc[p] \in Writing => Acceptable(p)
                                 /\ pc[p] \in PuttingAside => AsideOK(p)
                                 /\ DirectoryOK(p)
         /\ (Sound' => /\ pc'[p] \in Writing => Acceptable(p)'
                       /\ pc'[p] \in PuttingAside => AsideOK(p)'
                       /\ DirectoryOK(p)') => AloneInv'
BY DEF AloneInv

\* The phases of an append.
LEMMA Phases ==
  /\ PuttingAside \subseteq Writing /\ Writing \subseteq Appending
  /\ {"create", "link", "unlink", "unpublish", "retract", "discard"} \subseteq Writing
  /\ {"stage", "placed", "rename", "clear", "sync", "rollback", "restore"} \subseteq PuttingAside
  /\ Restoring \subseteq PuttingAside
  /\ {"create", "link", "unlink", "unpublish", "retract", "discard"} \cap PuttingAside = {}
  /\ "idle" \notin Writing /\ "load" \notin Writing
BY DEF Writing, Appending, PCs, Reading, PuttingAside, Restoring

\* A step inside Append, without a fault or with the first one, changes what
\* is known of the directory only.
LEMMA AloneStepOK ==
  ASSUME NEW p, Process = {p}, TypeOK, AloneInv,
         NEW here \in Writing, NEW next \in Writing, Step(p, here, next),
         NEW n \in {1, 2}, NoFault \/ Fault(n),
         Sound /\ (NoFault \/ (n = 1 /\ faults = 0 /\ faults' = 1)) =>
           /\ next \in PuttingAside => /\ here \in PuttingAside \/ (removed[p] = <<>> /\ Backups(p) = {})
                                       /\ \A f \in Backups(p)' : f \in Backups(p)
           /\ DirectoryOK(p)'
  PROVE  AloneInv' /\ [Atomic!Next]_<<Settled, Sound>>
<1>1. /\ pc[p] = here /\ pc'[p] = next
      /\ UNCHANGED <<sample, listed, entries, prune, removed, crashes>>
  BY DEF Step, Go, call, TypeOK
<1>2. Sound' => Sound /\ (NoFault \/ (n = 1 /\ faults = 0 /\ faults' = 1))
  BY <1>1, SoundBefore DEF Fault
<1>3. Acceptable(p)' = Acceptable(p) /\ PutAside(p)' = PutAside(p) /\ Pruned(p)' = Pruned(p)
  BY <1>1 DEF Acceptable, Candidate, PutAside, Pruned
<1>4. ASSUME Sound, NoFault \/ (n = 1 /\ faults = 0 /\ faults' = 1), next \in PuttingAside
      PROVE  AsideOK(p)'
  <2>1. AsideOK(p)
    <3>1. CASE here \in PuttingAside
      BY <1>1, <1>4, <3>1, AloneOK
    <3>2. CASE removed[p] = <<>> /\ Backups(p) = {}
      BY <3>2 DEF AsideOK, PutAside
    <3>3. QED
      BY <1>4, <3>1, <3>2
  <2>2. \A f \in Backups(p)' : f \in Backups(p)
    BY <1>4
  <2>3. QED
    BY <1>1, <1>3, <2>1, <2>2 DEF AsideOK
<1>5. AloneInv'
  BY <1>1, <1>2, <1>3, <1>4, AloneOK
<1>6. Settled' = Settled
  BY <1>1, SettledAlone
<1>7. QED
  BY <1>2, <1>5, <1>6, Stutters

\* A command that returns, or has not begun to write, leaves the history as
\* the directory has it.
LEMMA AloneOutsideOK ==
  ASSUME NEW p, Process = {p}, pc'[p] \notin Writing, pc'[p] # "load" \/ listed'[p] = stored'
  PROVE  AloneInv'
<1>1. DirectoryOK(p)'
  BY Phases DEF DirectoryOK, Restoring
<1>2. QED
  BY <1>1, AloneOK, Phases

LEMMA AloneReturnOK ==
  ASSUME NEW p, Process = {p}, TypeOK, NEW a, Return(p, a), NEW n \in {1, 2}, NoFault \/ Fault(n),
         crashes' = crashes, UNCHANGED stored,
         Sound /\ (NoFault \/ n = 1) => Settled = stored
  PROVE  AloneInv' /\ [Atomic!Next]_<<Settled, Sound>>
<1>1. pc'[p] = "idle"
  BY DEF Return, Go, TypeOK
<1>2. AloneInv'
  BY <1>1, AloneOutsideOK, Phases
<1>3. Settled' = stored
  BY <1>1, SettledAlone, Phases
<1>4. Sound' => Sound /\ (NoFault \/ n = 1)
  BY SoundBefore
<1>5. QED
  BY <1>2, <1>3, <1>4, Stutters

\* The reading commands, and Append until it has selected what to prune: Load
\* begins with the history as it is, since nobody else changes it.
LEMMA AloneReading ==
  ASSUME NEW p, Process = {p}, TypeOK, WorkOK, LeftInv, AloneInv,
         ReadNext(p) \/ (\E s \in Sample : Begin(p, s)) \/ LegacyLoad(p) \/ Load(p)
  PROVE  AloneInv' /\ [Atomic!Next]_<<Settled, Sound>>
<1>1. UNCHANGED <<stored, hidden, faults, crashes>> /\ Sound' = Sound
  BY DEF ReadNext, List, LoadFails, BeginRead, ReadLoad, ReadLegacyLoad, Begin,
         LegacyLoad, Load, directory, Sound
<1>2. pc[p] \notin Writing /\ Settled = stored
  <2>1. pc[p] \notin Writing
    BY DEF ReadNext, List, LoadFails, BeginRead, ReadLoad, ReadLegacyLoad, Begin,
           LegacyLoad, Load, Listing, Writing, Appending, PCs, Reading
  <2>2. QED
    BY <2>1, SettledAlone
<1>3. CASE Load(p) /\ pc'[p] # "idle"
  <2>1. /\ pc[p] = "load" /\ pc'[p] = "create" /\ entries'[p] = listed[p] /\ sample' = sample
        /\ Named(listed[p], sample[p].at) = {} /\ sample[p] \in Kept(listed[p] \cup {sample[p]})
        /\ prune'[p] = (listed[p] \cup {sample[p]}) \ Kept(listed[p] \cup {sample[p]})
    BY <1>3 DEF Load, Return, Go, TypeOK
  <2>2. Sound => listed[p] = stored
    BY <2>1, AloneOK DEF DirectoryOK
  <2>3. Candidate(p)' = listed[p] \cup {sample[p]}
    BY <2>1 DEF Candidate
  <2>4. Sound => Acceptable(p)'
    BY <2>1, <2>2, <2>3 DEF Acceptable, TypeOK
  <2>5. Sound => DirectoryOK(p)'
    BY <1>1, <2>1, <2>2, <2>3 DEF DirectoryOK, Pruned, Restoring
  <2>6. pc'[p] \notin PuttingAside /\ pc'[p] \in Writing
    BY <2>1, Phases
  <2>7. AloneInv'
    BY <1>1, <2>4, <2>5, <2>6, AloneOK
  <2>8. Sound => Settled' = Settled
    BY <1>2, <2>1, <2>2, <2>6, SettledAlone
  <2>9. QED
    BY <1>1, <2>7, <2>8, Stutters
<1>4. CASE ~(Load(p) /\ pc'[p] # "idle")
  <2>1. pc'[p] \notin Writing /\ (pc'[p] = "load" => listed'[p] = stored)
    <3>1. CASE \E a : Return(p, a)
      BY <3>1, Phases DEF Return, Go, TypeOK
    <3>2. CASE ~\E a : Return(p, a)
      <4>1. CASE List(p)
        BY <3>2, <4>1 DEF List, Go, Listing, Loading, TypeOK, Writing, Appending, PCs, Reading
      <4>2. CASE Load(p)
        BY <1>4, <4>2, Phases
      <4>3. QED
        BY <3>2, <4>1, <4>2
           DEF ReadNext, LoadFails, BeginRead, ReadLoad, ReadLegacyLoad, Begin, Go,
               LegacyLoad, TypeOK, Writing, Appending, PCs, Reading
    <3>3. QED
      BY <3>1, <3>2
  <2>2. AloneInv'
    BY <1>1, <2>1, AloneOutsideOK
  <2>3. Settled' = Settled
    BY <1>1, <1>2, <2>1, SettledAlone
  <2>4. QED
    BY <1>1, <2>2, <2>3, Stutters
<1>5. QED
  BY <1>3, <1>4

\* What is known of the only process while it writes.
LEMMA AloneKnows ==
  ASSUME NEW p, Process = {p}, AloneInv, Sound, pc[p] \in Writing
  PROVE  /\ Acceptable(p) /\ DirectoryOK(p) /\ Settled = entries[p]
         /\ pc[p] \in PuttingAside => AsideOK(p)
BY AloneOK, SettledAlone

\* The sample is published, or the append leaves the history as it was.
LEMMA AlonePublication ==
  ASSUME NEW p, Process = {p}, TypeOK, WorkOK, LeftInv, AloneInv,
         Create(p) \/ Link(p) \/ Unlink(p) \/ Unpublish(p) \/ Discard(p)
  PROVE  AloneInv' /\ [Atomic!Next]_<<Settled, Sound>>
<1>1. pc[p] \in Writing /\ pc[p] \notin PuttingAside
  BY Phases DEF Create, Link, Unlink, Unpublish, Discard, Step
<1>2. ASSUME Sound
      PROVE  Acceptable(p) /\ DirectoryOK(p) /\ Settled = entries[p]
  BY <1>1, <1>2, AloneKnows
<1>3. removed[p] = <<>>
  BY <1>1 DEF WorkOK
<1>4. CASE \E n \in {1, 2} : \E a : /\ pc[p] \in {"create", "retract", "discard"} /\ Return(p, a)
                                    /\ (NoFault \/ Fault(n)) /\ UNCHANGED <<stored, crashes>>
  <2>1. Sound => Settled = stored
    BY <1>2, <1>4 DEF DirectoryOK
  <2>2. QED
    BY <1>4, <2>1, AloneReturnOK
<1>5. CASE Step(p, "create", "link") /\ NoFault /\ UNCHANGED stored
  <2>1. Sound => DirectoryOK(p)'
    BY <1>2, <1>5 DEF DirectoryOK, Step, Go, call, TypeOK, Pruned, Candidate, Restoring
  <2>2. QED
    BY <1>5, <2>1, AloneStepOK, Phases
<1>6. CASE Step(p, "link", "discard") /\ (NoFault \/ Fault(1)) /\ UNCHANGED stored
  <2>1. Sound => DirectoryOK(p)'
    BY <1>2, <1>6 DEF DirectoryOK, Step, Go, call, TypeOK, Pruned, Candidate, Restoring
  <2>2. QED
    BY <1>6, <2>1, AloneStepOK, Phases
<1>7. CASE /\ pc[p] = "link" /\ Go(p, "unlink")
           /\ stored' = stored \cup {sample[p]}
           /\ NoFault /\ UNCHANGED <<call, crashes>>
  <2>1. /\ pc'[p] = "unlink" /\ Sound' = Sound /\ Acceptable(p)' = Acceptable(p)
        /\ pc'[p] \notin PuttingAside /\ pc'[p] \in Writing /\ entries' = entries
    BY <1>7, Phases DEF Go, TypeOK, NoFault, Sound, Acceptable, Candidate, call
  <2>2. Sound => DirectoryOK(p)'
    BY <1>2, <1>7, <2>1 DEF DirectoryOK, call, Pruned, Candidate, Restoring
  <2>3. AloneInv'
    BY <1>2, <2>1, <2>2, AloneOK
  <2>4. Settled' = Settled
    BY <1>1, <2>1, SettledAlone
  <2>5. QED
    BY <2>1, <2>3, <2>4, Stutters
<1>8. CASE /\ Step(p, "unlink", "stage") /\ hidden' \subseteq hidden /\ NoFault /\ UNCHANGED stored
  <2>1. Sound => Backups(p) = {} /\ \A f \in Backups(p)' : f \in Backups(p)
    <3>1. ASSUME Sound PROVE Backups(p) = {}
      <4>1. pc[p] = "unlink"
        BY <1>8 DEF Step
      <4>2. QED
        BY <3>1, <4>1, OwnHidden DEF Backups, Temporary
    <3>2. QED
      BY <1>8, <3>1 DEF Backups
  <2>2. PutAside(p) = {} /\ PutAside(p)' = {}
    BY <1>3, <1>8 DEF PutAside, Step, call
  <2>3. Sound => DirectoryOK(p)'
    BY <1>2, <1>8, <2>2 DEF DirectoryOK, Step, Go, call, TypeOK, Pruned, Candidate, Restoring
  <2>4. QED
    BY <1>3, <1>8, <2>1, <2>3, AloneStepOK, Phases
<1>9. CASE Step(p, "unlink", "unpublish") /\ Fault(1) /\ UNCHANGED stored
  <2>1. Sound => DirectoryOK(p)'
    BY <1>2, <1>9 DEF DirectoryOK, Step, Go, call, TypeOK, Pruned, Candidate, Restoring
  <2>2. QED
    BY <1>9, <2>1, AloneStepOK, Phases
<1>10. CASE /\ Step(p, "unpublish", "retract")
            /\ \/ stored' = stored \ Named(stored, sample[p].at) /\ NoFault
               \/ UNCHANGED stored /\ Fault(2)
  <2>1. Sound /\ NoFault => DirectoryOK(p)'
    <3> SUFFICES ASSUME Sound, NoFault PROVE DirectoryOK(p)'
      OBVIOUS
    <3>1. stored' = stored \ Named(stored, sample[p].at)
      BY <1>10 DEF NoFault, Fault, TypeOK
    <3>2. stored = entries[p] \cup {sample[p]} /\ Named(entries[p], sample[p].at) = {}
      BY <1>2, <1>10 DEF DirectoryOK, Step, Candidate, Acceptable
    <3>3. stored' = entries[p]
      BY <3>1, <3>2 DEF Named
    <3>4. QED
      BY <1>10, <3>3 DEF DirectoryOK, Step, Go, call, TypeOK, Restoring
  <2>2. /\ NoFault \/ Fault(2)
        /\ "unpublish" \in Writing /\ "retract" \in Writing /\ "retract" \notin PuttingAside
    BY <1>10, Phases
  <2>3. Step(p, "unpublish", "retract")
    BY <1>10
  <2>4. QED
    BY <2>1, <2>2, <2>3, AloneStepOK
<1>11. CASE Step(p, "retract", "discard") /\ Fault(2) /\ UNCHANGED stored
  <2>1. Sound => DirectoryOK(p)'
    BY <1>2, <1>11 DEF DirectoryOK, Step, Go, call, TypeOK, Restoring
  <2>2. QED
    BY <1>11, <2>1, AloneStepOK, Phases
<1>12. QED
  BY <1>4, <1>5, <1>6, <1>7, <1>8, <1>9, <1>10, <1>11
     DEF Create, Link, Unlink, Unpublish, Discard, directory

\* The entries beyond the bounds are put aside; when the append is acknowledged
\* the history is what is kept of the old one and the new sample.
LEMMA AlonePruning ==
  ASSUME NEW p, Process = {p}, TypeOK, WorkOK, LeftInv, AloneInv,
         Stage(p) \/ Unplace(p) \/ Rename(p) \/ Clear(p) \/ Sync(p)
  PROVE  AloneInv' /\ [Atomic!Next]_<<Settled, Sound>>
<1>0. Candidate(p) \subseteq Sample /\ Kept(Candidate(p)) \subseteq Candidate(p)
      /\ removed[p] \in Seq(Sample)
  <2>1. sample[p] \in Sample
    BY DEF WorkOK, Stage, Unplace, Rename, Clear, Sync, Step, Appending, PCs, Reading
  <2>2. QED
    BY <2>1, KeptPart DEF Candidate, TypeOK
<1>1. pc[p] \in PuttingAside /\ pc[p] \in Writing
  BY Phases DEF Stage, Unplace, Rename, Clear, Sync, Step
<1>2. ASSUME Sound
      PROVE  Acceptable(p) /\ AsideOK(p) /\ DirectoryOK(p) /\ Settled = entries[p]
  BY <1>1, <1>2, AloneKnows
<1>3. \A f : Placeholder(p) # f \/ f.kind # "backup"
  BY DEF Placeholder
<1> DEFINE after(next) == /\ Candidate(p)' = Candidate(p) /\ Pruned(p)' = Pruned(p)
                          /\ PutAside(p)' = PutAside(p) /\ ButLast(p)' = ButLast(p)
                          /\ UNCHANGED <<entries, prune>> /\ pc'[p] = next
<1>4. ASSUME NEW here, NEW next, Step(p, here, next)
      PROVE  after(next) /\ pc[p] = here
  BY <1>4 DEF Step, Go, call, TypeOK, Candidate, Pruned, PutAside, ButLast
<1> HIDE DEF after
<1>5. CASE Stage(p)
  <2>1. CASE Step(p, "stage", "clear") /\ prune[p] = {} /\ NoFault /\ UNCHANGED directory
    <3>0. ASSUME Sound PROVE stored = Kept(Candidate(p)) /\ PutAside(p) = Pruned(p)
      <4>1. /\ stored = Candidate(p) \ PutAside(p) /\ Pruned(p) \ PutAside(p) = {}
            /\ PutAside(p) \subseteq Pruned(p)
        BY <1>2, <2>1, <3>0 DEF DirectoryOK, AsideOK, Step
      <4>2. PutAside(p) = Pruned(p)
        BY <4>1
      <4>3. QED
        BY <1>0, <4>1, <4>2 DEF Pruned
    <3>1. ASSUME Sound PROVE DirectoryOK(p)'
      <4>1. Kept(Candidate(p)') = Kept(Candidate(p)) /\ stored' = stored
        BY <1>4, <2>1 DEF after, directory
      <4>2. QED
        BY <1>4, <2>1, <3>0, <3>1, <4>1 DEF DirectoryOK, after, Restoring
    <3>2. QED
      BY <2>1, <3>1, AloneStepOK, Phases DEF directory, Backups
  <2>2. CASE Step(p, "stage", "placed") /\ hidden' = hidden \cup {Placeholder(p)} /\ NoFault /\ UNCHANGED stored
    <3>1. Sound => DirectoryOK(p)'
      BY <1>2, <1>4, <2>2 DEF DirectoryOK, after, Restoring
    <3>2. \A f \in Backups(p)' : f \in Backups(p)
      BY <1>3, <2>2 DEF Backups
    <3>3. QED
      BY <2>2, <3>1, <3>2, AloneStepOK, Phases
  <2>3. CASE Step(p, "stage", "rollback") /\ Fault(1) /\ UNCHANGED directory
    <3>1. Sound /\ faults' = 1 => DirectoryOK(p)'
      BY <1>2, <1>4, <2>3 DEF DirectoryOK, after, directory, Restoring
    <3>2. ~NoFault
      BY <2>3 DEF Fault, NoFault, TypeOK
    <3>3. QED
      BY <2>3, <3>1, <3>2, AloneStepOK, Phases DEF directory, Backups
  <2>4. QED
    BY <1>5, <2>1, <2>2, <2>3 DEF Stage
<1>6. CASE Unplace(p)
  <2>1. CASE Step(p, "placed", "rename") /\ hidden' \subseteq hidden /\ NoFault /\ UNCHANGED stored
    <3>1. Sound => DirectoryOK(p)'
      BY <1>2, <1>4, <2>1 DEF DirectoryOK, after, Restoring
    <3>2. QED
      BY <2>1, <3>1, AloneStepOK, Phases DEF Backups
  <2>2. CASE Step(p, "placed", "rollback") /\ hidden' \subseteq hidden /\ UNCHANGED stored
             /\ (Fault(1) \/ Fault(2))
    <3>1. Sound /\ faults' = 1 => DirectoryOK(p)'
      BY <1>2, <1>4, <2>2 DEF DirectoryOK, after, Restoring
    <3>2. ~NoFault
      BY <2>2 DEF Fault, NoFault, TypeOK
    <3>3. QED
      BY <2>2, <3>1, <3>2, AloneStepOK, Phases DEF Backups
  <2>3. QED
    BY <1>6, <2>1, <2>2 DEF Unplace
<1>7. CASE Clear(p)
  <2>1. CASE Step(p, "clear", "clear") /\ hidden' \subseteq hidden /\ NoFault /\ UNCHANGED stored
    <3>1. Sound => DirectoryOK(p)'
      BY <1>2, <1>4, <2>1 DEF DirectoryOK, after, Restoring
    <3>2. QED
      BY <2>1, <3>1, AloneStepOK, Phases DEF Backups
  <2>2. CASE Step(p, "clear", "sync") /\ UNCHANGED hidden /\ NoFault /\ UNCHANGED stored
    <3>1. Sound => DirectoryOK(p)'
      BY <1>2, <1>4, <2>2 DEF DirectoryOK, after, Restoring
    <3>2. QED
      BY <2>2, <3>1, AloneStepOK, Phases DEF Backups
  <2>3. CASE Step(p, "clear", "rollback") /\ UNCHANGED hidden /\ Fault(1) /\ UNCHANGED stored
    <3>1. Sound /\ faults' = 1 => DirectoryOK(p)'
      BY <1>0, <1>2, <1>4, <2>3 DEF DirectoryOK, after, Pruned, Restoring
    <3>2. ~NoFault
      BY <2>3 DEF Fault, NoFault, TypeOK
    <3>3. QED
      BY <2>3, <3>1, <3>2, AloneStepOK, Phases DEF Backups
  <2>4. QED
    BY <1>7, <2>1, <2>2, <2>3 DEF Clear
<1>8. CASE Sync(p)
  <2>1. CASE Step(p, "sync", "rollback") /\ Fault(1) /\ UNCHANGED directory
    <3>1. Sound /\ faults' = 1 => DirectoryOK(p)'
      BY <1>0, <1>2, <1>4, <2>1 DEF DirectoryOK, after, Pruned, directory, Restoring
    <3>2. ~NoFault
      BY <2>1 DEF Fault, NoFault, TypeOK
    <3>3. QED
      BY <2>1, <3>1, <3>2, AloneStepOK, Phases DEF directory, Backups
  <2>2. CASE pc[p] = "sync" /\ Return(p, "ok") /\ NoFault /\ UNCHANGED <<directory, crashes>>
    <3>1. pc'[p] = "idle" /\ stored' = stored /\ Sound' = Sound
      BY <2>2 DEF Return, Go, TypeOK, directory, NoFault, Sound
    <3>2. AloneInv'
      BY <3>1, AloneOutsideOK, Phases
    <3>3. CASE ~Sound
      BY <3>1, <3>2, <3>3, Stutters
    <3>4. CASE Sound
      <4>1. /\ Settled = entries[p] /\ Settled' = stored
            /\ Named(entries[p], sample[p].at) = {}
            /\ sample[p] \in Kept(entries[p] \cup {sample[p]})
            /\ stored = Kept(entries[p] \cup {sample[p]})
            /\ sample[p] \in Sample
        BY <1>0, <1>2, <2>2, <3>1, <3>4, SettledAlone, Phases
           DEF DirectoryOK, Acceptable, Candidate
      <4>2. Atomic!AppendSample(sample[p])
        BY <4>1, SameBounds, Zenon DEF Atomic!AppendSample
      <4>3. Atomic!Next
        BY <3>1, <3>4, <4>1, <4>2, SameBounds, Zenon DEF Atomic!Next, Sound
      <4>4. QED
        BY <3>2, <4>3
    <3>5. QED
      BY <3>3, <3>4
  <2>3. QED
    BY <1>8, <2>1, <2>2 DEF Sync
<1>9. CASE Rename(p)
  <2>1. CASE Step(p, "rename", "rollback") /\ UNCHANGED directory
             /\ (((\E e \in prune[p] : Named(stored, e.at) = {}) /\ NoFault) \/ Fault(1))
    <3>1. Sound => Fault(1)
      <4> SUFFICES ASSUME Sound, NEW e \in prune[p], Named(stored, e.at) = {} PROVE FALSE
        BY <2>1
      <4>1. e \in stored
        BY <1>2, <1>4, <2>1 DEF DirectoryOK, Pruned
      <4>2. QED
        BY <4>1 DEF Named
    <3>2. Sound /\ faults' = 1 => DirectoryOK(p)'
      BY <1>2, <1>4, <2>1 DEF DirectoryOK, after, directory, Restoring
    <3>3. Sound => ~NoFault
      BY <3>1 DEF Fault, NoFault, TypeOK
    <3>4. NoFault \/ Fault(1)
      BY <2>1
    <3>5. \A f \in Backups(p)' : f \in Backups(p)
      BY <2>1 DEF directory, Backups
    <3>6. /\ "rename" \in Writing /\ "rollback" \in Writing
          /\ "rename" \in PuttingAside /\ Step(p, "rename", "rollback")
      BY <2>1, Phases
    <3>7. QED
      BY <3>2, <3>3, <3>4, <3>5, <3>6, AloneStepOK
  <2>2. CASE \E e \in prune[p], f \in stored :
               /\ pc[p] = "rename" /\ f.at = e.at
               /\ stored'  = stored \ {f}
               /\ hidden'  = hidden \cup {Backup(p, f)}
               /\ prune'   = [prune EXCEPT ![p] = prune[p] \ {e}]
               /\ removed' = [removed EXCEPT ![p] = Append(removed[p], e)]
               /\ Go(p, "stage")
               /\ NoFault /\ UNCHANGED <<sample, entries, crashes>>
    <3>1. PICK e \in prune[p], f \in stored :
               /\ pc[p] = "rename" /\ f.at = e.at
               /\ stored'  = stored \ {f}
               /\ hidden'  = hidden \cup {Backup(p, f)}
               /\ prune'   = [prune EXCEPT ![p] = prune[p] \ {e}]
               /\ removed' = [removed EXCEPT ![p] = Append(removed[p], e)]
               /\ Go(p, "stage")
               /\ NoFault /\ UNCHANGED <<sample, entries, crashes>>
      BY <2>2
    <3>2. /\ pc'[p] = "stage" /\ Sound' = Sound
          /\ prune'[p] = prune[p] \ {e} /\ removed'[p] = Append(removed[p], e)
          /\ Candidate(p)' = Candidate(p) /\ Pruned(p)' = Pruned(p)
          /\ Acceptable(p)' = Acceptable(p)
      BY <3>1 DEF Go, TypeOK, NoFault, Sound, Candidate, Pruned, Acceptable
    <3>3. e \in Sample
      BY DEF TypeOK
    <3>4. /\ Len(removed'[p]) = Len(removed[p]) + 1 /\ Len(removed[p]) \in Nat
          /\ removed'[p][Len(removed[p]) + 1] = e
          /\ \A i \in 1 .. Len(removed[p]) : removed'[p][i] = removed[p][i]
      BY <1>0, <3>2, <3>3
    <3>5. PutAside(p)' = PutAside(p) \cup {e}
      BY <3>4 DEF PutAside
    <3>6. ASSUME Sound
          PROVE  /\ stored = Candidate(p) \ PutAside(p) /\ prune[p] = Pruned(p) \ PutAside(p)
                 /\ e = f
      <4>1. stored = Candidate(p) \ PutAside(p) /\ prune[p] = Pruned(p) \ PutAside(p)
        BY <1>2, <3>1, <3>6 DEF DirectoryOK
      <4>2. e \in stored
        BY <4>1 DEF Pruned
      <4>3. QED
        BY <3>1, <4>1, <4>2 DEF TypeOK, NamesDiffer
    <3>7. ASSUME Sound PROVE AsideOK(p)'
      <4>1. AsideOK(p) /\ e \in Pruned(p) /\ e \notin PutAside(p)
        BY <1>2, <3>6, <3>7
      <4>2. PutAside(p)' \subseteq Pruned(p)'
        BY <3>2, <3>5, <4>1 DEF AsideOK
      <4>3. \A i \in 1 .. Len(removed[p]) : removed[p][i] # e
        BY <4>1 DEF PutAside
      <4>4. \A i, j \in 1 .. Len(removed'[p]) : removed'[p][i] = removed'[p][j] => i = j
        <5> SUFFICES ASSUME NEW i \in 1 .. Len(removed'[p]), NEW j \in 1 .. Len(removed'[p]),
                            removed'[p][i] = removed'[p][j]
                     PROVE  i = j
          OBVIOUS
        <5>1. i \in 1 .. Len(removed[p]) \/ i = Len(removed[p]) + 1
          BY <3>4
        <5>2. j \in 1 .. Len(removed[p]) \/ j = Len(removed[p]) + 1
          BY <3>4
        <5>3. QED
          BY <3>4, <4>1, <4>3, <5>1, <5>2 DEF AsideOK
      <4>5. \A g \in Backups(p)' : g.sample \in PutAside(p)'
        BY <3>1, <3>5, <3>6, <3>7, <4>1 DEF AsideOK, Backups, Backup
      <4>6. QED
        BY <4>2, <4>4, <4>5 DEF AsideOK
    <3>8. Sound => DirectoryOK(p)'
      BY <3>1, <3>2, <3>5, <3>6 DEF DirectoryOK, Restoring
    <3>9. pc'[p] \in Writing /\ Settled' = Settled
      BY <1>1, <3>1, <3>2, SettledAlone, Phases
    <3>10. AloneInv'
      BY <1>2, <3>2, <3>7, <3>8, AloneOK
    <3>11. QED
      BY <3>2, <3>9, <3>10, Stutters
  <2>3. QED
    BY <1>9, <2>1, <2>2 DEF Rename
<1>10. QED
  BY <1>5, <1>6, <1>7, <1>8, <1>9

\* A failed append takes its sample back and restores what it has put aside,
\* one entry at a time, the last one first.
LEMMA AloneRollback ==
  ASSUME NEW p, Process = {p}, TypeOK, WorkOK, LeftInv, AloneInv,
         \/ Rollback(p) \/ Restore(p) \/ RenameBack(p) \/ Recreate(p) \/ Relink(p)
         \/ Finish(p) \/ Withdraw(p) \/ Abandon(p) \/ Drop(p)
  PROVE  AloneInv' /\ [Atomic!Next]_<<Settled, Sound>>
<1>0. /\ pc[p] \in PuttingAside /\ pc[p] \in Writing /\ removed[p] \in Seq(Sample)
      /\ Sound => pc[p] = "rollback" \/ pc[p] = "restore" \/ pc[p] \in Restoring
  BY Phases DEF Rollback, Restore, RenameBack, Recreate, Relink, Finish, Withdraw,
                Abandon, Drop, Step, Restoring, TypeOK
<1>1. ASSUME Sound
      PROVE  /\ Acceptable(p) /\ AsideOK(p) /\ DirectoryOK(p) /\ Settled = entries[p]
             /\ faults = 1
  BY <1>0, <1>1, AloneKnows DEF DirectoryOK
\* A second fault lets the promise lapse.
<1>2. ASSUME Sound, Sound', NEW n \in {1, 2}, Fault(n) PROVE FALSE
  BY <1>1, <1>2 DEF Fault, Sound
<1>3. ASSUME Sound
      PROVE  /\ sample[p] \notin entries[p] /\ PutAside(p) \subseteq entries[p]
             /\ NamesDiffer(entries[p])
  BY <1>1, <1>3 DEF Acceptable, AsideOK, Pruned, Candidate, Named
\* The entry that is restored.
<1>4. ASSUME Sound, removed[p] # <<>>
      PROVE  /\ Last(removed[p]) \in PutAside(p)
             /\ PutAside(p) = ButLast(p) \cup {Last(removed[p])}
             /\ Last(removed[p]) \notin ButLast(p)
  <2>1. /\ Len(removed[p]) \in Nat /\ Len(removed[p]) >= 1
        /\ Last(removed[p]) = removed[p][Len(removed[p])]
    BY <1>0, <1>4, LastEntry
  <2>2. \A i \in 1 .. Len(removed[p]) : i = Len(removed[p]) \/ i \in 1 .. Len(removed[p]) - 1
    BY <2>1
  <2>3. PutAside(p) = ButLast(p) \cup {Last(removed[p])}
    BY <2>1, <2>2 DEF PutAside, ButLast
  <2>4. Last(removed[p]) \notin ButLast(p)
    BY <1>1, <1>4, <2>1 DEF AsideOK, ButLast
  <2>5. QED
    BY <2>3, <2>4
<1> DEFINE after(next) == /\ Candidate(p)' = Candidate(p) /\ Pruned(p)' = Pruned(p)
                          /\ PutAside(p)' = PutAside(p) /\ ButLast(p)' = ButLast(p)
                          /\ UNCHANGED <<entries, prune, removed>> /\ pc'[p] = next
<1>5. ASSUME NEW here, NEW next, Step(p, here, next)
      PROVE  after(next) /\ pc[p] = here /\ crashes' = crashes
  BY <1>5 DEF Step, Go, call, TypeOK, Candidate, Pruned, PutAside, ButLast
<1> HIDE DEF after
\* A step of the rollback that is not the last one.
<1>6. ASSUME NEW here \in PuttingAside, NEW next \in PuttingAside, Step(p, here, next),
             NEW n \in {1, 2}, NoFault \/ Fault(n), \A f \in Backups(p)' : f \in Backups(p),
             Sound /\ NoFault => DirectoryOK(p)'
      PROVE  AloneInv' /\ [Atomic!Next]_<<Settled, Sound>>
  <2>1. Sound => (~(n = 1 /\ faults = 0 /\ faults' = 1))
    BY <1>1
  <2>2. here \in Writing /\ next \in Writing
    BY <1>6, Phases
  <2>3. QED
    BY <1>6, <2>1, <2>2, AloneStepOK
<1>7. CASE Rollback(p)
  <2>1. ASSUME Sound, NoFault PROVE DirectoryOK(p)'
    <3>1. stored = Candidate(p) \ PutAside(p) /\ stored' = stored \ Named(stored, sample[p].at)
      BY <1>1, <1>7, <2>1 DEF Rollback, Step, DirectoryOK, Fault, NoFault, TypeOK
    <3>2. stored' = entries[p] \ PutAside(p)
      BY <1>1, <1>3, <2>1, <3>1 DEF Candidate, Acceptable, AsideOK, Pruned, Named
    <3>3. after("restore") /\ faults' = 1
      BY <1>1, <1>5, <1>7, <2>1 DEF Rollback, NoFault
    <3>4. QED
      BY <3>2, <3>3 DEF DirectoryOK, after, Restoring
  <2>2. Step(p, "rollback", "restore") /\ (NoFault \/ Fault(2)) /\ UNCHANGED hidden
    BY <1>7 DEF Rollback
  <2>3. QED
    BY <1>6, <2>1, <2>2, Phases DEF Backups
<1>8. CASE Restore(p)
  <2>1. CASE /\ pc[p] = "restore" /\ removed[p] = <<>> /\ Return(p, "error")
             /\ NoFault /\ UNCHANGED <<directory, crashes>>
    <3>1. PutAside(p) = {}
      BY <2>1 DEF PutAside
    <3>2. Sound => Settled = stored
      BY <1>1, <2>1, <3>1 DEF DirectoryOK
    <3>3. QED
      BY <2>1, <3>2, AloneReturnOK DEF directory
  <2>2. CASE /\ removed[p] # <<>> /\ NoFault /\ UNCHANGED directory
             /\ Step(p, "restore", IF Named(stored, Last(removed[p]).at) = {} THEN "return" ELSE "drop")
    <3>1. CASE Named(stored, Last(removed[p]).at) = {}
      <4>1. Step(p, "restore", "return")
        BY <2>2, <3>1
      <4>2. Sound => DirectoryOK(p)'
        BY <1>1, <1>5, <2>2, <4>1 DEF DirectoryOK, after, directory, NoFault, Restoring
      <4>3. QED
        BY <1>6, <2>2, <4>1, <4>2, Phases DEF directory, Backups, Restoring
    <3>2. CASE Named(stored, Last(removed[p]).at) # {}
      <4>1. Step(p, "restore", "drop")
        BY <2>2, <3>2
      <4>2. ASSUME Sound PROVE FALSE
        <5>1. stored = entries[p] \ PutAside(p)
          BY <1>1, <1>5, <4>1, <4>2 DEF DirectoryOK
        <5>2. QED
          BY <1>3, <1>4, <2>2, <3>2, <4>2, <5>1 DEF Named, NamesDiffer
      <4>3. QED
        BY <1>6, <2>2, <4>1, <4>2, Phases DEF directory, Backups, Restoring
    <3>3. QED
      BY <3>1, <3>2
  <2>3. CASE Step(p, "restore", "drop") /\ Fault(1) /\ UNCHANGED directory
    <3>1. ~NoFault
      BY <2>3 DEF Fault, NoFault, TypeOK
    <3>2. QED
      BY <1>6, <2>3, <3>1, Phases DEF directory, Backups, Restoring
  <2>4. QED
    BY <1>8, <2>1, <2>2, <2>3 DEF Restore
<1>9. CASE RenameBack(p)
  <2>0. PICK b : b = Last(removed[p])
    OBVIOUS
  <2>1. pc[p] = "return" /\ removed[p] # <<>>
    BY <1>9 DEF RenameBack, WorkOK, Restoring
  <2>2. CASE \E f \in Backups(p) :
               /\ f.sample.at = b.at /\ Step(p, "return", "drop")
               /\ stored' = (stored \ Named(stored, b.at)) \cup {f.sample}
               /\ hidden' = hidden \ {f} /\ NoFault
    <3>1. PICK f \in Backups(p) :
               /\ f.sample.at = b.at /\ Step(p, "return", "drop")
               /\ stored' = (stored \ Named(stored, b.at)) \cup {f.sample}
               /\ hidden' = hidden \ {f} /\ NoFault
      BY <2>2
    <3>2. ASSUME Sound PROVE DirectoryOK(p)'
      <4>1. stored = entries[p] \ PutAside(p) /\ f.sample \in PutAside(p)
        BY <1>1, <2>1, <3>2 DEF DirectoryOK, AsideOK
      <4>2. /\ b \in PutAside(p) /\ PutAside(p) = ButLast(p) \cup {b} /\ b \notin ButLast(p)
        BY <1>4, <2>0, <2>1, <3>2
      <4>3. f.sample = b
        BY <1>3, <3>1, <3>2, <4>1, <4>2 DEF NamesDiffer
      <4>4. Named(stored, b.at) = {}
        BY <1>3, <3>2, <4>1, <4>2 DEF Named, NamesDiffer
      <4>5. stored' = entries[p] \ ButLast(p)
        BY <1>3, <3>1, <3>2, <4>1, <4>2, <4>3, <4>4
      <4>6. after("drop") /\ faults' = 1
        BY <1>1, <1>5, <3>1, <3>2 DEF NoFault
      <4>7. QED
        BY <4>5, <4>6 DEF DirectoryOK, after, Restoring
    <3>3. \A g \in Backups(p)' : g \in Backups(p)
      BY <3>1 DEF Backups
    <3>4. QED
      BY <1>6, <3>1, <3>2, <3>3, Phases DEF Restoring
  <2>3. CASE Step(p, "return", "recreate") /\ (NoFault \/ Fault(2)) /\ UNCHANGED directory
    <3>1. Sound /\ NoFault => DirectoryOK(p)'
      BY <1>1, <1>5, <2>3 DEF DirectoryOK, after, directory, NoFault, Restoring
    <3>2. QED
      BY <1>6, <2>3, <3>1, Phases DEF directory, Backups, Restoring
  <2>4. QED
    BY <1>9, <2>0, <2>2, <2>3 DEF RenameBack
<1>10. CASE Recreate(p)
  <2>1. CASE Step(p, "recreate", "relink") /\ NoFault /\ UNCHANGED stored
             /\ hidden' = hidden \cup {Replica(p, Last(removed[p]))}
    <3>1. Sound => DirectoryOK(p)'
      BY <1>1, <1>5, <2>1 DEF DirectoryOK, after, NoFault, Restoring
    <3>2. \A f \in Backups(p)' : f \in Backups(p)
      BY <2>1 DEF Backups, Replica
    <3>3. QED
      BY <1>6, <2>1, <3>1, <3>2, Phases DEF Restoring
  <2>2. CASE Step(p, "recreate", "drop") /\ Fault(1) /\ UNCHANGED hidden
    <3>1. ~NoFault
      BY <2>2 DEF Fault, NoFault, TypeOK
    <3>2. QED
      BY <1>6, <2>2, <3>1, Phases DEF Backups, Restoring
  <2>3. QED
    BY <1>10, <2>1, <2>2 DEF Recreate
<1>11. CASE Relink(p)
  <2>0. PICK b : b = Last(removed[p])
    OBVIOUS
  <2>1. pc[p] = "relink" /\ removed[p] # <<>>
    BY <1>11 DEF Relink, Step, WorkOK, Restoring
  <2>2. ASSUME Sound
        PROVE  /\ stored = entries[p] \ PutAside(p)
               /\ b \in PutAside(p) /\ PutAside(p) = ButLast(p) \cup {b} /\ b \notin ButLast(p)
               /\ Named(stored, b.at) = {}
    <3>1. stored = entries[p] \ PutAside(p)
      BY <1>1, <2>1, <2>2 DEF DirectoryOK
    <3>2. b \in PutAside(p) /\ PutAside(p) = ButLast(p) \cup {b} /\ b \notin ButLast(p)
      BY <1>4, <2>0, <2>1, <2>2
    <3>3. QED
      BY <1>3, <2>2, <3>1, <3>2 DEF Named, NamesDiffer
  <2>3. CASE Step(p, "relink", "finish") /\ stored' = stored \cup {b} /\ NoFault /\ UNCHANGED hidden
    <3>1. ASSUME Sound PROVE DirectoryOK(p)'
      <4>1. stored' = entries[p] \ ButLast(p)
        BY <1>3, <2>2, <2>3, <3>1
      <4>2. after("finish") /\ faults' = 1
        BY <1>1, <1>5, <2>3, <3>1 DEF NoFault
      <4>3. QED
        BY <4>1, <4>2 DEF DirectoryOK, after, Restoring
    <3>2. QED
      BY <1>6, <2>3, <3>1, Phases DEF Backups, Restoring
  <2>4. CASE /\ Step(p, "relink", "abandon") /\ UNCHANGED directory
             /\ (Named(stored, b.at) # {} /\ NoFault) \/ Fault(1)
    <3>1. Sound => ~NoFault
      BY <2>2, <2>4 DEF Fault, NoFault, TypeOK
    <3>2. NoFault \/ Fault(1)
      BY <2>4
    <3>3. Step(p, "relink", "abandon") /\ "relink" \in PuttingAside /\ "abandon" \in PuttingAside
      BY <2>4, Phases DEF Restoring
    <3>4. \A f \in Backups(p)' : f \in Backups(p)
      BY <2>4 DEF directory, Backups
    <3>5. QED
      BY <1>6, <3>1, <3>2, <3>3, <3>4
  <2>5. QED
    BY <1>11, <2>0, <2>3, <2>4 DEF Relink, directory
<1>12. CASE Finish(p)
  <2>1. CASE Step(p, "finish", "drop") /\ hidden' \subseteq hidden /\ NoFault /\ UNCHANGED stored
    <3>1. Sound => DirectoryOK(p)'
      BY <1>1, <1>5, <2>1 DEF DirectoryOK, after, NoFault, Restoring
    <3>2. QED
      BY <1>6, <2>1, <3>1, Phases DEF Backups, Restoring
  <2>2. CASE Step(p, "finish", "withdraw") /\ UNCHANGED hidden /\ Fault(2)
    <3>1. ~NoFault
      BY <2>2 DEF Fault, NoFault, TypeOK
    <3>2. QED
      BY <1>6, <2>2, <3>1, Phases DEF Backups, Restoring
  <2>3. QED
    BY <1>12, <2>1, <2>2 DEF Finish
<1>13. CASE Withdraw(p) \/ Abandon(p)
  <2>1. ~Sound
    BY <1>1, <1>13 DEF Withdraw, Abandon, Step, DirectoryOK
  <2>2. PICK next \in PuttingAside, here \in PuttingAside : Step(p, here, next)
    BY <1>13, Phases DEF Withdraw, Abandon, Restoring
  <2>3. (NoFault \/ Fault(2)) /\ \A f \in Backups(p)' : f \in Backups(p)
    BY <1>13 DEF Withdraw, Abandon, Backups
  <2>4. QED
    BY <1>6, <2>1, <2>2, <2>3
<1>14. CASE Drop(p)
  <2>1. PICK rest : rest = Front(removed[p])
    OBVIOUS
  <2>2. /\ pc[p] = "drop" /\ removed[p] # <<>> /\ pc'[p] = "restore" /\ removed'[p] = rest
        /\ hidden' \subseteq hidden /\ (NoFault \/ Fault(2))
        /\ UNCHANGED <<stored, sample, entries, crashes>>
    BY <1>14, <2>1 DEF Drop, Go, TypeOK, WorkOK, Restoring
  <2>3. /\ Len(rest) = Len(removed[p]) - 1 /\ Len(removed[p]) \in Nat
        /\ \A i \in 1 .. Len(rest) : i \in 1 .. Len(removed[p]) /\ rest[i] = removed[p][i]
    BY <1>0, <2>1, <2>2, LastEntry
  <2>4. PutAside(p)' = ButLast(p)
    BY <2>2, <2>3 DEF PutAside, ButLast
  <2>5. Candidate(p)' = Candidate(p) /\ Pruned(p)' = Pruned(p) /\ Acceptable(p)' = Acceptable(p)
    BY <2>2 DEF Candidate, Pruned, Acceptable
  <2>6. ASSUME Sound, NoFault PROVE DirectoryOK(p)'
    <3>1. stored = entries[p] \ ButLast(p) /\ faults' = 1
      BY <1>1, <2>2, <2>6 DEF DirectoryOK, NoFault
    <3>2. QED
      BY <2>2, <2>4, <3>1 DEF DirectoryOK, Restoring
  <2>7. ASSUME Sound, NoFault PROVE AsideOK(p)'
    <3>1. AsideOK(p)
      BY <1>1, <2>7
    <3>2. PutAside(p)' \subseteq Pruned(p)'
      BY <1>4, <2>2, <2>4, <2>5, <2>7, <3>1 DEF AsideOK
    <3>3. \A i, j \in 1 .. Len(removed'[p]) : removed'[p][i] = removed'[p][j] => i = j
      BY <2>2, <2>3, <3>1 DEF AsideOK
    <3>4. ASSUME NEW f \in Backups(p)' PROVE f.sample \in PutAside(p)'
      <4>1. hidden' = hidden \ {g \in Backups(p) : g.sample.at = Last(removed[p]).at}
        BY <1>14, <2>7 DEF Drop, Fault, NoFault, TypeOK
      <4>2. f \in Backups(p) /\ f.sample.at # Last(removed[p]).at
        BY <3>4, <4>1 DEF Backups
      <4>3. f.sample \in PutAside(p) /\ f.sample # Last(removed[p])
        BY <3>1, <4>2 DEF AsideOK
      <4>4. QED
        BY <1>4, <2>2, <2>4, <2>7, <4>3
    <3>5. QED
      BY <3>2, <3>3, <3>4 DEF AsideOK
  <2>8. Sound' => Sound /\ NoFault
    BY <2>2, SoundBefore
  <2>9. pc'[p] \in Writing /\ Settled' = Settled
    BY <1>0, <2>2, SettledAlone, Phases
  <2>10. AloneInv'
    BY <1>1, <2>5, <2>6, <2>7, <2>8, AloneOK
  <2>11. QED
    BY <2>8, <2>9, <2>10, Stutters
<1>15. QED
  BY <1>7, <1>8, <1>9, <1>10, <1>11, <1>12, <1>13, <1>14

\* The first state is a history AtomicHistory may begin with.
LEMMA AloneInit ==
  ASSUME NEW p, Process = {p}, Init
  PROVE  AloneInv /\ Atomic!Init
<1>1. pc[p] = "idle" /\ Settled = stored
  BY SettledAlone, Phases DEF Init
<1>2. DirectoryOK(p)
  BY <1>1 DEF DirectoryOK, Restoring
<1>3. AloneInv
  BY <1>1, <1>2, Phases DEF AloneInv
<1>4. Sound = TRUE
  BY HistoryAssumption DEF Init, Sound
<1>5. stored \subseteq Sample /\ Fits(stored) /\ NamesDiffer(stored)
  BY DEF Init
<1>6. QED
  BY <1>1, <1>3, <1>4, <1>5, SameBounds, Zenon DEF Atomic!Init

\* Every step of a process that runs alone is a step of AtomicHistory, or none.
LEMMA AloneNext ==
  ASSUME NEW p, Process = {p}, IInv, LeftInv, AloneInv, [Next]_vars
  PROVE  AloneInv' /\ [Atomic!Next]_<<Settled, Sound>>
<1>0. TypeOK /\ WorkOK
  BY DEF IInv
<1>1. CASE UNCHANGED vars
  <2>1. Settled' = Settled /\ Sound' = Sound
    BY <1>1, SettledAlone DEF vars, Sound
  <2>2. Acceptable(p)' = Acceptable(p)
    BY <1>1 DEF vars, Acceptable, Candidate
  <2>3. AsideOK(p)' = AsideOK(p)
    BY <1>1 DEF vars, AsideOK, PutAside, Pruned, Candidate, Backups
  <2>4. DirectoryOK(p)' = DirectoryOK(p)
    BY <1>1 DEF vars, DirectoryOK, PutAside, ButLast, Pruned, Candidate
  <2>5. AloneInv'
    BY <1>1, <2>1, <2>2, <2>3, <2>4, AloneOK DEF vars
  <2>6. QED
    BY <2>1, <2>5
<1>2. CASE Next
  <2>1. AppendNext(p) \/ ReadNext(p) \/ Crash(p)
    BY <1>2 DEF Next
  <2>2. CASE Crash(p)
    <3>1. ~Sound'
      BY <1>0, <2>2 DEF Crash, Sound, TypeOK
    <3>2. QED
      BY <3>1, Stutters DEF AloneInv
  <2>3. CASE ReadNext(p) \/ (\E s \in Sample : Begin(p, s)) \/ LegacyLoad(p) \/ Load(p)
    BY <1>0, <2>3, AloneReading
  <2>4. CASE Create(p) \/ Link(p) \/ Unlink(p) \/ Unpublish(p) \/ Discard(p)
    BY <1>0, <2>4, AlonePublication
  <2>5. CASE Stage(p) \/ Unplace(p) \/ Rename(p) \/ Clear(p) \/ Sync(p)
    BY <1>0, <2>5, AlonePruning
  <2>6. CASE \/ Rollback(p) \/ Restore(p) \/ RenameBack(p) \/ Recreate(p) \/ Relink(p)
             \/ Finish(p) \/ Withdraw(p) \/ Abandon(p) \/ Drop(p)
    BY <1>0, <2>6, AloneRollback
  <2>7. QED
    BY <2>1, <2>2, <2>3, <2>4, <2>5, <2>6 DEF AppendNext
<1>3. QED
  BY <1>1, <1>2

\* Append is atomic for a process that runs alone, as long as it does not die
\* and no more than one of its calls fails: it adds its sample and drops exactly
\* what is beyond the bounds, or leaves the history as it was, at whichever of
\* its file-system calls it fails.
THEOREM AppendIsAtomic ==
  ASSUME NEW p, Process = {p}
  PROVE  Spec => ImplementsAtomicHistory
<1>1. Init => AloneInv /\ Atomic!Init
  BY AloneInit
<1>2. IInv /\ LeftInv /\ AloneInv /\ [Next]_vars => AloneInv' /\ [Atomic!Next]_<<Settled, Sound>>
  BY AloneNext
<1>3. IInv /\ LeftInv /\ [Next]_vars => LeftInv'
  BY LeftNext
<1>4. Init => LeftInv
  BY DEF Init, LeftInv
<1>5. QED
  BY <1>1, <1>2, <1>3, <1>4, Invariant, PTL DEF Spec, ImplementsAtomicHistory, Atomic!Spec
=============================================================================
