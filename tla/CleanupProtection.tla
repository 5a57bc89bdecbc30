-------------------------- MODULE CleanupProtection --------------------------
(***************************************************************************)
(* Protection of cleanup candidates: the records of the directory          *)
(* `protected' and the protection generation (src/internal/cleanup/        *)
(* protection_management.go, Protect and readProtected of cleanup.go).     *)
(*                                                                         *)
(* Protect renames a new record into place.  Unprotect opens the record,   *)
(* advances the generation (read, then written by a rename), and then      *)
(* truncates and rewrites the record in place: there is a moment, and      *)
(* after a crash a state, in which it is malformed.  The record that is    *)
(* open may have been replaced meanwhile; its inode tells.  There is no    *)
(* lock.                                                                   *)
(*                                                                         *)
(* A temporary file that a live process is about to rename makes a reader  *)
(* fail, which Abort stands for; one that a dead process has left behind   *)
(* does so for ever.                                                       *)
(***************************************************************************)
EXTENDS Integers, FiniteSets

CONSTANTS
  Process,         \* processes that run commands
  Candidate,       \* the candidates that can be protected
  MaxGeneration,   \* the greatest uint64
  Keepers,         \* those that protect and unprotect in this instance
  MaxInodes, MaxLitter,   \* bounds of the instance: how many records are
                   \* written, how many temporary files are abandoned
  None

VARIABLES
  records,      \* per candidate: its protection record, or None
  generation,   \* the protection generation; 0 as long as there is no file
  litter,       \* the directories with an abandoned temporary file
  inodes,       \* how many protection records were written
  pc, target,   \* per process: its next step, and the candidate it works on
  file, read,   \* per process: the inode it has open, the generation it read
  lifted,       \* history, per candidate: how often its protection was lifted
  overlapped    \* history, per process: an Unprotect ran during its command

Record == [inode: Nat, state: {"protected", "unprotected", "malformed"}]
Dirs   == {"root", "protected", "plans", "targets", "receipts"}

ASSUME ProtectionAssumption ==
  /\ MaxGeneration \in Nat /\ MaxInodes \in Nat /\ MaxLitter \in Nat
  /\ None \notin Candidate \cup Record /\ Keepers \subseteq Process

Unprotecting == {"unprotect.open", "unprotect.generation", "unprotect.advance",
                 "unprotect.truncate", "unprotect.tombstone"}
ProtectionPCs == {"idle", "protect.write"} \cup Unprotecting

\* The directory into which a process writes a temporary file.
TemporaryIn == [s \in {"protect.write", "unprotect.advance"} |->
                 IF s = "protect.write" THEN "protected" ELSE "root"]

protection == <<records, generation, litter, inodes, lifted>>
call       == <<target, file, read>>
protectionVars == <<protection, pc, call, overlapped>>

Go(p, next) == pc' = [pc EXCEPT ![p] = next]

-----------------------------------------------------------------------------
(* Reading.                                                                *)

InForce(c)   == records[c] # None /\ records[c].state = "protected"
Malformed(c) == records[c] # None /\ records[c].state = "malformed"

\* Mutant of Readable: a record that cannot be decoded is skipped.
ReadableSkipsMalformed == "protected" \notin litter

\* readProtected refuses all of the records for one that it cannot decode and
\* for any file that is not a record.
Readable == "protected" \notin litter /\ \A c \in Candidate : ~Malformed(c)

\* A protection that has been set and not been lifted.
Protected(c) == InForce(c) \/ Malformed(c)

Running == \E p \in Process : pc[p] \in Unprotecting

-----------------------------------------------------------------------------
(* Commands.                                                               *)

Return(p) ==
  /\ Go(p, "idle")
  /\ target' = [target EXCEPT ![p] = None]
  /\ file' = [file EXCEPT ![p] = 0]
  /\ read' = [read EXCEPT ![p] = 0]
  /\ overlapped' = [overlapped EXCEPT ![p] = FALSE]

\* Protect: Scan reads the protection records and finds the candidate.
Protect(p, c) ==
  /\ pc[p] = "idle" /\ p \in Keepers /\ inodes < MaxInodes
  /\ Readable
  /\ Go(p, "protect.write")
  /\ target' = [target EXCEPT ![p] = c]
  /\ UNCHANGED <<protection, file, read, overlapped>>

WriteProtection(p) ==
  /\ pc[p] = "protect.write" /\ inodes < MaxInodes
  /\ inodes' = inodes + 1
  /\ records' = [records EXCEPT ![target[p]] =
                   [inode |-> inodes + 1, state |-> "protected"]]
  /\ Return(p)
  /\ UNCHANGED <<generation, litter, lifted>>

\* Unprotect: the candidate must be among the protections.  Commands that are
\* running have an Unprotect beside them from now on.
Unprotect(p, c) ==
  /\ pc[p] = "idle" /\ p \in Keepers
  /\ Readable /\ InForce(c)
  /\ Go(p, "unprotect.open")
  /\ target' = [target EXCEPT ![p] = c]
  /\ overlapped' = [q \in Process |-> overlapped[q] \/ pc[q] # "idle"]
  /\ UNCHANGED <<protection, file, read>>

OpenRecord(p) ==
  /\ pc[p] = "unprotect.open"
  /\ \/ /\ InForce(target[p])
        /\ Go(p, "unprotect.generation")
        /\ file' = [file EXCEPT ![p] = records[target[p]].inode]
        /\ UNCHANGED <<target, read, overlapped>>
     \/ ~InForce(target[p]) /\ Return(p)
  /\ UNCHANGED protection

ReadGeneration(p) ==
  /\ pc[p] = "unprotect.generation"
  /\ \/ /\ generation < MaxGeneration
        /\ Go(p, "unprotect.advance")
        /\ read' = [read EXCEPT ![p] = generation]
        /\ UNCHANGED <<target, file, overlapped>>
     \/ generation = MaxGeneration /\ Return(p)
  /\ UNCHANGED protection

Advance(p) ==
  /\ pc[p] = "unprotect.advance"
  /\ generation' = read[p] + 1
  /\ Go(p, "unprotect.truncate")
  /\ UNCHANGED <<records, litter, inodes, lifted, call, overlapped>>

\* The file that is open is the record, and not one that was replaced.
Current(p) == records[target[p]] # None /\ records[target[p]].inode = file[p]

Rewritten(p, state) ==
  [records EXCEPT ![target[p]] = [inode |-> file[p], state |-> state]]

Truncate(p) ==
  /\ pc[p] = "unprotect.truncate"
  /\ records' = IF Current(p) THEN Rewritten(p, "malformed") ELSE records
  /\ Go(p, "unprotect.tombstone")
  /\ UNCHANGED <<generation, litter, inodes, lifted, call, overlapped>>

Tombstone(p) ==
  /\ pc[p] = "unprotect.tombstone"
  /\ \/ /\ Current(p)
        /\ records' = Rewritten(p, "unprotected")
        /\ lifted' = [lifted EXCEPT ![target[p]] = @ + 1]
     \/ ~Current(p) /\ UNCHANGED <<records, lifted>>
  /\ Return(p)
  /\ UNCHANGED <<generation, litter, inodes>>

\* A temporary file stays in a directory.
Abandon(d) == Cardinality(litter) < MaxLitter /\ litter' = litter \cup {d}

\* The command ends with an error, or dies, between any two steps; a dying one
\* may leave its temporary file behind.
Abort(p) ==
  /\ pc[p] \in ProtectionPCs \ {"idle"}
  /\ Return(p)
  /\ \/ UNCHANGED litter
     \/ pc[p] \in DOMAIN TemporaryIn /\ Abandon(TemporaryIn[pc[p]])
  /\ UNCHANGED <<records, generation, inodes, lifted>>

ProtectionInit ==
  /\ records = [c \in Candidate |-> None]
  /\ generation = 0 /\ litter = {} /\ inodes = 0
  /\ pc = [p \in Process |-> "idle"]
  /\ target = [p \in Process |-> None]
  /\ file = [p \in Process |-> 0]
  /\ read = [p \in Process |-> 0]
  /\ lifted = [c \in Candidate |-> 0]
  /\ overlapped = [p \in Process |-> FALSE]

ProtectionNext(p) ==
  \/ \E c \in Candidate : Protect(p, c) \/ Unprotect(p, c)
  \/ WriteProtection(p)
  \/ OpenRecord(p) \/ ReadGeneration(p) \/ Advance(p)
  \/ Truncate(p) \/ Tombstone(p)
  \/ Abort(p)
=============================================================================
