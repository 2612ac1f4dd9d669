----------------------------- MODULE StageRename -----------------------------
(***************************************************************************)
(* Directories that appear as a whole (cmd/releaseaudit/stage_rename.go):  *)
(* a run fills a directory of its own, verifies it and renames it to its   *)
(* target, which must be absent.  A rename may fail, fail although it took *)
(* place, or be refused for a moment; before every decision the run looks  *)
(* whether stage and target are still what it bound.  Promotion.tla adds   *)
(* the two commands that use it.                                           *)
(*                                                                         *)
(* A directory is its identity and, per file, whether the bytes are the    *)
(* planned ones; the identity of a stage is the run's process until the    *)
(* process begins its next run.                                            *)
(***************************************************************************)
EXTENDS Naturals, FiniteSets

CONSTANTS
  Procs,       \* processes that run the commands
  Candidates,  \* candidate identities, one immutable directory each
  Evidence,    \* evidence output directories
  MaxTries,    \* rename attempts of a run (8 on Windows, 1 elsewhere)
  MaxFaults,   \* bound: failing calls and kills
  MaxForeign   \* bound: changes by anyone but the commands

ASSUME StageAssumption ==
  /\ MaxTries \in Nat \ {0} /\ MaxFaults \in Nat /\ MaxForeign \in Nat
  /\ Candidates \cap Evidence = {} /\ Procs \cap {"none", "past", "other"} = {}

VARIABLES
  dirs,       \* target path -> directory
  stage,      \* process -> its stage directory
  run,        \* process -> the state of its run
  faults, foreign

Targets == Candidates \cup Evidence
Files == {"manifest", "record", "archive", "index"}
Nothing == [ino |-> "none", files |-> [f \in Files |-> "missing"], extra |-> FALSE]
Full(ino, names) == [ino |-> ino, extra |-> FALSE,
                     files |-> [f \in Files |-> IF f \in names THEN "right" ELSE "missing"]]
Stranger == [ino |-> "other", files |-> [f \in Files |-> "missing"], extra |-> TRUE]

Directory == [ino : Procs \cup {"none", "past", "other"}, extra : BOOLEAN,
              files : [Files -> {"right", "changed", "missing"}]]

(* promotedNames, or the inventory of an evidence bundle. *)
NamesOf(t) == IF t \in Evidence THEN Files ELSE Files \ {"index"}

At(p, s) == run[p].pc = s
To(p, s) == run' = [run EXCEPT ![p].pc = s]
Set(p, s, changes) ==
  run' = [run EXCEPT ![p] = [f \in DOMAIN @ |-> IF f \in DOMAIN changes THEN changes[f]
                                                ELSE IF f = "pc" THEN s ELSE @[f]]]
Fault == faults < MaxFaults /\ faults' = faults + 1
Target(p) == run[p].job.target

(***************************************************************************)
(* Content.                                                                *)
(***************************************************************************)
(* verifyCandidateManifest: every record file and everything it binds. *)
ManifestVerified(d) == d.files["record"] = "right" /\ d.files["archive"] = "right"
(* sameCandidateFiles: the inventory and the bytes of the manifest's names. *)
SameFiles(d, names) == ~d.extra /\ \A f \in Files : d.files[f] = (IF f \in names THEN "right" ELSE "missing")
CandidateVerified(d) ==
  d.files["manifest"] = "right" /\ ManifestVerified(d) /\ SameFiles(d, Files \ {"index"})
(* verifySupply: index and manifest by their anchors, the candidate, the inventory. *)
SupplyVerified(d) ==
  d.files["index"] = "right" /\ d.files["manifest"] = "right" /\ ManifestVerified(d) /\ SameFiles(d, Files)
Verified(t, d) == IF t \in Evidence THEN SupplyVerified(d) ELSE CandidateVerified(d)

(***************************************************************************)
(* Binding.                                                                *)
(***************************************************************************)
PreState(p) == stage[p].ino = p /\ dirs[Target(p)] = Nothing
OwnedTarget(p) == stage[p] = Nothing /\ dirs[Target(p)].ino = p

(* MkdirTemp and bindStageRename.  Until it is bound no cleanup is        *)
(* deferred: a stage that cannot be bound is retained.                     *)
MakeStage(p) ==
  /\ At(p, "stage")
  /\ \/ /\ stage' = [stage EXCEPT ![p] = [Nothing EXCEPT !.ino = p]]
        /\ \/ /\ dirs[Target(p)] = Nothing /\ UNCHANGED faults
              /\ Set(p, "fill", [bound |-> TRUE, stale |-> FALSE, dirty |-> FALSE])
           \/ /\ (dirs[Target(p)] # Nothing /\ UNCHANGED faults) \/ Fault
              /\ Set(p, "tidy", [failed |-> TRUE, retained |-> TRUE])
     \/ Fault /\ Set(p, "tidy", [failed |-> TRUE]) /\ UNCHANGED stage
  /\ UNCHANGED <<dirs, foreign>>

(* What a run copies: its own verified input or a candidate directory. *)
Fill(p, source) ==
  /\ At(p, "fill") /\ stage[p] # Nothing
  /\ \/ /\ stage' = [stage EXCEPT ![p].files = [source EXCEPT !["index"] =
                          IF Target(p) \in Evidence THEN "right" ELSE "missing"]]
        /\ To(p, "verify") /\ UNCHANGED <<faults, foreign>>
     \/ /\ foreign < MaxForeign /\ foreign' = foreign + 1   \* the input changes under the copy
        /\ stage' = [stage EXCEPT ![p].files = [source EXCEPT !["archive"] = "changed"]]
        /\ To(p, "verify") /\ UNCHANGED faults
     \/ /\ Fault /\ stage' = [stage EXCEPT ![p].files["manifest"] = "right"]
        /\ Set(p, "cleanup", [failed |-> TRUE]) /\ UNCHANGED foreign
  /\ UNCHANGED dirs

StageLost(p) ==
  /\ At(p, "fill") /\ stage[p] = Nothing
  /\ Set(p, "cleanup", [failed |-> TRUE]) /\ UNCHANGED <<dirs, stage, faults, foreign>>

VerifyStage_Skipped(p) ==   \* mutant: what was copied is not verified
  At(p, "verify") /\ Set(p, "bound", [dirty |-> FALSE]) /\ UNCHANGED <<dirs, stage, faults, foreign>>

VerifyStage(p) ==
  /\ At(p, "verify")
  /\ IF Verified(Target(p), stage[p]) THEN Set(p, "bound", [dirty |-> FALSE])
     ELSE Set(p, "cleanup", [failed |-> TRUE])
  /\ UNCHANGED <<dirs, stage, faults, foreign>>

(***************************************************************************)
(* renameWithOps.                                                          *)
(***************************************************************************)
Retain(p) == Set(p, "cleanup", [failed |-> TRUE, retained |-> TRUE])

CheckBound(p) ==
  /\ At(p, "bound")
  /\ IF PreState(p) THEN Set(p, "rename", [stale |-> FALSE]) ELSE Retain(p)
  /\ UNCHANGED <<dirs, stage, faults, foreign>>

Move(p) ==
  /\ stage[p] # Nothing /\ dirs[Target(p)] = Nothing
  /\ dirs' = [dirs EXCEPT ![Target(p)] = stage[p]] /\ stage' = [stage EXCEPT ![p] = Nothing]

Rename(p) ==
  /\ At(p, "rename")
  /\ LET tries == [tries |-> run[p].tries + 1]
     IN \/ Move(p) /\ Set(p, "moved", tries) /\ UNCHANGED faults
        \/ Move(p) /\ Fault /\ Set(p, "rejected", tries)   \* took place, and reported an error
        \/ Fault /\ Set(p, "rejected", tries) /\ UNCHANGED <<dirs, stage>>
        \/ /\ stage[p] = Nothing \/ dirs[Target(p)] # Nothing
           /\ Set(p, "rejected", tries) /\ UNCHANGED <<dirs, stage, faults>>
  /\ UNCHANGED foreign

AfterMove(p) ==
  /\ At(p, "moved")
  /\ IF OwnedTarget(p) THEN Set(p, "readback", [promoted |-> TRUE]) ELSE Retain(p)
  /\ UNCHANGED <<dirs, stage, faults, foreign>>

AfterReject_OneMore(p) ==   \* mutant: one attempt too many
  /\ At(p, "rejected")
  /\ \/ ~PreState(p) /\ Retain(p)
     \/ PreState(p) /\ run[p].tries <= MaxTries /\ To(p, "retry")
  /\ UNCHANGED <<dirs, stage, faults, foreign>>

(* An error that is not transient, the attempts or the window used up. *)
AfterReject(p) ==
  /\ At(p, "rejected")
  /\ \/ ~PreState(p) /\ Retain(p)
     \/ PreState(p) /\ Set(p, "cleanup", [failed |-> TRUE])
     \/ PreState(p) /\ run[p].tries < MaxTries /\ To(p, "retry")
  /\ UNCHANGED <<dirs, stage, faults, foreign>>

(* After the pause: identity, absence and the whole content again. *)
Retry(p) ==
  /\ At(p, "retry")
  /\ \/ PreState(p) /\ Verified(Target(p), stage[p])
        /\ Set(p, "rename", [stale |-> FALSE, dirty |-> FALSE])
     \/ ~(PreState(p) /\ Verified(Target(p), stage[p])) /\ Retain(p)
     \/ Set(p, "cleanup", [failed |-> TRUE])   \* the window is over
  /\ UNCHANGED <<dirs, stage, faults, foreign>>

(***************************************************************************)
(* cleanup, deferred: only an unmoved stage that is still the bound one is *)
(* removed.                                                                *)
(***************************************************************************)
Cleanup_Unbound(p) ==   \* mutant: whatever is at the stage's path is removed
  /\ At(p, "cleanup")
  /\ IF ~run[p].promoted THEN Set(p, "removal", [stale |-> FALSE]) ELSE To(p, "tidy")
  /\ UNCHANGED <<dirs, stage, faults, foreign>>

Cleanup(p) ==
  /\ At(p, "cleanup")
  /\ IF ~run[p].retained /\ ~run[p].promoted /\ PreState(p)
     THEN Set(p, "removal", [stale |-> FALSE])
     ELSE Set(p, "tidy", [failed |-> run[p].failed \/ run[p].retained \/ stage[p] # Nothing])
  /\ UNCHANGED <<dirs, stage, faults, foreign>>

RemoveStage(p) ==
  /\ At(p, "removal") /\ To(p, "tidy")
  /\ \/ stage' = [stage EXCEPT ![p] = Nothing] /\ UNCHANGED faults
     \/ Fault /\ UNCHANGED stage
  /\ UNCHANGED <<dirs, foreign>>

StageStep(p) ==
  \/ MakeStage(p) \/ StageLost(p) \/ VerifyStage(p) \/ CheckBound(p) \/ Rename(p) \/ AfterMove(p)
  \/ AfterReject(p) \/ Retry(p) \/ Cleanup(p) \/ RemoveStage(p)

(***************************************************************************)
(* Somebody else exchanges a stage or a new target, damages a stage, or    *)
(* puts a directory where a target belongs.                                *)
(***************************************************************************)
Stale(ps) == run' = [p \in Procs |-> IF p \in ps THEN [run[p] EXCEPT !.stale = TRUE, !.dirty = TRUE] ELSE run[p]]

ForeignDirectory ==
  /\ foreign < MaxForeign /\ foreign' = foreign + 1
  /\ \/ \E p \in Procs :
          /\ stage[p] # Nothing /\ Stale({p})
          /\ \E d \in {Stranger, Nothing, [stage[p] EXCEPT !.files["archive"] = "changed"]} :
               stage' = [stage EXCEPT ![p] = d]
          /\ UNCHANGED dirs
     \/ \E t \in Targets :
          /\ dirs[t] = Nothing \/ dirs[t].ino \in Procs
          /\ dirs' = [dirs EXCEPT ![t] = Stranger] /\ Stale({p \in Procs : Target(p) = t}) /\ UNCHANGED stage
  /\ UNCHANGED faults
==============================================================================
