------------------------------ MODULE Promotion ------------------------------
(***************************************************************************)
(* candidate-promote (cmd/releaseaudit/candidate.go) and                   *)
(* supply-chain-generate (supplychain.go) on one destination root.  A      *)
(* promotion holds the root's lock, lets an immutable candidate directory  *)
(* appear or verifies the one that is there, may replace the alias         *)
(* "current", and on any failure undoes exactly what it did.  A generation *)
(* lets an evidence directory appear, without a lock.  Calls fail, runs    *)
(* are killed and started again, and people clear locks nobody holds.      *)
(***************************************************************************)
EXTENDS StageRename

CONSTANTS
  Jobs,      \* process -> the jobs it may be given
  MaxRuns,   \* bound: process -> its runs
  None       \* no alias, no lock owner, no backup

ASSUME PromotionAssumption ==
  /\ MaxRuns \in [Procs -> Nat] /\ None \notin Candidates \cup Procs
  /\ \A p \in Procs : Jobs[p] # {} /\ Jobs[p] \subseteq
       [kind : {"promote"}, target : Candidates, source : Candidates, current : BOOLEAN]
       \cup [kind : {"generate"}, target : Evidence, source : Candidates, current : BOOLEAN]

VARIABLES
  lock, alias,
  kept,      \* alias contents in backup files that earlier runs left behind
  promised,  \* what "current" last was when a promotion found or reported it (history)
  relied     \* targets a run reported, or verified as present before it (history)

rootVars == <<lock, alias, kept, promised, relied>>
vars == <<dirs, stage, run, faults, foreign, rootVars>>

Ended == {"idle", "ok", "failed", "dead"}
Working == {"lock", "prestate", "look", "source", "stage", "fill", "verify", "bound", "rename", "moved",
            "rejected", "retry", "readback", "temp", "backup", "swap", "cleanup", "removal", "tidy",
            "tidyBackup", "tidyLock", "restore", "putback", "release", "disown", "rollback", "rmdir"}
AliasContents == Candidates \cup {None, "torn"}

(* The state of a run when it begins. *)
Start(j, s, n) ==
  [pc |-> s, job |-> j, n |-> n, tries |-> 0, bound |-> FALSE, retained |-> FALSE, promoted |-> FALSE,
   created |-> FALSE, failed |-> FALSE, stale |-> FALSE, dirty |-> FALSE, orig |-> None,
   touched |-> FALSE, temp |-> FALSE, backup |-> None, restored |-> TRUE]

TypeOK ==
  /\ dirs \in [Targets -> Directory] /\ stage \in [Procs -> Directory]
  /\ \A p \in Procs :
       /\ run[p].pc \in Ended \cup Working /\ run[p].job \in Jobs[p] /\ run[p].n \in 0..MaxRuns[p]
       /\ run[p].tries \in 0..MaxTries /\ run[p].orig \in AliasContents /\ run[p].backup \in AliasContents
  /\ faults \in 0..MaxFaults /\ foreign \in 0..MaxForeign
  /\ lock \in Procs \cup {None} /\ alias \in AliasContents /\ kept \subseteq AliasContents
  /\ promised \in AliasContents /\ relied \subseteq Targets

Init ==
  /\ \E past \in SUBSET Candidates :
       /\ dirs = [t \in Targets |-> IF t \in past THEN Full("past", NamesOf(t)) ELSE Nothing]
       /\ alias \in past \cup {None} /\ relied = past
  /\ stage = [p \in Procs |-> Nothing]
  /\ run \in {r \in [Procs -> {Start(j, "idle", 0) : j \in UNION {Jobs[p] : p \in Procs}}] :
                \A p \in Procs : r[p].job = CHOOSE j \in Jobs[p] : TRUE}
  /\ faults = 0 /\ foreign = 0 /\ lock = None /\ kept = {} /\ promised = alias

(***************************************************************************)
(* Runs begin, are killed, and leave locks that somebody clears.           *)
(***************************************************************************)
Begin(p, j) ==
  /\ run[p].pc \in Ended /\ run[p].n < MaxRuns[p]
  /\ run' = [run EXCEPT ![p] = Start(j, IF j.kind = "promote" THEN "lock" ELSE "source", @.n + 1)]
  /\ dirs' = [t \in Targets |-> IF dirs[t].ino = p THEN [dirs[t] EXCEPT !.ino = "past"] ELSE dirs[t]]
  /\ stage' = [stage EXCEPT ![p] = Nothing]
  /\ kept' = kept \cup ({run[p].backup} \ {None})
  /\ UNCHANGED <<faults, foreign, lock, alias, promised, relied>>

Kill(p) ==
  /\ run[p].pc \in Working /\ Fault /\ To(p, "dead")
  /\ UNCHANGED <<dirs, stage, foreign, rootVars>>

ClearLock ==
  /\ lock # None /\ run[lock].pc \in Ended /\ lock' = None
  /\ UNCHANGED <<dirs, stage, run, faults, foreign, alias, kept, promised, relied>>

(* Steps that touch the root only, by what they may change. *)
NoStage == UNCHANGED <<dirs, stage, foreign>>
Steady == NoStage /\ UNCHANGED rootVars
Fails(p, s) == Set(p, s, [failed |-> TRUE])

(***************************************************************************)
(* promoteCandidateWithOps, until the alias is exchanged.                  *)
(***************************************************************************)
Lock_Waits(p) ==   \* mutant: the command waits for the lock
  /\ At(p, "lock") /\ NoStage /\ UNCHANGED <<alias, kept, promised, relied, faults>>
  /\ lock = None /\ lock' = p /\ To(p, IF run[p].job.current THEN "prestate" ELSE "look")

Lock(p) ==
  /\ At(p, "lock") /\ NoStage /\ UNCHANGED <<alias, kept, promised, relied>>
  /\ \/ /\ lock = None /\ lock' = p /\ UNCHANGED faults
        /\ To(p, IF run[p].job.current THEN "prestate" ELSE "look")
     \/ lock # None /\ To(p, "failed") /\ UNCHANGED <<lock, faults>>
     \/ Fault /\ To(p, "failed") /\ UNCHANGED lock

ReadAlias(p) ==
  /\ At(p, "prestate") /\ NoStage /\ UNCHANGED <<lock, alias, kept, relied>>
  /\ \/ /\ Set(p, "look", [orig |-> alias]) /\ UNCHANGED faults
        /\ promised' = IF alias = None THEN promised ELSE alias
     \/ Fault /\ Fails(p, "tidy") /\ UNCHANGED promised

(* A target that is there must be the very candidate, or nothing is done. *)
AfterContent(p) == IF run[p].job.current THEN "temp" ELSE IF run[p].bound THEN "cleanup" ELSE "tidy"
LookAtTarget(p) ==
  /\ At(p, "look") /\ NoStage /\ UNCHANGED <<lock, alias, kept, promised>>
  /\ LET there == dirs[Target(p)]
     IN \/ there = Nothing /\ To(p, "stage") /\ UNCHANGED <<faults, relied>>
        \/ /\ CandidateVerified(there) /\ To(p, AfterContent(p))
           /\ relied' = relied \cup {Target(p)} /\ UNCHANGED faults
        \/ there # Nothing /\ ~CandidateVerified(there) /\ Fails(p, "tidy") /\ UNCHANGED <<faults, relied>>
        \/ Fault /\ Fails(p, "tidy") /\ UNCHANGED relied

(* generateSupply: the candidate by its manifest's anchor, a new output. *)
LookAtSource(p) ==
  /\ At(p, "source") /\ Steady
  /\ LET source == dirs[run[p].job.source]
     IN \/ /\ source.files["manifest"] = "right" /\ ManifestVerified(source) /\ dirs[Target(p)] = Nothing
           /\ To(p, "stage") /\ UNCHANGED faults
        \/ /\ source.files["manifest"] # "right" \/ ~ManifestVerified(source) \/ dirs[Target(p)] # Nothing
           /\ To(p, "failed") /\ UNCHANGED faults
        \/ Fault /\ To(p, "failed")

Copied(p) ==
  IF run[p].job.kind = "promote" THEN Full(p, NamesOf(Target(p))).files ELSE dirs[run[p].job.source].files
FillStage(p) == Fill(p, Copied(p)) /\ UNCHANGED rootVars

ReadBack_Skipped(p) ==   \* mutant: the new target is not read back
  /\ At(p, "readback") /\ Steady /\ UNCHANGED faults
  /\ IF run[p].job.kind = "promote" THEN Set(p, AfterContent(p), [created |-> TRUE]) ELSE To(p, "cleanup")

(* From here on the target is this run's own creation. *)
ReadBack(p) ==
  /\ At(p, "readback") /\ Steady
  /\ LET created == [created |-> run[p].job.kind = "promote"]
     IN \/ /\ Verified(Target(p), dirs[Target(p)]) /\ UNCHANGED faults
           /\ Set(p, IF run[p].job.kind = "promote" THEN AfterContent(p) ELSE "cleanup", created)
        \/ /\ \/ ~Verified(Target(p), dirs[Target(p)]) /\ UNCHANGED faults
              \/ Fault
           /\ Set(p, "cleanup", [created |-> created.created, failed |-> TRUE])

(* A rename of the alias that takes place and reports an error.  The code  *)
(* believes the error and nothing protects the alias then: it counts as    *)
(* two failures, of the call and of its report.                            *)
Misreport == faults + 2 <= MaxFaults /\ faults' = faults + 2

AfterAlias(p) == IF run[p].bound THEN "cleanup" ELSE "tidy"

CreateTemp(p) ==
  /\ At(p, "temp") /\ Steady
  /\ \/ /\ Set(p, IF run[p].orig = None THEN "swap" ELSE "backup", [temp |-> TRUE]) /\ UNCHANGED faults
     \/ Fault /\ \E left \in BOOLEAN : Set(p, AfterAlias(p), [temp |-> left, failed |-> TRUE])

BackUpAlias_Removes(p) ==   \* mutant: the alias is removed, not renamed
  /\ At(p, "backup") /\ NoStage /\ UNCHANGED <<lock, kept, promised, relied, faults>>
  /\ alias' = None /\ Set(p, "swap", [touched |-> TRUE])

BackUpAlias(p) ==
  /\ At(p, "backup") /\ NoStage /\ UNCHANGED <<lock, kept, promised, relied>>
  /\ \/ /\ alias' = None /\ UNCHANGED faults
        /\ Set(p, "swap", [backup |-> alias, touched |-> TRUE])
     \/ Fault /\ Fails(p, AfterAlias(p)) /\ UNCHANGED alias
     \/ /\ Misreport /\ alias' = None
        /\ Set(p, AfterAlias(p), [backup |-> alias, failed |-> TRUE])

SwapAlias(p) ==
  /\ At(p, "swap") /\ NoStage /\ UNCHANGED <<lock, kept, promised, relied>>
  /\ \/ /\ alias' = Target(p) /\ UNCHANGED faults
        /\ Set(p, AfterAlias(p), [temp |-> FALSE, touched |-> TRUE])
     \/ Fault /\ Fails(p, AfterAlias(p)) /\ UNCHANGED alias
     \/ /\ Misreport /\ alias' = Target(p)
        /\ Set(p, AfterAlias(p), [temp |-> FALSE, failed |-> TRUE])

(***************************************************************************)
(* The deferred end: temp, backup and lock are removed while nothing has   *)
(* failed; otherwise alias and candidate are put back.                     *)
(***************************************************************************)
Tidy(p) ==
  /\ At(p, "tidy") /\ NoStage /\ UNCHANGED <<lock, alias, kept, promised>>
  /\ \/ /\ run[p].job.kind = "generate" /\ UNCHANGED faults
        /\ To(p, IF run[p].failed THEN "failed" ELSE "ok")
        /\ relied' = IF run[p].failed THEN relied ELSE relied \cup {Target(p)}
     \/ /\ run[p].job.kind = "promote" /\ UNCHANGED <<faults, relied>>
        /\ Set(p, IF run[p].failed THEN "restore" ELSE "tidyBackup", [temp |-> FALSE])
     \/ /\ run[p].temp /\ Fault /\ Fails(p, "restore") /\ UNCHANGED relied

TidyBackup(p) ==
  /\ At(p, "tidyBackup") /\ Steady
  /\ \/ Set(p, "tidyLock", [backup |-> None]) /\ UNCHANGED faults
     \/ run[p].backup # None /\ Fault /\ Fails(p, "restore")

TidyLock(p) ==
  /\ At(p, "tidyLock") /\ NoStage /\ UNCHANGED <<alias, kept>>
  /\ \/ /\ lock' = None /\ To(p, "ok") /\ UNCHANGED faults
        /\ relied' = relied \cup {Target(p)}
        /\ promised' = IF run[p].job.current THEN Target(p) ELSE promised
     \/ Fault /\ Fails(p, "restore") /\ UNCHANGED <<lock, promised, relied>>

RemoveAlias_Never(p) ==   \* mutant: the new alias stays when the candidate goes
  At(p, "restore") /\ NoStage /\ To(p, "release") /\ UNCHANGED <<lock, alias, kept, promised, relied, faults>>

RemoveAlias(p) ==
  /\ At(p, "restore") /\ NoStage /\ UNCHANGED <<lock, kept, promised, relied>>
  /\ \/ ~run[p].touched /\ To(p, "release") /\ UNCHANGED <<alias, faults>>
     \/ run[p].touched /\ alias' = None /\ UNCHANGED faults
        /\ To(p, IF run[p].orig = None THEN "release" ELSE "putback")
     \/ run[p].touched /\ alias # None /\ Fault /\ UNCHANGED alias
        /\ Set(p, "release", [restored |-> alias = run[p].orig])

(* Rename the backup, or write the original bytes anew. *)
PutBack(p) ==
  /\ At(p, "putback") /\ NoStage /\ UNCHANGED <<lock, kept, promised, relied>>
  /\ \/ /\ run[p].backup # None /\ UNCHANGED faults
        /\ alias' = run[p].backup
        /\ Set(p, "release", [backup |-> None, restored |-> alias' = run[p].orig])
     \/ /\ run[p].backup # None /\ Fault /\ alias' = run[p].orig /\ To(p, "release")
     \/ /\ run[p].backup = None /\ alias' = run[p].orig /\ To(p, "release") /\ UNCHANGED faults
     \/ /\ run[p].backup = None /\ Fault /\ alias' = "torn" /\ Set(p, "release", [restored |-> FALSE])

Release_CandidateStays(p) ==   \* mutant: the new candidate is not rolled back
  /\ At(p, "release") /\ NoStage /\ UNCHANGED <<alias, kept, promised, relied, faults>>
  /\ Set(p, "failed", [temp |-> FALSE]) /\ lock' = None

(* What is left behind is reported; the lock goes before the candidate. *)
Release(p) ==
  /\ At(p, "release") /\ NoStage /\ UNCHANGED <<alias, kept, promised, relied>>
  /\ Set(p, IF run[p].created THEN "disown" ELSE "failed",
         [temp |-> FALSE, backup |-> IF run[p].restored THEN None ELSE run[p].backup])
  /\ \/ lock' = None /\ UNCHANGED faults
     \/ Fault /\ UNCHANGED lock

Disown(p) ==
  /\ At(p, "disown") /\ Steady /\ UNCHANGED faults
  /\ IF OwnedTarget(p) THEN Set(p, "rollback", [stale |-> FALSE]) ELSE To(p, "failed")

(* rollbackNewCandidate: file after file, blocked by one that is missing. *)
RemoveFile(p) ==
  /\ At(p, "rollback") /\ UNCHANGED <<stage, foreign, rootVars>>
  /\ LET left == {f \in NamesOf(Target(p)) : dirs[Target(p)].files[f] # "missing"}
         gone == NamesOf(Target(p)) \ left
         inOrder == CASE "manifest" \in left -> gone = {} [] OTHER -> gone # {}
     IN \/ /\ left # {} /\ inOrder /\ UNCHANGED faults
           /\ LET f == IF "manifest" \in left THEN "manifest" ELSE CHOOSE g \in left : TRUE
              IN dirs' = [dirs EXCEPT ![Target(p)].files[f] = "missing"]
           /\ To(p, IF Cardinality(left) = 1 THEN "rmdir" ELSE "rollback")
        \/ (left = {} \/ ~inOrder) /\ To(p, "failed") /\ UNCHANGED <<dirs, faults>>
        \/ Fault /\ To(p, "failed") /\ UNCHANGED dirs

RemoveCandidate(p) ==
  /\ At(p, "rmdir") /\ To(p, "failed") /\ UNCHANGED <<stage, foreign, rootVars>>
  /\ \/ /\ ~dirs[Target(p)].extra /\ UNCHANGED faults
        /\ dirs' = [dirs EXCEPT ![Target(p)] = Nothing]
     \/ dirs[Target(p)].extra /\ UNCHANGED <<dirs, faults>>
     \/ Fault /\ UNCHANGED dirs

Step(p) ==
  \/ StageStep(p) /\ UNCHANGED rootVars
  \/ Lock(p) \/ ReadAlias(p) \/ LookAtTarget(p) \/ LookAtSource(p) \/ FillStage(p) \/ ReadBack(p)
  \/ CreateTemp(p) \/ BackUpAlias(p) \/ SwapAlias(p)
  \/ Tidy(p) \/ TidyBackup(p) \/ TidyLock(p) \/ RemoveAlias(p) \/ PutBack(p) \/ Release(p)
  \/ Disown(p) \/ RemoveFile(p) \/ RemoveCandidate(p)

Next ==
  \/ \E p \in Procs : Step(p) \/ Kill(p) \/ \E j \in Jobs[p] : Begin(p, j)
  \/ ClearLock
  \/ ForeignDirectory /\ UNCHANGED rootVars

Spec == Init /\ [][Next]_vars /\ \A p \in Procs : WF_vars(Step(p))

(***************************************************************************)
(* Properties.                                                             *)
(***************************************************************************)
Intact(t) == Verified(t, dirs[t]) \/ dirs[t].ino = "other"

(* docs/artifact-verification.md: "preexisting verified identities are     *)
(* retained".  A directory that a run reported, or that it verified as     *)
(* present before it, stays complete whatever later runs, their failures   *)
(* and their rollbacks do.                                                 *)
VerifiedRetained == \A t \in relied : Intact(t)

(* A target becomes visible complete, or somebody else interfered after    *)
(* the last verification of the stage.                                     *)
VisibleWhenComplete ==
  [][ \A p \in Procs : \A t \in Targets :
        (At(p, "rename") /\ run'[p].pc # "rename" /\ dirs'[t] # dirs[t] /\ ~run[p].dirty) => Verified(t, dirs'[t]) ]_vars

(* Of all the directories the commands meet they move or remove their own  *)
(* only: one that somebody put in place of a stage or a target is left     *)
(* alone, unless it came after the last look.                              *)
StrangersLeftAlone ==
  [][ \A p \in Procs : \A t \in Targets :
        /\ (run[p].pc \notin Ended /\ run'[p].pc # run[p].pc /\ stage'[p].ino # stage[p].ino) =>
             stage[p] = Nothing \/ stage[p].ino = p \/ run[p].stale
        /\ (dirs[t] = Stranger /\ \A q \in Procs : Target(q) = t => ~run[q].stale) => dirs'[t] = Stranger ]_vars

(* The alias names a complete candidate at every moment a reader may look  *)
(* at it, even if one call fails or one run is killed.                     *)
AliasNamesComplete ==
  (alias # None /\ faults <= 1) => alias \in Candidates /\ Intact(alias)

(* What "current" was when a promotion last found or reported it is never  *)
(* lost to one failure or kill: there is an alias, or a backup holds it,   *)
(* or a promotion is about to write it back.                               *)
OriginalRecoverable ==
  (promised # None /\ faults <= 1) =>
    \/ alias \in Candidates \/ promised \in kept
    \/ \E p \in Procs : run[p].backup = promised
    \/ \E p \in Procs : run[p].orig = promised /\ run[p].pc = "putback"

(* Whoever follows the alias, at any moment, gets a complete candidate or  *)
(* finds what is needed to restore the one that was promised.              *)
AliasSafe == AliasNamesComplete /\ OriginalRecoverable

(* One failure is undone: a promotion that fails once it has the lock has  *)
(* put the alias back as it found it and leaves no lock, no stage and no   *)
(* candidate of its own; only a directory it could not bind, or no longer  *)
(* account for, it retains on purpose, and that one is there, as a stage   *)
(* or as the target.  A promotion that does not get the lock leaves        *)
(* nothing.                                                                *)
FailureUndone ==
  \A p \in Procs : (faults <= 1 /\ foreign = 0 /\ run[p].job.kind = "promote") =>
    LET staged == stage[p].ino = p  placed == dirs[Target(p)].ino = p
    IN /\ (At(p, "release") /\ run[p].touched) => alias = run[p].orig
       /\ At(p, "failed") =>
            /\ run[p].failed => lock # p
            /\ ~run[p].retained => ~staged /\ ~placed
            /\ run[p].retained => run[p].failed /\ (staged <=> ~placed)

(* At every step: nothing half-made appears, nothing of others disappears. *)
OnlyWholeOnlyOwn == VisibleWhenComplete /\ StrangersLeftAlone

(* The commands always come to an end, in whatever order they interleave:  *)
(* they wait for no lock and their retries are bounded.  (Runs are finite  *)
(* in number, so this is not about a command that is started for ever.)    *)
RunsEnd == []<>(\A p \in Procs : run[p].pc \in Ended)
==============================================================================
