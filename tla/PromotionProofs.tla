--------------------------- MODULE PromotionProofs ---------------------------
(***************************************************************************)
(* What TLAPS proves of candidate promotion, for any processes, jobs,      *)
(* retries, failures and interference: directories appear whole, strangers *)
(* are left alone, every variable keeps its type, and, as long as no two   *)
(* processes promote to one target, what was verified once is retained and *)
(* a single failure neither loses the alias nor leaves anything behind.    *)
(***************************************************************************)
EXTENDS Promotion, FiniteSetTheorems, TLAPS

FieldNames == {"pc", "job", "n", "tries", "bound", "retained", "promoted", "created", "failed", "stale", "dirty",
               "orig", "touched", "temp", "backup", "restored"}
First == {"lock", "prestate", "look", "source", "stage"}
DirFields == {"ino", "files", "extra"}
Sound == {"temp", "backup", "swap", "cleanup", "removal", "tidy", "tidyBackup", "tidyLock"}

(* The variables are functions of the processes and the targets.           *)
Shape ==
  /\ DOMAIN run = Procs /\ DOMAIN dirs = Targets /\ DOMAIN stage = Procs
  /\ \A p \in Procs : DOMAIN run[p] = FieldNames /\ run[p].job \in Jobs[p] /\ DOMAIN stage[p] = DirFields
  /\ \A t \in Targets : DOMAIN dirs[t] = DirFields

(* Until a run has made its stage there is none; what it renames or        *)
(* removes is its own, and what it renames is whole, unless somebody has   *)
(* interfered since it looked.                                             *)
StageInv(p) ==
  /\ run[p].pc \in First => stage[p] = Nothing
  /\ run[p].pc \in {"rename", "removal"} => stage[p].ino = p \/ run[p].stale
  /\ (run[p].pc \in {"bound", "rename"} /\ ~run[p].dirty) => Verified(Target(p), stage[p])
  /\ run[p].pc \in {"tidyBackup", "tidyLock"} => ~run[p].failed

CoreInv == Shape /\ \A p \in Procs : StageInv(p)

(* A step of one process leaves the others' runs and stages alone, and     *)
(* keeps its own job.                                                      *)
Frame(p) ==
  /\ DOMAIN run' = Procs /\ DOMAIN dirs' = Targets /\ DOMAIN stage' = Procs
  /\ DOMAIN run'[p] = FieldNames /\ run'[p].job = run[p].job /\ DOMAIN stage'[p] = DirFields
  /\ \A t \in Targets : DOMAIN dirs'[t] = DirFields
  /\ \A q \in Procs \ {p} : run'[q] = run[q] /\ stage'[q] = stage[q]

(* What it may do to the directories: let its target appear, or take away  *)
(* what it is rolling back.                                                *)
Appears(p) ==
  /\ run[p].pc = "rename" /\ stage[p] # Nothing /\ dirs[Target(p)] = Nothing
  /\ dirs' = [dirs EXCEPT ![Target(p)] = stage[p]]
RollsBack(p) ==
  /\ run[p].pc \in {"rollback", "rmdir"} /\ run'[p].pc \in {"rollback", "rmdir", "failed"}
  /\ \A t \in Targets \ {Target(p)} : dirs'[t] = dirs[t]
  /\ dirs[Target(p)] # Stranger

(* How a run moves on.                                                     *)
Fits(p) ==
  /\ Frame(p) /\ run[p].pc \notin Ended
  /\ dirs' = dirs \/ Appears(p) \/ RollsBack(p)
  /\ stage'[p].ino # stage[p].ino => run[p].pc \in {"stage", "rename", "removal"}
  /\ run'[p].pc \in {"lock", "prestate", "look"} => run[p].pc \in {"lock", "prestate"}
  /\ run'[p].pc = "readback" => run[p].pc = "moved"
  /\ run'[p].pc = "moved" => run[p].pc = "rename" /\ dirs[Target(p)] = Nothing
  /\ run'[p].created => run[p].created \/ (run[p].pc = "readback" /\ run[p].job.kind = "promote")
  /\ run'[p].pc \in {"disown", "rollback", "rmdir"} =>
       (run[p].created /\ run'[p].created) \/ (run[p].pc \in {"disown", "rollback"} /\ run'[p].created = run[p].created)
  /\ (run'[p].pc \in Sound /\ ~run'[p].failed) =>
       Verified(Target(p), dirs[Target(p)]) \/ (run[p].pc \in Sound /\ ~run[p].failed)
  /\ \/ relied' = relied
     \/ relied' = relied \cup {Target(p)} /\ run[p].pc = "look" /\ Verified(Target(p), dirs[Target(p)])
     \/ relied' = relied \cup {Target(p)} /\ run[p].pc \in {"tidy", "tidyLock"} /\ run'[p].pc = "ok"
        /\ (run[p].pc = "tidy" => ~run[p].failed)

(***************************************************************************)
(* Every step of a run fits.                                               *)
(***************************************************************************)

(* The stage is made and filled (MkdirTemp, bindStageRename).              *)
LEMMA MakeFits ==
  ASSUME Shape, NEW p \in Procs, StageInv(p), (MakeStage(p) \/ StageLost(p)) /\ UNCHANGED rootVars
  PROVE Fits(p) /\ StageInv(p)'
<1>1. CASE MakeStage(p)
  BY <1>1 DEF MakeStage, Set, At, Target, Shape, FieldNames, DirFields, Fits, Frame, StageInv, First,
       Sound, Ended, rootVars, Nothing
<1>2. CASE StageLost(p)
  BY <1>2 DEF StageLost, Set, At, Target, Shape, FieldNames, DirFields, Fits, Frame, StageInv, First,
       Sound, Ended, rootVars, Nothing
<1> QED BY <1>1, <1>2

(* The lock and the looks before anything is made.                         *)
LEMMA LockFits ==
  ASSUME Shape, NEW p \in Procs, StageInv(p), Lock(p) PROVE Fits(p) /\ StageInv(p)'
<1>1. Frame(p) /\ UNCHANGED <<dirs, stage, relied>> /\ run[p].pc = "lock"
      /\ run'[p].pc \in {"prestate", "look", "failed"}
      /\ run'[p].created = run[p].created /\ run'[p].failed = run[p].failed
  BY DEF Lock, To, At, NoStage, Shape, FieldNames, DirFields, Frame
<1> QED BY <1>1 DEF Fits, StageInv, First, Sound, Ended

(* What was copied is verified; then the rename is tried.                  *)
LEMMA VerifyFits ==
  ASSUME Shape, NEW p \in Procs, StageInv(p), (VerifyStage(p) \/ CheckBound(p)) /\ UNCHANGED rootVars
  PROVE Fits(p) /\ StageInv(p)'
<1>1. CASE VerifyStage(p)
  BY <1>1 DEF VerifyStage, Set, At, Target, Shape, FieldNames, DirFields, Fits, Frame, StageInv, First,
       Sound, Ended, rootVars
<1>2. CASE CheckBound(p)
  BY <1>2 DEF CheckBound, PreState, Retain, Set, At, Target, Shape, FieldNames, DirFields, Fits, Frame,
       StageInv, First, Sound, Ended, rootVars
<1> QED BY <1>1, <1>2

(* The rename itself.                                                      *)
LEMMA RenameFits ==
  ASSUME Shape, NEW p \in Procs, StageInv(p), Rename(p) /\ UNCHANGED rootVars
  PROVE Fits(p) /\ StageInv(p)'
<1>1. CASE Move(p)
  <2>1. Appears(p) /\ relied' = relied /\ stage' = [stage EXCEPT ![p] = Nothing]
    BY <1>1 DEF Move, Rename, At, Appears, rootVars
  <2>2. run'[p].pc \in {"moved", "rejected"} /\ run'[p].created = run[p].created /\ run'[p].failed = run[p].failed
        /\ DOMAIN run' = Procs /\ DOMAIN run'[p] = FieldNames /\ run'[p].job = run[p].job
        /\ \A q \in Procs \ {p} : run'[q] = run[q]
    BY DEF Rename, Set, Shape, FieldNames
  <2>3. DOMAIN Nothing = DirFields
    BY DEF Nothing, DirFields
  <2>4. Target(p) \in Targets
    BY PromotionAssumption DEF Shape, Target, Targets
  <2>5. DOMAIN dirs' = Targets /\ \A t \in Targets : DOMAIN dirs'[t] = DirFields
    BY <2>1, <2>4 DEF Appears, Shape
  <2>6. Frame(p)
    BY <2>1, <2>2, <2>3, <2>5 DEF Frame, Shape
  <2> QED BY <2>1, <2>2, <2>6 DEF Appears, Fits, StageInv, First, Sound, Ended
<1>2. CASE UNCHANGED <<dirs, stage>>
  BY <1>2 DEF Move, Rename, Set, At, Target, Shape, FieldNames, DirFields, Fits, Frame, StageInv, First,
       Sound, Ended, rootVars
<1> QED BY <1>1, <1>2 DEF Rename

(* After it, and between two attempts.                                     *)
LEMMA RetryFits ==
  ASSUME Shape, NEW p \in Procs, StageInv(p), (AfterMove(p) \/ AfterReject(p) \/ Retry(p)) /\ UNCHANGED rootVars
  PROVE Fits(p) /\ StageInv(p)'
<1>1. CASE AfterMove(p)
  BY <1>1 DEF AfterMove, Retain, Set, At, Target, Shape, FieldNames, DirFields, Fits, Frame, StageInv,
       First, Sound, Ended, rootVars
<1>2. CASE AfterReject(p)
  BY <1>2 DEF AfterReject, Retain, Set, To, At, Target, Shape, FieldNames, DirFields, Fits, Frame,
       StageInv, First, Sound, Ended, rootVars
<1>3. CASE Retry(p)
  BY <1>3 DEF Retry, Retain, PreState, Set, At, Target, Shape, FieldNames, DirFields, Fits, Frame,
       StageInv, First, Sound, Ended, rootVars
<1> QED BY <1>1, <1>2, <1>3

(* The deferred cleanup of an unmoved stage.                               *)
LEMMA CleanupFits ==
  ASSUME Shape, NEW p \in Procs, StageInv(p), (Cleanup(p) \/ RemoveStage(p)) /\ UNCHANGED rootVars
  PROVE Fits(p) /\ StageInv(p)'
<1>1. CASE Cleanup(p)
  <2>1. CASE ~run[p].retained /\ ~run[p].promoted /\ PreState(p)
    BY <1>1, <2>1 DEF Cleanup, PreState, Set, At, Target, Shape, FieldNames, DirFields, Fits, Frame,
         StageInv, First, Sound, Ended, rootVars
  <2>2. CASE ~(~run[p].retained /\ ~run[p].promoted /\ PreState(p))
    <3> DEFINE left == run[p].failed \/ run[p].retained \/ stage[p] # Nothing
    <3>1. Set(p, "tidy", [failed |-> left]) /\ run[p].pc = "cleanup" /\ UNCHANGED <<dirs, stage, relied>>
      BY <1>1, <2>2 DEF Cleanup, At, rootVars
    <3>2. run[p].failed => left
      OBVIOUS
    <3> HIDE DEF left
    <3>3. run'[p].failed = left /\ run'[p].pc = "tidy" /\ run'[p].created = run[p].created /\ Frame(p)
      BY <3>1 DEF Set, Shape, FieldNames, Frame
    <3> QED BY <3>1, <3>2, <3>3 DEF Fits, StageInv, First, Sound, Ended
  <2> QED BY <2>1, <2>2
<1>2. CASE RemoveStage(p)
  BY <1>2 DEF RemoveStage, Nothing, To, At, Target, Shape, FieldNames, DirFields, Fits, Frame, StageInv,
       First, Sound, Ended, rootVars
<1> QED BY <1>1, <1>2

(* The looks at alias, target and source, and the copy.                    *)
LEMMA LookFits ==
  ASSUME Shape, NEW p \in Procs, StageInv(p),
         run[p].pc \in {"lock", "prestate", "look"} => run[p].job.kind = "promote",
         ReadAlias(p) \/ LookAtTarget(p) \/ LookAtSource(p) \/ FillStage(p)
  PROVE Fits(p) /\ StageInv(p)'
<1> USE DEF Set, To, At, Fails, NoStage, Steady, Target, Shape, FieldNames, DirFields, Fits, Frame, StageInv, First, Sound, Ended, rootVars
<1>1. CASE ReadAlias(p)
  BY <1>1 DEF ReadAlias
<1>2. CASE LookAtTarget(p)
  <2>1. Target(p) \notin Evidence
    BY <1>2, PromotionAssumption, StageAssumption DEF LookAtTarget
  <2>2. CandidateVerified(dirs[Target(p)]) => Verified(Target(p), dirs[Target(p)])
    BY <2>1 DEF Verified
  <2> QED BY <1>2, <2>2 DEF LookAtTarget, AfterContent
<1>3. CASE LookAtSource(p)
  BY <1>3 DEF LookAtSource
<1>4. CASE FillStage(p)
  <2>1. run[p].pc = "fill" /\ UNCHANGED <<dirs, relied>>
        /\ \E fs : stage' = [stage EXCEPT ![p].files = fs]
    BY <1>4 DEF FillStage, Fill
  <2>2. Set(p, "cleanup", [failed |-> TRUE]) \/ To(p, "verify")
    BY <1>4 DEF FillStage, Fill
  <2> QED BY <2>1, <2>2
<1> QED BY <1>1, <1>2, <1>3, <1>4

(* The new target is read back, and from then on counts as created.        *)
LEMMA ReadBackFits ==
  ASSUME Shape, NEW p \in Procs, StageInv(p), ReadBack(p)
  PROVE Fits(p) /\ StageInv(p)'
<1>1. run[p].pc = "readback" /\ UNCHANGED <<dirs, stage, relied>>
  BY DEF ReadBack, At, Steady, NoStage, rootVars
<1> DEFINE Done(mine) ==
      \/ Verified(Target(p), dirs[Target(p)]) /\ \E s \in {"temp", "cleanup", "tidy"} : Set(p, s, [created |-> mine])
      \/ Set(p, "cleanup", [created |-> mine, failed |-> TRUE])
<1>2. Done(run[p].job.kind = "promote")
  BY DEF ReadBack, AfterContent
<1>3. CASE run[p].job.kind = "promote"
  <2>1. (run[p].job.kind = "promote") = TRUE
    BY <1>3
  <2>2. Done(TRUE)
    BY <1>2, <2>1, Zenon
  <2> QED
    BY <1>1, <1>3, <2>2 DEF Set, Shape, FieldNames, Fits, Frame, StageInv, First, Sound, Ended
<1>4. CASE ~(run[p].job.kind = "promote")
  <2>1. (run[p].job.kind = "promote") = FALSE
    BY <1>4
  <2>2. Done(FALSE)
    BY <1>2, <2>1, Zenon
  <2> QED
    BY <1>1, <2>2 DEF Set, Shape, FieldNames, Fits, Frame, StageInv, First, Sound, Ended
<1> QED BY <1>3, <1>4

(* Then the alias is exchanged.                                            *)
LEMMA AliasFits ==
  ASSUME Shape, NEW p \in Procs, StageInv(p),
         CreateTemp(p) \/ BackUpAlias(p) \/ SwapAlias(p)
  PROVE Fits(p) /\ StageInv(p)'
<1>1. CASE CreateTemp(p)
  <2>1. run[p].pc = "temp" /\ UNCHANGED <<dirs, stage, relied>>
    BY <1>1 DEF CreateTemp, At, NoStage, Steady, rootVars
  <2>2. ASSUME NEW s \in {"swap", "backup"}, Set(p, s, [temp |-> TRUE]) PROVE Fits(p) /\ StageInv(p)'
    BY <2>1, <2>2 DEF Set, Target, Shape, FieldNames, DirFields, Fits, Frame, StageInv, First, Sound, Ended
  <2>3. ASSUME NEW s \in {"cleanup", "tidy"}, NEW left \in BOOLEAN, Set(p, s, [temp |-> left, failed |-> TRUE])
        PROVE  Fits(p) /\ StageInv(p)'
    BY <2>1, <2>3 DEF Set, Target, Shape, FieldNames, DirFields, Fits, Frame, StageInv, First, Sound, Ended
  <2> QED BY <1>1, <2>2, <2>3 DEF CreateTemp, AfterAlias
<1>2. CASE BackUpAlias(p)
  BY <1>2 DEF BackUpAlias, AfterAlias, Set, To, At, Fails, NoStage, Steady, Target, Shape, FieldNames,
       DirFields,
       Fits, Frame, StageInv, First, Sound, Ended, rootVars
<1>3. CASE SwapAlias(p)
  BY <1>3 DEF SwapAlias, AfterAlias, Set, To, At, Fails, NoStage, Steady, Target, Shape, FieldNames,
       DirFields,
       Fits, Frame, StageInv, First, Sound, Ended, rootVars
<1> QED BY <1>1, <1>2, <1>3

(* The deferred end, without and with a failure.                           *)
LEMMA EndFits ==
  ASSUME Shape, NEW p \in Procs, StageInv(p),
         \/ Tidy(p) \/ TidyBackup(p) \/ TidyLock(p) \/ RemoveAlias(p) \/ PutBack(p) \/ Release(p)
  PROVE Fits(p) /\ StageInv(p)'
<1> USE DEF Set, To, At, Fails, NoStage, Steady, Target, Shape, FieldNames, DirFields, Fits, Frame, StageInv, First, Sound, Ended, rootVars
<1>1. CASE Tidy(p)
  BY <1>1 DEF Tidy
<1>2. CASE TidyBackup(p)
  BY <1>2 DEF TidyBackup
<1>3. CASE TidyLock(p)
  BY <1>3 DEF TidyLock
<1>4. CASE RemoveAlias(p)
  BY <1>4 DEF RemoveAlias
<1>5. CASE PutBack(p)
  BY <1>5 DEF PutBack
<1>6. CASE Release(p)
  BY <1>6 DEF Release
<1> QED BY <1>1, <1>2, <1>3, <1>4, <1>5, <1>6

(* A candidate of the run's own is rolled back (rollbackNewCandidate).     *)
LEMMA RollbackFits ==
  ASSUME Shape, NEW p \in Procs, StageInv(p), Disown(p) \/ RemoveFile(p) \/ RemoveCandidate(p)
  PROVE Fits(p) /\ StageInv(p)'
<1> USE DEF Set, To, At, Steady, NoStage, Target, Shape, FieldNames, DirFields, Fits, Frame, RollsBack, StageInv, First, Sound, Ended, rootVars
<1>1. CASE Disown(p)
  BY <1>1 DEF Disown
<1>2. CASE RemoveFile(p)
  <2>1. /\ run[p].pc = "rollback" /\ UNCHANGED <<stage, relied>>
        /\ \E s \in {"rmdir", "rollback", "failed"} : run' = [run EXCEPT ![p].pc = s]
    BY <1>2 DEF RemoveFile
  <2>2. dirs' = dirs \/ \E f \in NamesOf(Target(p)) :
          dirs[Target(p)].files[f] # "missing" /\ dirs' = [dirs EXCEPT ![Target(p)].files[f] = "missing"]
    BY <1>2 DEF RemoveFile
  <2>3. \A f \in NamesOf(Target(p)) : dirs[Target(p)].files[f] # "missing" => dirs[Target(p)] # Stranger
    BY DEF NamesOf, Stranger
  <2> QED BY ZenonT(60), <2>1, <2>2, <2>3
<1>3. CASE RemoveCandidate(p)
  <2>1. /\ run[p].pc = "rmdir" /\ UNCHANGED <<stage, relied>> /\ run' = [run EXCEPT ![p].pc = "failed"]
        /\ dirs' = dirs \/ (~dirs[Target(p)].extra /\ dirs' = [dirs EXCEPT ![Target(p)] = Nothing])
    BY <1>3 DEF RemoveCandidate
  <2>2. DOMAIN Nothing = DirFields /\ (~dirs[Target(p)].extra => dirs[Target(p)] # Stranger)
    BY DEF Nothing, Stranger
  <2> QED BY <2>1, <2>2
<1> QED BY <1>1, <1>2, <1>3

(* So every step of a run does.                                            *)
LEMMA StepFits ==
  ASSUME Shape, NEW p \in Procs, StageInv(p), Step(p),
         run[p].pc \in {"lock", "prestate", "look"} => run[p].job.kind = "promote"
  PROVE Fits(p) /\ StageInv(p)'
<1>1. CASE StageStep(p) /\ UNCHANGED rootVars
  BY <1>1, MakeFits, VerifyFits, RenameFits, RetryFits, CleanupFits DEF StageStep
<1>2. CASE ~(StageStep(p) /\ UNCHANGED rootVars)
  BY <1>2, LockFits, LookFits, ReadBackFits, AliasFits, EndFits, RollbackFits DEF Step
<1> QED BY <1>1, <1>2

(***************************************************************************)
(* What a run relies on, and on what others rely.                          *)
(***************************************************************************)

(* A promotion has created its target only while no run relies on it; and  *)
(* from its own verification to its end, if nothing failed, its target is  *)
(* intact.                                                                 *)
OwnInv(p) ==
  /\ run[p].pc \in {"lock", "prestate", "look"} => run[p].job.kind = "promote" /\ ~run[p].created
  /\ run[p].created => run[p].job.kind = "promote"
  /\ run[p].pc \in {"disown", "rollback", "rmdir"} => run[p].created
RetInv ==
  /\ VerifiedRetained /\ relied \subseteq Targets
  /\ \A p \in Procs :
       /\ (run[p].created /\ run[p].pc \notin Ended) => Target(p) \notin relied
       /\ (run[p].job.kind = "promote" /\ run[p].pc \in {"moved", "readback"}) => Target(p) \notin relied
       /\ (run[p].pc \in Sound /\ ~run[p].failed) => Intact(Target(p))
PInv == CoreInv /\ \A p \in Procs : OwnInv(p)

(* Begin, Kill, a cleared lock and what others do to the directories.      *)
LEMMA BeginKeeps ==
  ASSUME PInv, NEW p \in Procs, NEW j \in Jobs[p], Begin(p, j)
  PROVE PInv'
<1>1. DOMAIN run' = Procs /\ DOMAIN dirs' = Targets /\ DOMAIN stage' = Procs
      /\ run'[p] = Start(j, IF j.kind = "promote" THEN "lock" ELSE "source", run[p].n + 1)
      /\ stage'[p] = Nothing
      /\ \A q \in Procs \ {p} : run'[q] = run[q] /\ stage'[q] = stage[q]
  BY DEF Begin, PInv, CoreInv, Shape
<1>2. \A t \in Targets : DOMAIN dirs'[t] = DirFields
  BY DEF Begin, PInv, CoreInv, Shape
<1>3. DOMAIN Nothing = DirFields
  BY DEF Nothing, DirFields
<1>4. DOMAIN run'[p] = FieldNames /\ run'[p].job = j /\ ~run'[p].created
      /\ run'[p].pc = (IF j.kind = "promote" THEN "lock" ELSE "source")
  BY <1>1 DEF Start, FieldNames
<1>5. Shape'
  BY <1>1, <1>2, <1>3, <1>4 DEF PInv, CoreInv, Shape
<1>6. StageInv(p)' /\ OwnInv(p)'
  BY <1>1, <1>4 DEF StageInv, OwnInv, First
<1>7. \A q \in Procs \ {p} : StageInv(q)' /\ OwnInv(q)'
  BY <1>1 DEF PInv, CoreInv, StageInv, OwnInv, Target
<1> QED BY <1>5, <1>6, <1>7 DEF PInv, CoreInv

(* A killed run stops where it is.                                         *)
LEMMA KillKeeps ==
  ASSUME PInv, NEW p \in Procs, Kill(p)
  PROVE PInv'
<1>1. /\ UNCHANGED <<dirs, stage>> /\ run' = [run EXCEPT ![p].pc = "dead"]
  BY DEF Kill, To
<1>2. DOMAIN run' = Procs /\ DOMAIN run'[p] = FieldNames /\ run'[p].job = run[p].job /\ run'[p].pc = "dead"
      /\ run'[p].created = run[p].created
      /\ \A q \in Procs \ {p} : run'[q] = run[q]
  BY <1>1 DEF PInv, CoreInv, Shape, FieldNames
<1>3. Shape'
  BY <1>1, <1>2 DEF PInv, CoreInv, Shape
<1>4. StageInv(p)' /\ OwnInv(p)'
  BY <1>2 DEF StageInv, OwnInv, First, PInv
<1>5. \A q \in Procs \ {p} : StageInv(q)' /\ OwnInv(q)'
  BY <1>1, <1>2 DEF PInv, CoreInv, StageInv, OwnInv, Target
<1> QED BY <1>3, <1>4, <1>5 DEF PInv, CoreInv

(* Whatever others put in place of a stage, the run knows nothing of it.   *)
LEMMA ForeignKeeps ==
  ASSUME PInv, ForeignDirectory
  PROVE PInv'
<1>1. PICK ps \in SUBSET Procs : Stale(ps)
  BY DEF ForeignDirectory
<1>2. DOMAIN run' = Procs /\ \A q \in Procs :
        /\ DOMAIN run'[q] = FieldNames /\ run'[q].job = run[q].job /\ run'[q].pc = run[q].pc
        /\ run'[q].created = run[q].created /\ run'[q].failed = run[q].failed
        /\ run'[q] = run[q] \/ (run'[q].stale /\ run'[q].dirty)
  BY <1>1 DEF Stale, PInv, CoreInv, Shape, FieldNames
<1>3. /\ DOMAIN dirs' = Targets /\ \A t \in Targets : DOMAIN dirs'[t] = DirFields
      /\ DOMAIN stage' = Procs /\ \A q \in Procs : DOMAIN stage'[q] = DirFields
  <2>1. DOMAIN Stranger = DirFields /\ DOMAIN Nothing = DirFields
    BY DEF Stranger, Nothing, DirFields
  <2>2. CASE \E t \in Targets : dirs' = [dirs EXCEPT ![t] = Stranger] /\ UNCHANGED stage
    BY <2>1, <2>2 DEF PInv, CoreInv, Shape
  <2>3. CASE UNCHANGED dirs /\ \E p \in Procs :
               \E d \in {Stranger, Nothing, [stage[p] EXCEPT !.files["archive"] = "changed"]} :
                 stage' = [stage EXCEPT ![p] = d]
    BY <2>1, <2>3 DEF PInv, CoreInv, Shape
  <2> QED BY <2>2, <2>3 DEF ForeignDirectory
<1>4. \A q \in Procs : stage'[q] = stage[q] \/ (stage[q] # Nothing /\ run'[q].stale /\ run'[q].dirty)
  <2>1. CASE UNCHANGED stage
    BY <2>1
  <2>2. CASE \E r \in Procs : stage[r] # Nothing /\ Stale({r}) /\ \E d : stage' = [stage EXCEPT ![r] = d]
    BY <2>2 DEF Stale, PInv, CoreInv, Shape, FieldNames
  <2> QED BY <2>1, <2>2 DEF ForeignDirectory
<1>5. Shape'
  BY <1>2, <1>3 DEF PInv, CoreInv, Shape
<1>6. \A q \in Procs : StageInv(q)'
  BY <1>2, <1>4 DEF PInv, CoreInv, StageInv, Target, First
<1>7. \A q \in Procs : OwnInv(q)'
  BY <1>2 DEF PInv, OwnInv
<1> QED BY <1>5, <1>6, <1>7 DEF PInv, CoreInv

(* A step that fits keeps what the others have.                            *)
LEMMA StepKeeps ==
  ASSUME PInv, NEW p \in Procs, Step(p)
  PROVE PInv' /\ Fits(p)
<1>1. Fits(p) /\ StageInv(p)'
  BY StepFits DEF PInv, CoreInv, OwnInv
<1>2. Shape'
  BY <1>1 DEF Fits, Frame, PInv, CoreInv, Shape
<1>3. OwnInv(p)'
  BY <1>1 DEF Fits, Frame, PInv, OwnInv
<1>4. \A q \in Procs \ {p} : StageInv(q)' /\ OwnInv(q)'
  BY <1>1 DEF Fits, Frame, PInv, CoreInv, StageInv, OwnInv, Target
<1> QED BY <1>1, <1>2, <1>3, <1>4 DEF PInv, CoreInv

(* It holds before the first run.                                          *)
LEMMA PInvInit == Init => PInv
<1> SUFFICES ASSUME Init PROVE PInv
  OBVIOUS
<1>1. DOMAIN dirs = Targets /\ \A t \in Targets : DOMAIN dirs[t] = DirFields
  BY DEF Init, Full, Nothing, DirFields
<1>2. DOMAIN stage = Procs /\ \A p \in Procs : stage[p] = Nothing /\ DOMAIN stage[p] = DirFields
  BY DEF Init, Nothing, DirFields
<1>3. DOMAIN run = Procs /\ \A p \in Procs : run[p] \in {Start(j, "idle", 0) : j \in UNION {Jobs[q] : q \in Procs}}
      /\ run[p].job \in Jobs[p]
  BY PromotionAssumption DEF Init
<1>4. \A p \in Procs : DOMAIN run[p] = FieldNames /\ run[p].pc = "idle" /\ ~run[p].created
  BY <1>3 DEF Start, FieldNames
<1> QED BY <1>1, <1>2, <1>3, <1>4 DEF PInv, CoreInv, Shape, StageInv, OwnInv, First

(* Every step of the specification keeps the invariant.                    *)
LEMMA PInvNext == PInv /\ [Next]_vars => PInv'
<1> SUFFICES ASSUME PInv, [Next]_vars PROVE PInv'
  OBVIOUS
<1>1. CASE UNCHANGED <<dirs, stage, run>>
  BY <1>1 DEF PInv, CoreInv, Shape, StageInv, OwnInv, Target
<1>2. ASSUME NEW p \in Procs, Step(p) PROVE PInv'
  BY <1>2, StepKeeps
<1>3. ASSUME NEW p \in Procs, Kill(p) PROVE PInv'
  BY <1>3, KillKeeps
<1>4. ASSUME NEW p \in Procs, NEW j \in Jobs[p], Begin(p, j) PROVE PInv'
  BY <1>4, BeginKeeps
<1>5. CASE ForeignDirectory
  BY <1>5, ForeignKeeps
<1>6. ClearLock => UNCHANGED <<dirs, stage, run>>
  BY DEF ClearLock
<1>7. UNCHANGED vars => UNCHANGED <<dirs, stage, run>>
  BY DEF vars
<1> QED BY <1>1, <1>2, <1>3, <1>4, <1>5, <1>6, <1>7 DEF Next

(***************************************************************************)
(* Directories appear whole, and strangers are left alone.                 *)
(***************************************************************************)
(* The two action properties of OnlyWholeOnlyOwn.                          *)
NowWhole == \A p \in Procs : \A t \in Targets :
  (At(p, "rename") /\ run'[p].pc # "rename" /\ dirs'[t] # dirs[t] /\ ~run[p].dirty) => Verified(t, dirs'[t])
NowLeft == \A p \in Procs : \A t \in Targets :
  /\ (run[p].pc \notin Ended /\ run'[p].pc # run[p].pc /\ stage'[p].ino # stage[p].ino) =>
       stage[p] = Nothing \/ stage[p].ino = p \/ run[p].stale
  /\ (dirs[t] = Stranger /\ \A q \in Procs : Target(q) = t => ~run[q].stale) => dirs'[t] = Stranger

(* What a step lets appear is whole, and what it takes away is its own.    *)
LEMMA StepWholeLeft ==
  ASSUME PInv, NEW p \in Procs, Step(p), Fits(p) PROVE NowWhole /\ NowLeft
<1>1. \A q \in Procs \ {p} : run'[q] = run[q] /\ stage'[q] = stage[q]
  BY DEF Fits, Frame
<1>2. ASSUME NEW t \in Targets, run[p].pc = "rename", dirs'[t] # dirs[t], ~run[p].dirty PROVE Verified(t, dirs'[t])
  <2>1. Appears(p) /\ Verified(Target(p), stage[p])
    BY <1>2 DEF Fits, RollsBack, PInv, CoreInv, StageInv
  <2> QED BY <1>2, <2>1 DEF Appears, PInv, CoreInv, Shape
<1>3. run[p].pc \notin Ended /\ stage'[p].ino # stage[p].ino => stage[p] = Nothing \/ stage[p].ino = p \/ run[p].stale
  BY DEF Fits, PInv, CoreInv, StageInv, First
<1>4. ASSUME NEW t \in Targets, dirs[t] = Stranger PROVE dirs'[t] = Stranger
  <2>1. Stranger # Nothing
    BY DEF Stranger, Nothing
  <2>2. dirs' = dirs \/ Appears(p) \/ RollsBack(p)
    BY DEF Fits
  <2> QED BY <1>4, <2>1, <2>2 DEF Appears, RollsBack, PInv, CoreInv, Shape
<1> QED BY <1>1, <1>2, <1>3, <1>4 DEF NowWhole, NowLeft, At

(* So does every other step.                                               *)
LEMMA NextWholeLeft ==
  ASSUME PInv, [Next]_vars PROVE NowWhole /\ NowLeft
<1>1. CASE UNCHANGED <<dirs, stage>>
  BY <1>1 DEF NowWhole, NowLeft
<1>2. ASSUME NEW p \in Procs, Step(p) PROVE NowWhole /\ NowLeft
  BY <1>2, StepKeeps, StepWholeLeft
<1>3. ASSUME NEW p \in Procs, Kill(p) PROVE UNCHANGED <<dirs, stage>>
  BY <1>3 DEF Kill
<1>4. ASSUME NEW p \in Procs, NEW j \in Jobs[p], Begin(p, j) PROVE NowWhole /\ NowLeft
  <2>1. run[p].pc \in Ended /\ \A q \in Procs \ {p} : run'[q] = run[q] /\ stage'[q] = stage[q]
    BY <1>4 DEF Begin, PInv, CoreInv, Shape
  <2>2. \A t \in Targets : dirs[t] = Stranger => dirs'[t] = Stranger
    <3>1. Stranger.ino = "other" /\ p # "other"
      BY StageAssumption DEF Stranger
    <3> QED BY <1>4, <3>1 DEF Begin
  <2>3. "rename" \notin Ended
    BY DEF Ended
  <2> QED BY <2>1, <2>2, <2>3 DEF NowWhole, NowLeft, At
<1>5. CASE ForeignDirectory
  <2>1. \A p \in Procs : run'[p].pc = run[p].pc
    BY <1>5 DEF ForeignDirectory, Stale, PInv, CoreInv, Shape, FieldNames
  <2>2. \A t \in Targets : dirs[t] = Stranger => dirs'[t] = Stranger
    BY <1>5 DEF ForeignDirectory, PInv, CoreInv, Shape
  <2> QED BY <2>1, <2>2 DEF NowWhole, NowLeft, At
<1>6. ClearLock \/ UNCHANGED vars => UNCHANGED <<dirs, stage>>
  BY DEF ClearLock, vars
<1> QED BY <1>1, <1>2, <1>3, <1>4, <1>5, <1>6 DEF Next

(* A target becomes visible complete, and nobody else's directory is moved *)
(* or removed, for any processes, jobs, retries, failures, kills and       *)
(* interference.                                                           *)
THEOREM WholeAndOwn == Spec => OnlyWholeOnlyOwn
<1>1. PInv /\ [Next]_vars => [NowWhole]_vars /\ [NowLeft]_vars
  BY NextWholeLeft
<1>2. Spec => [][NowWhole]_vars /\ [][NowLeft]_vars
  BY <1>1, PInvInit, PInvNext, PTL DEF Spec
<1>3. OnlyWholeOnlyOwn <=> [][NowWhole]_vars /\ [][NowLeft]_vars
  BY DEF OnlyWholeOnlyOwn, VisibleWhenComplete, StrangersLeftAlone, NowWhole, NowLeft
<1> QED BY <1>2, <1>3

(***************************************************************************)
(* What was verified is retained, if no two processes promote to the same  *)
(* target.                                                                 *)
(***************************************************************************)
(* The assumption.                                                         *)
Apart == \A p, q \in Procs : p # q =>
  \A i \in Jobs[p], j \in Jobs[q] : i.kind = "promote" /\ j.kind = "promote" => i.target # j.target

(* A target nobody holds is not complete, and one others hold counts as    *)
(* interfered with.                                                        *)
LEMMA NothingVerified == \A t : ~Verified(t, Nothing) /\ Stranger.ino = "other" /\ Nothing.ino # "other"
BY DEF Verified, Nothing, Stranger, SupplyVerified, CandidateVerified, Files

(* The target a promotion has created is no other run's.                   *)
LEMMA OwnTarget ==
  ASSUME Apart, PInv, NEW p \in Procs, NEW q \in Procs, p # q, run[p].job.kind = "promote"
  PROVE Target(p) # Target(q)
<1>1. run[p].job \in Jobs[p] /\ run[q].job \in Jobs[q]
  BY DEF PInv, CoreInv, Shape
<1>2. CASE run[q].job.kind = "promote"
  BY <1>1, <1>2 DEF Apart, Target
<1>3. CASE run[q].job.kind # "promote"
  <2>1. run[p].job.target \in Candidates /\ run[q].job.target \in Evidence
    BY <1>1, <1>3, PromotionAssumption
  <2> QED BY <2>1, StageAssumption DEF Target
<1> QED BY <1>2, <1>3

(* What is intact stays so in every step of a run, unless that is its own  *)
(* rollback,                                                               *)
LEMMA StepIntact ==
  ASSUME PInv, NEW p \in Procs, Fits(p)
  PROVE  \A t \in Targets : Intact(t) => Intact(t)' \/ (RollsBack(p) /\ t = Target(p))
<1>1. CASE dirs' = dirs
  BY <1>1 DEF Intact
<1>2. CASE Appears(p)
  <2>1. Target(p) \in Targets
    BY PromotionAssumption DEF PInv, CoreInv, Shape, Target, Targets
  <2> QED BY <1>2, <2>1, NothingVerified DEF Intact, Appears, PInv, CoreInv, Shape
<1>3. CASE RollsBack(p)
  BY <1>3 DEF Intact, RollsBack
<1> QED BY <1>1, <1>2, <1>3 DEF Fits

(* when a run begins,                                                      *)
LEMMA BeginIntact ==
  ASSUME PInv, NEW p \in Procs, NEW j \in Jobs[p], Begin(p, j)
  PROVE  \A t \in Targets : Intact(t) => Intact(t)'
<1>1. \A t \in Targets : dirs'[t] = dirs[t] \/ (dirs'[t] = [dirs[t] EXCEPT !.ino = "past"] /\ dirs[t].ino = p)
  BY DEF Begin
<1> SUFFICES ASSUME NEW t \in Targets, Intact(t), dirs'[t] = [dirs[t] EXCEPT !.ino = "past"], dirs[t].ino = p
             PROVE  Intact(t)'
  BY <1>1 DEF Intact
<1>2. dirs'[t].files = dirs[t].files /\ dirs'[t].extra = dirs[t].extra
  BY DEF PInv, CoreInv, Shape, DirFields
<1>3. p # "other"
  BY StageAssumption
<1>4. Verified(t, dirs[t])
  BY <1>3 DEF Intact
<1>5. Verified(t, dirs'[t])
  BY <1>2, <1>4 DEF Verified, SupplyVerified, CandidateVerified, ManifestVerified, SameFiles
<1> QED BY <1>5 DEF Intact

(* and when somebody exchanges a directory.                                *)
LEMMA ForeignIntact ==
  ASSUME PInv, ForeignDirectory PROVE \A t \in Targets : Intact(t) => Intact(t)'
<1>1. \A t \in Targets : dirs'[t] = dirs[t] \/ dirs'[t] = Stranger
  BY DEF ForeignDirectory, PInv, CoreInv, Shape
<1> QED BY <1>1, NothingVerified DEF Intact

(* A step of a run takes away nothing that is relied on.                   *)
LEMMA StepRetains ==
  ASSUME Apart, PInv, RetInv, NEW p \in Procs, Step(p), Fits(p) PROVE RetInv'
<1>1. /\ run'[p].job = run[p].job /\ run[p].pc \notin Ended
      /\ \A q \in Procs \ {p} : run'[q] = run[q]
      /\ Target(p) \in Targets
  BY PromotionAssumption DEF Fits, Frame, PInv, CoreInv, Shape, Target, Targets
<1>2. \A q \in Procs : Target(q)' = Target(q)
  BY <1>1 DEF Target
<1>3. \A t \in Targets : Intact(t) => Intact(t)' \/ (RollsBack(p) /\ t = Target(p))
  BY StepIntact
<1>4. RollsBack(p) => run[p].created /\ run[p].job.kind = "promote" /\ Target(p) \notin relied
  BY DEF RollsBack, PInv, OwnInv, RetInv, Ended
<1>5. relied' = relied \/ (relied' = relied \cup {Target(p)} /\ Intact(Target(p)) /\ ~RollsBack(p)
                          /\ (run[p].pc = "look" \/ run'[p].pc = "ok"))
  <2>1. run[p].pc = "look" /\ Verified(Target(p), dirs[Target(p)]) => Intact(Target(p)) /\ ~RollsBack(p)
    BY DEF Intact, RollsBack
  <2>2. run[p].pc \in {"tidy", "tidyLock"} /\ (run[p].pc = "tidy" => ~run[p].failed) => Intact(Target(p)) /\ ~RollsBack(p)
    BY DEF RetInv, Sound, RollsBack, PInv, CoreInv, StageInv
  <2> QED BY <2>1, <2>2 DEF Fits
<1>6. relied \subseteq Targets /\ relied' \subseteq Targets
  BY <1>5, <1>1 DEF RetInv
<1>7. VerifiedRetained'
  BY <1>3, <1>4, <1>5, <1>6 DEF VerifiedRetained, RetInv
<1>8. ASSUME NEW q \in Procs, run'[q].created, run'[q].pc \notin Ended PROVE Target(q)' \notin relied'
  <2>1. CASE q = p
    <3>1. Target(p) \notin relied /\ run[p].pc # "look"
      BY <1>1, <1>8, <2>1 DEF Fits, PInv, OwnInv, RetInv
    <3>2. run'[p].pc # "ok"
      BY <1>8, <2>1 DEF Ended
    <3> QED BY <1>2, <1>5, <2>1, <3>1, <3>2
  <2>2. CASE q # p
    BY <1>1, <1>2, <1>5, <1>8, <2>2, OwnTarget DEF PInv, OwnInv, RetInv
  <2> QED BY <2>1, <2>2
<1>9. ASSUME NEW q \in Procs, run'[q].job.kind = "promote", run'[q].pc \in {"moved", "readback"}
      PROVE  Target(q)' \notin relied'
  <2>1. CASE q = p
    <3>1. run[p].pc = "moved" \/ dirs[Target(p)] = Nothing
      BY <1>9, <2>1 DEF Fits
    <3>2. Target(p) \notin relied
      BY <1>1, <1>9, <2>1, <3>1, NothingVerified DEF RetInv, VerifiedRetained, Intact
    <3>3. run[p].pc # "look" /\ run'[p].pc # "ok"
      BY <1>9, <2>1, <3>1 DEF Fits
    <3> QED BY <1>2, <1>5, <2>1, <3>2, <3>3
  <2>2. CASE q # p
    BY <1>1, <1>2, <1>5, <1>9, <2>2, OwnTarget DEF RetInv
  <2> QED BY <2>1, <2>2
<1>10. ASSUME NEW q \in Procs, run'[q].pc \in Sound, ~run'[q].failed PROVE Intact(Target(q))'
  <2>1. Intact(Target(q)) /\ Target(q) \in Targets
    BY <1>1, <1>10, PromotionAssumption DEF RetInv, Fits, Intact, PInv, CoreInv, Shape, Target, Targets
  <2>2. ~(RollsBack(p) /\ Target(q) = Target(p))
    <3>1. CASE q = p
      BY <1>10, <3>1 DEF RollsBack, Sound
    <3>2. CASE q # p
      BY <1>4, <3>2, OwnTarget
    <3> QED BY <3>1, <3>2
  <2> QED BY <1>2, <1>3, <2>1, <2>2 DEF Intact
<1> QED BY <1>6, <1>7, <1>8, <1>9, <1>10 DEF RetInv

(* A new run of a process, a killed one, and interference.                 *)
LEMMA BeginRetains ==
  ASSUME PInv, RetInv, NEW p \in Procs, NEW j \in Jobs[p], Begin(p, j) PROVE RetInv'
<1>1. /\ relied' = relied /\ \A q \in Procs \ {p} : run'[q] = run[q]
      /\ run'[p] = Start(j, IF j.kind = "promote" THEN "lock" ELSE "source", run[p].n + 1)
  BY DEF Begin, PInv, CoreInv, Shape
<1>2. \A t \in Targets : Intact(t) => Intact(t)'
  BY BeginIntact
<1>3. run'[p].pc \in {"lock", "source"} /\ ~run'[p].created
  BY <1>1 DEF Start
<1>4. \A q \in Procs : Target(q) \in Targets
  BY PromotionAssumption DEF PInv, CoreInv, Shape, Target, Targets
<1>5. VerifiedRetained' /\ relied' \subseteq Targets
  BY <1>1, <1>2 DEF RetInv, VerifiedRetained
<1>6. \A q \in Procs :
       /\ (run'[q].created /\ run'[q].pc \notin Ended) => Target(q)' \notin relied'
       /\ (run'[q].job.kind = "promote" /\ run'[q].pc \in {"moved", "readback"}) => Target(q)' \notin relied'
       /\ (run'[q].pc \in Sound /\ ~run'[q].failed) => Intact(Target(q))'
  <2> SUFFICES ASSUME NEW q \in Procs
      PROVE /\ (run'[q].created /\ run'[q].pc \notin Ended) => Target(q)' \notin relied'
            /\ (run'[q].job.kind = "promote" /\ run'[q].pc \in {"moved", "readback"}) => Target(q)' \notin relied'
            /\ (run'[q].pc \in Sound /\ ~run'[q].failed) => Intact(Target(q))'
    OBVIOUS
  <2>1. CASE q = p
    BY <1>3, <2>1 DEF Sound
  <2>2. CASE q # p
    <3>1. run'[q] = run[q] /\ Target(q)' = Target(q)
      BY <1>1, <2>2 DEF Target
    <3>2. Intact(Target(q)) => Intact(Target(q))'
      BY <1>2, <1>4, <3>1 DEF Intact
    <3> QED BY <1>1, <3>1, <3>2 DEF RetInv
  <2> QED BY <2>1, <2>2
<1> QED BY <1>5, <1>6 DEF RetInv

(* A killed run takes away nothing.                                        *)
LEMMA KillRetains ==
  ASSUME PInv, RetInv, NEW p \in Procs, Kill(p) PROVE RetInv'
<1>1. /\ UNCHANGED <<dirs, relied>> /\ run' = [run EXCEPT ![p].pc = "dead"]
  BY DEF Kill, To, rootVars
<1>2. run'[p].job = run[p].job /\ run'[p].pc = "dead"
      /\ \A q \in Procs \ {p} : run'[q] = run[q]
  BY <1>1 DEF PInv, CoreInv, Shape, FieldNames
<1>3. \A q \in Procs : Target(q)' = Target(q)
  BY <1>2 DEF Target
<1>4. \A t : Intact(t)' <=> Intact(t)
  BY <1>1 DEF Intact
<1> QED BY <1>1, <1>2, <1>3, <1>4 DEF RetInv, VerifiedRetained, Intact, Sound, Ended

(* What others put in a target's place counts as intact by definition.     *)
LEMMA ForeignRetains ==
  ASSUME PInv, RetInv, ForeignDirectory, UNCHANGED rootVars PROVE RetInv'
<1>1. PICK ps \in SUBSET Procs : Stale(ps)
  BY DEF ForeignDirectory
<1>2. \A q \in Procs :
        /\ run'[q].job = run[q].job /\ run'[q].pc = run[q].pc
        /\ run'[q].created = run[q].created /\ run'[q].failed = run[q].failed
  BY <1>1 DEF Stale, PInv, CoreInv, Shape, FieldNames
<1>4. \A t \in Targets : Intact(t) => Intact(t)'
  BY ForeignIntact
<1>5. \A q \in Procs : Target(q)' = Target(q) /\ Target(q) \in Targets
  BY <1>2, PromotionAssumption DEF PInv, CoreInv, Shape, Target, Targets
<1>6. relied' = relied
  BY DEF rootVars
<1>7. \A q \in Procs : Intact(Target(q)) => Intact(Target(q))'
  BY <1>4, <1>5 DEF Intact
<1> QED BY <1>2, <1>4, <1>5, <1>6, <1>7 DEF RetInv, VerifiedRetained

(* The candidates that are there at first are complete.                    *)
LEMMA RetInit == Init => RetInv
<1> SUFFICES ASSUME Init PROVE RetInv
  OBVIOUS
<1>1. PICK past \in SUBSET Candidates : relied = past /\ dirs = [t \in Targets |-> IF t \in past THEN Full("past", NamesOf(t)) ELSE Nothing]
  BY DEF Init
<1>2. \A t \in past : t \in Targets /\ t \notin Evidence
  BY StageAssumption DEF Targets
<1>3. \A t \in past : Verified(t, Full("past", NamesOf(t)))
  BY <1>2 DEF Verified, Full, NamesOf, CandidateVerified, ManifestVerified, SameFiles, Files
<1>4. VerifiedRetained /\ relied \subseteq Targets
  BY <1>1, <1>2, <1>3 DEF VerifiedRetained, Intact
<1>5. \A p \in Procs : run[p].pc = "idle"
  BY DEF Init, Start
<1> QED BY <1>4, <1>5 DEF RetInv, Sound, Ended

(* No step takes away what is relied on.                                   *)
LEMMA RetNext == Apart /\ PInv /\ RetInv /\ [Next]_vars => RetInv'
<1> SUFFICES ASSUME Apart, PInv, RetInv, [Next]_vars PROVE RetInv'
  OBVIOUS
<1>1. CASE UNCHANGED <<dirs, run, relied>>
  BY <1>1 DEF RetInv, VerifiedRetained, Intact, Target
<1>2. ASSUME NEW p \in Procs, Step(p) PROVE RetInv'
  BY <1>2, StepKeeps, StepRetains
<1>3. ASSUME NEW p \in Procs, Kill(p) PROVE RetInv'
  BY <1>3, KillRetains
<1>4. ASSUME NEW p \in Procs, NEW j \in Jobs[p], Begin(p, j) PROVE RetInv'
  BY <1>4, BeginRetains
<1>5. CASE ForeignDirectory /\ UNCHANGED rootVars
  BY <1>5, ForeignRetains
<1>6. ClearLock => UNCHANGED <<dirs, run, relied>>
  BY DEF ClearLock
<1>7. UNCHANGED vars => UNCHANGED <<dirs, run, relied>>
  BY DEF vars, rootVars
<1> QED BY <1>1, <1>2, <1>3, <1>4, <1>5, <1>6, <1>7 DEF Next

(* As long as no two processes promote to the same target, a directory a   *)
(* run reported or verified as present stays complete, whatever fails and  *)
(* whoever is killed.  Without the assumption it does not: the run         *)
(* promotion_same shows how.                                               *)
THEOREM RetainedWhenApart == ASSUME Apart PROVE Spec => []VerifiedRetained
<1>1. Init => PInv /\ RetInv
  BY PInvInit, RetInit
<1>2. PInv /\ RetInv /\ [Next]_vars => (PInv /\ RetInv)'
  BY PInvNext, RetNext
<1>3. PInv /\ RetInv => VerifiedRetained
  BY DEF RetInv
<1> QED BY <1>1, <1>2, <1>3, PTL DEF Spec

(***************************************************************************)
(* The alias, while no more than one call has failed or one run was        *)
(* killed: it names a complete candidate or nothing, and then what it was  *)
(* promised to be can be restored.                                         *)
(***************************************************************************)
Promotes(p) == run[p].job.kind = "promote"
Current(p) == Promotes(p) /\ run[p].job.current
Arriving == {"lock", "prestate", "look", "source", "stage", "fill", "verify", "bound", "rename", "moved",
             "rejected", "retry"}
Early == Arriving \cup {"readback", "temp", "backup", "swap"}
Late == {"cleanup", "removal", "tidy", "tidyBackup", "tidyLock"}
Undoing == {"restore", "putback", "release"}
Held == (Early \ {"lock", "prestate", "source"}) \cup Late \cup Undoing
Rolling == {"disown", "rollback", "rmdir"}

(* What a run's place says of what it has done: nothing has failed before  *)
(* its end, the alias is touched by the last step before it, and a stage   *)
(* that was promoted is gone from where it was.                            *)
PlaceInv(p) ==
  /\ run[p].pc \in {"prestate", "temp", "backup", "swap"} => Current(p)
  /\ run[p].pc = "source" => ~Promotes(p)
  /\ run[p].pc \in {"lock", "prestate"} => run[p].orig = None
  /\ run[p].pc \in {"tidyBackup", "tidyLock"} \cup Undoing => Promotes(p)
  /\ ~Current(p) => run[p].orig = None /\ ~run[p].touched /\ run[p].backup = None
  /\ ~Promotes(p) => ~run[p].temp
  /\ run[p].pc \in Early => ~run[p].failed /\ ~run[p].retained
  /\ run[p].pc \in Early \ {"swap"} => ~run[p].touched /\ run[p].backup = None
  /\ run[p].pc \in First => ~run[p].bound
  /\ run[p].pc \in Arriving => ~run[p].promoted
  /\ run[p].promoted => stage[p] = Nothing /\ ~run[p].retained
  /\ run[p].pc = "readback" \/ (run[p].bound /\ run[p].pc \in {"temp", "backup", "swap"}) => run[p].promoted
  /\ run[p].touched /\ run[p].pc = "cleanup" => run[p].promoted
  /\ run[p].pc = "removal" => ~run[p].touched
  /\ run[p].pc = "putback" => run[p].touched
  /\ run[p].pc \in Undoing => run[p].failed
  /\ (Current(p) /\ run[p].pc \in Late /\ ~run[p].failed) => run[p].touched

(* Between its lock and its release a promotion is alone.                  *)
LockInv == \A p \in Procs : (Promotes(p) /\ run[p].pc \in Held \cup {"prestate"}) => lock = p

(* A backup that no run will touch again.                                  *)
Backed == promised \in kept \/ \E q \in Procs : run[q].pc \in Ended /\ run[q].backup = promised

(* Where the alias is, while a promotion holds the lock.                   *)
AliasPlace(p) ==
  /\ ~run[p].touched => run[p].backup = None /\ (alias = run[p].orig \/ (run[p].failed /\ run[p].orig = None))
  /\ run[p].pc = "backup" => run[p].orig # None
  /\ run[p].pc = "swap" =>
       IF run[p].touched THEN alias = None /\ run[p].orig # None /\ run[p].backup = run[p].orig ELSE run[p].orig = None
  /\ run[p].touched /\ run[p].pc \in Late \cup {"restore"} =>
       \/ alias = Target(p) /\ run[p].backup \in {None, run[p].orig}
       \/ run[p].failed /\ alias = None /\ run[p].backup = run[p].orig /\ run[p].orig # None
  /\ run[p].pc = "putback" =>
       run[p].touched /\ alias = None /\ run[p].orig # None /\ run[p].backup \in {None, run[p].orig}
  /\ (run[p].pc = "release" /\ run[p].touched) => alias = run[p].orig
  /\ run[p].touched /\ run[p].failed => faults >= 1
OrigSafe(p) ==
  /\ run[p].orig # None => run[p].orig \in Candidates /\ Intact(run[p].orig) /\ promised = run[p].orig
  /\ (run[p].orig = None /\ (run[p].touched \/ ~run[p].failed)) => promised = None \/ Backed
NewTarget(p) ==
  run[p].created \/ run[p].pc \in {"moved", "readback"} =>
    run[p].orig # Target(p) /\ (~run[p].touched => alias # Target(p))
HolderInv(p) ==
  run[p].pc \in Held => /\ Current(p) => AliasPlace(p) /\ OrigSafe(p)
                        /\ Promotes(p) => NewTarget(p)

(* What is being rolled back is nobody's alias.                            *)
RollingInv(p) ==
  run[p].pc \in Rolling =>
    alias # Target(p) /\ \A q \in Procs : (Promotes(q) /\ run[q].pc \in Held) => run[q].orig # Target(p)

AliasInv ==
  /\ alias # None => alias \in Candidates /\ Intact(alias)
  /\ (promised # None /\ alias = None) => Backed \/ \E p \in Procs : Current(p) /\ run[p].pc \in Held /\ run[p].orig # None
  /\ \A p \in Procs : HolderInv(p) /\ RollingInv(p)
PlacesInv == LockInv /\ \A p \in Procs : PlaceInv(p)
OneFailure == faults <= 1 => AliasInv

(* What the alias's new file changes.                                      *)
LEMMA TempActs ==
  ASSUME Shape, NEW p \in Procs, CreateTemp(p)
  PROVE  /\ run[p].pc = "temp" /\ stage' = stage /\ DOMAIN run'[p] = FieldNames
         /\ \A f \in FieldNames \ {"pc", "temp", "failed"} : run'[p][f] = run[p][f]
         /\ \/ /\ run'[p].failed = run[p].failed
               /\ run'[p].pc = IF run[p].orig = None THEN "swap" ELSE "backup"
            \/ run'[p].failed /\ run'[p].pc = AfterAlias(p) /\ Fault
<1> USE DEF Set, Shape, FieldNames
<1>1. ASSUME NEW s \in {"swap", "backup"}, Set(p, s, [temp |-> TRUE])
      PROVE  /\ DOMAIN run'[p] = FieldNames /\ run'[p].pc = s
             /\ \A f \in FieldNames \ {"pc", "temp"} : run'[p][f] = run[p][f]
  BY <1>1
<1>2. ASSUME NEW left \in BOOLEAN, Set(p, AfterAlias(p), [temp |-> left, failed |-> TRUE])
      PROVE  /\ DOMAIN run'[p] = FieldNames /\ run'[p].pc = AfterAlias(p) /\ run'[p].failed
             /\ \A f \in FieldNames \ {"pc", "temp", "failed"} : run'[p][f] = run[p][f]
  BY <1>2
<1>3. \/ \E s \in {"swap", "backup"} :
            Set(p, s, [temp |-> TRUE]) /\ s = (IF run[p].orig = None THEN "swap" ELSE "backup")
      \/ \E left \in BOOLEAN : Set(p, AfterAlias(p), [temp |-> left, failed |-> TRUE]) /\ Fault
  BY DEF CreateTemp
<1>4. run[p].pc = "temp" /\ stage' = stage
  BY DEF CreateTemp, At, Steady, NoStage
<1> QED BY ONLY <1>1, <1>2, <1>3, <1>4 DEF FieldNames

-----------------------------------------------------------------------------
(* A run's place is kept by its own steps: the stage and its rename,       *)
LEMMA StagePlaces ==
  ASSUME Shape, NEW p \in Procs, PlaceInv(p), StageStep(p), UNCHANGED rootVars
  PROVE PlaceInv(p)'
<1> USE DEF Set, To, At, Retain, PreState, OwnedTarget, Target, Shape, FieldNames, PlaceInv, Promotes, Current,
            First, Arriving, Early, Late, Undoing
<1>1. CASE MakeStage(p)
  BY <1>1 DEF MakeStage
<1>2. CASE StageLost(p) \/ VerifyStage(p) \/ CheckBound(p)
  BY <1>2 DEF StageLost, VerifyStage, CheckBound
<1>3. CASE Rename(p)
  <2>1. /\ run'[p].pc \in {"moved", "rejected"} /\ run[p].pc = "rename"
        /\ DOMAIN run'[p] = FieldNames /\ \A f \in FieldNames \ {"pc", "tries"} : run'[p][f] = run[p][f]
    BY <1>3 DEF Rename
  <2> QED BY <2>1
<1>4. CASE AfterMove(p)
  BY <1>4 DEF AfterMove
<1>5. CASE AfterReject(p) \/ Retry(p)
  BY <1>5 DEF AfterReject, Retry
<1>6. CASE Cleanup(p)
  <2>1. CASE ~run[p].retained /\ ~run[p].promoted /\ PreState(p)
    BY <1>6, <2>1 DEF Cleanup
  <2>2. CASE ~(~run[p].retained /\ ~run[p].promoted /\ PreState(p))
    <3> DEFINE left == run[p].failed \/ run[p].retained \/ stage[p] # Nothing
    <3>1. Set(p, "tidy", [failed |-> left]) /\ run[p].pc = "cleanup" /\ stage' = stage
      BY <1>6, <2>2 DEF Cleanup
    <3>2. run[p].failed => left
      OBVIOUS
    <3> HIDE DEF left
    <3>3. /\ run'[p].failed = left /\ run'[p].pc = "tidy"
          /\ DOMAIN run'[p] = FieldNames /\ \A f \in FieldNames \ {"pc", "failed"} : run'[p][f] = run[p][f]
      BY <3>1
    <3> QED BY <3>1, <3>2, <3>3
  <2> QED BY <2>1, <2>2
<1>7. CASE RemoveStage(p)
  BY <1>7 DEF RemoveStage
<1> QED BY <1>1, <1>2, <1>3, <1>4, <1>5, <1>6, <1>7 DEF StageStep

(* the looks and the copy,                                                 *)
LEMMA LookPlaces ==
  ASSUME Shape, NEW p \in Procs, PlaceInv(p), OwnInv(p),
         Lock(p) \/ ReadAlias(p) \/ LookAtTarget(p) \/ LookAtSource(p) \/ FillStage(p) \/ ReadBack(p)
  PROVE PlaceInv(p)'
<1> USE DEF Set, To, At, Fails, NoStage, Steady, Target, Shape, FieldNames, PlaceInv, OwnInv, Promotes, Current,
            First, Arriving, Early, Late, Undoing
<1>1. CASE Lock(p)
  BY <1>1 DEF Lock
<1>2. CASE ReadAlias(p)
  BY <1>2 DEF ReadAlias
<1>3. CASE LookAtTarget(p)
  BY <1>3 DEF LookAtTarget, AfterContent
<1>4. CASE LookAtSource(p)
  BY <1>4 DEF LookAtSource
<1>5. CASE FillStage(p)
  <2>1. run[p].pc = "fill" /\ (Set(p, "cleanup", [failed |-> TRUE]) \/ To(p, "verify"))
    BY <1>5 DEF FillStage, Fill
  <2> QED BY <2>1
<1>6. CASE ReadBack(p)
  <2>1. /\ run[p].pc = "readback" /\ stage' = stage /\ DOMAIN run'[p] = FieldNames
        /\ \A f \in FieldNames \ {"pc", "created", "failed"} : run'[p][f] = run[p][f]
        /\ \/ run'[p].pc = "cleanup" /\ (run'[p].failed \/ ~Promotes(p))
           \/ run'[p].failed = run[p].failed /\ Promotes(p) /\ run'[p].pc = AfterContent(p)
    BY <1>6 DEF ReadBack
  <2> QED BY <2>1 DEF AfterContent
<1> QED BY <1>1, <1>2, <1>3, <1>4, <1>5, <1>6

(* the exchange of the alias,                                              *)
LEMMA AliasPlaces ==
  ASSUME Shape, NEW p \in Procs, PlaceInv(p), CreateTemp(p) \/ BackUpAlias(p) \/ SwapAlias(p)
  PROVE PlaceInv(p)'
<1> USE DEF Set, At, Fails, NoStage, Steady, Target, AfterAlias, Shape, FieldNames, PlaceInv, Promotes, Current,
            First, Arriving, Early, Late, Undoing
<1>1. CASE CreateTemp(p)
  <2>1. /\ run[p].pc = "temp" /\ stage' = stage
        /\ \A f \in FieldNames \ {"pc", "temp", "failed"} : run'[p][f] = run[p][f]
        /\ \/ run'[p].failed = run[p].failed /\ run'[p].pc \in {"swap", "backup"}
           \/ run'[p].failed /\ run'[p].pc = AfterAlias(p)
    BY <1>1, TempActs
  <2> QED BY <2>1
<1>2. CASE BackUpAlias(p)
  BY <1>2 DEF BackUpAlias
<1>3. CASE SwapAlias(p)
  BY <1>3 DEF SwapAlias
<1> QED BY <1>1, <1>2, <1>3

(* and the deferred end.                                                   *)
LEMMA EndPlaces ==
  ASSUME Shape, NEW p \in Procs, PlaceInv(p), OwnInv(p),
         \/ Tidy(p) \/ TidyBackup(p) \/ TidyLock(p) \/ RemoveAlias(p) \/ PutBack(p) \/ Release(p)
         \/ Disown(p) \/ RemoveFile(p) \/ RemoveCandidate(p)
  PROVE PlaceInv(p)'
<1> USE DEF Set, To, At, Fails, NoStage, Steady, Target, Shape, FieldNames, PlaceInv, OwnInv, Promotes, Current,
            First, Arriving, Early, Late, Undoing
<1>1. CASE Tidy(p)
  BY <1>1 DEF Tidy
<1>2. CASE TidyBackup(p)
  BY <1>2 DEF TidyBackup
<1>3. CASE TidyLock(p)
  BY <1>3 DEF TidyLock
<1>4. CASE RemoveAlias(p)
  <2>1. /\ run[p].pc = "restore" /\ run'[p].pc \in {"release", "putback"} /\ stage' = stage
        /\ DOMAIN run'[p] = FieldNames /\ \A f \in FieldNames \ {"pc", "restored"} : run'[p][f] = run[p][f]
        /\ run'[p].pc = "putback" => run[p].touched
    BY <1>4 DEF RemoveAlias
  <2> QED BY <2>1
<1>5. CASE PutBack(p)
  <2>1. /\ run[p].pc = "putback" /\ run'[p].pc = "release" /\ stage' = stage /\ DOMAIN run'[p] = FieldNames
        /\ \A f \in FieldNames \ {"pc", "restored", "backup"} : run'[p][f] = run[p][f]
        /\ run'[p].backup = run[p].backup \/ run'[p].backup = None
    BY <1>5 DEF PutBack
  <2> QED BY <2>1
<1>6. CASE Release(p)
  <2>1. /\ run[p].pc = "release" /\ run'[p].pc \in {"disown", "failed"} /\ stage' = stage /\ DOMAIN run'[p] = FieldNames
        /\ \A f \in FieldNames \ {"pc", "temp", "backup"} : run'[p][f] = run[p][f]
        /\ run'[p].backup = run[p].backup \/ run'[p].backup = None
        /\ ~run'[p].temp
    BY <1>6 DEF Release
  <2> QED BY <2>1
<1>7. CASE Disown(p)
  BY <1>7 DEF Disown
<1>8. CASE RemoveFile(p) \/ RemoveCandidate(p)
  <2>1. /\ run[p].pc \in {"rollback", "rmdir"} /\ stage' = stage
        /\ \E s \in {"rmdir", "rollback", "failed"} : run' = [run EXCEPT ![p].pc = s]
    BY <1>8 DEF RemoveFile, RemoveCandidate
  <2> QED BY <2>1
<1> QED BY <1>1, <1>2, <1>3, <1>4, <1>5, <1>6, <1>7, <1>8

(* Only a promotion between its lock and its release touches the alias or  *)
(* the lock, and it keeps it until then.                                   *)
LEMMA AliasLocked ==
  ASSUME Shape, NEW p \in Procs, PlaceInv(p), OwnInv(p), Step(p)
  PROVE  /\ kept' = kept
         /\ UNCHANGED <<lock, alias, promised>> \/ (Promotes(p) /\ run[p].pc \in Held \cup {"lock", "prestate"})
         /\ run[p].pc \in {"lock", "prestate"} \/ lock' = lock \/ run[p].pc \in {"tidyLock", "release"}
         /\ run[p].pc = "lock" => UNCHANGED <<alias, promised>> /\ (lock' = lock \/ (lock = None /\ lock' = p))
         /\ run[p].pc = "prestate" => UNCHANGED <<alias, lock>>
         /\ run'[p].pc \in Held \cup {"prestate"} =>
              \/ run[p].pc \in Held \cup {"prestate"} /\ lock' = lock
              \/ run[p].pc = "lock" /\ lock = None /\ lock' = p
              \/ ~Promotes(p)
<1> USE DEF NoStage, Steady, At, rootVars, Held, Early, Arriving, Late, Undoing, PlaceInv, OwnInv, Promotes, Current, First
<1>1. CASE StageStep(p) /\ UNCHANGED rootVars
  <2>1. run[p].pc \in {"stage", "fill", "verify", "bound", "rename", "moved", "rejected", "retry", "cleanup", "removal"}
    BY <1>1 DEF StageStep, MakeStage, StageLost, VerifyStage, CheckBound, Rename, AfterMove, AfterReject, Retry,
                Cleanup, RemoveStage
  <2> QED BY <1>1, <2>1
<1>2. CASE Lock(p)
  BY <1>2 DEF Lock, To, Shape, FieldNames
<1>3. CASE ReadAlias(p)
  BY <1>3 DEF ReadAlias
<1>4. CASE LookAtTarget(p)
  BY <1>4 DEF LookAtTarget
<1>5. CASE LookAtSource(p)
  <2>1. ~Promotes(p) /\ UNCHANGED rootVars /\ run[p].pc = "source"
    BY <1>5 DEF LookAtSource
  <2> QED BY <2>1
<1>6. CASE FillStage(p) \/ ReadBack(p)
  BY <1>6 DEF FillStage, Fill, ReadBack
<1>7. CASE CreateTemp(p) \/ BackUpAlias(p) \/ SwapAlias(p)
  BY <1>7 DEF CreateTemp, BackUpAlias, SwapAlias
<1>8. CASE Tidy(p) \/ TidyBackup(p)
  BY <1>8 DEF Tidy, TidyBackup
<1>9. CASE TidyLock(p)
  BY <1>9 DEF TidyLock, Set, To, Fails, Shape, FieldNames
<1>10. CASE RemoveAlias(p) \/ PutBack(p)
  BY <1>10 DEF RemoveAlias, PutBack
<1>11. CASE Release(p)
  <2>1. run'[p].pc \in {"disown", "failed"} /\ run[p].pc = "release" /\ UNCHANGED <<alias, kept, promised>>
    BY <1>11 DEF Release, Set, Shape, FieldNames
  <2> QED BY <2>1
<1>12. CASE Disown(p) \/ RemoveFile(p) \/ RemoveCandidate(p)
  <2>1. run'[p].pc \in {"failed", "rollback", "rmdir"} /\ UNCHANGED rootVars /\ run[p].pc \notin {"lock", "prestate"}
    <3>1. CASE Disown(p)
      BY <3>1 DEF Disown, Set, To, Shape, FieldNames
    <3>2. CASE RemoveFile(p) \/ RemoveCandidate(p)
      <4>1. /\ run[p].pc \in {"rollback", "rmdir"} /\ UNCHANGED rootVars
            /\ \E s \in {"rmdir", "rollback", "failed"} : run' = [run EXCEPT ![p].pc = s]
        BY <3>2 DEF RemoveFile, RemoveCandidate, To
      <4> QED BY <4>1 DEF Shape, FieldNames
    <3> QED BY <1>12, <3>1, <3>2
  <2> QED BY <2>1
<1> QED BY <1>1, <1>2, <1>3, <1>4, <1>5, <1>6, <1>7, <1>8, <1>9, <1>10, <1>11, <1>12 DEF Step

(* So every step of a run keeps the places, and the lock's owner.          *)
LEMMA PlacesStep ==
  ASSUME PInv, PlacesInv, NEW p \in Procs, Step(p), Fits(p) PROVE PlacesInv'
<1>1. Shape /\ OwnInv(p) /\ PlaceInv(p)
  BY DEF PInv, CoreInv, PlacesInv
<1>2. PlaceInv(p)'
  BY <1>1, StagePlaces, LookPlaces, AliasPlaces, EndPlaces DEF Step
<1>3. run'[p].job = run[p].job /\ \A q \in Procs \ {p} : run'[q] = run[q] /\ stage'[q] = stage[q]
  BY DEF Fits, Frame
<1>4. \A q \in Procs \ {p} : PlaceInv(q)'
  BY <1>3 DEF PlacesInv, PlaceInv, Promotes, Current
<1>5. ASSUME NEW q \in Procs, Promotes(q)', run'[q].pc \in Held \cup {"prestate"} PROVE lock' = q
  <2>1. Promotes(q)
    BY <1>3, <1>5 DEF Promotes
  <2>2. CASE q = p
    BY <1>1, <1>5, <2>1, <2>2, AliasLocked DEF PlacesInv, LockInv
  <2>3. CASE q # p
    <3>1. lock = q /\ q # None
      BY <1>3, <1>5, <2>1, <2>3, PromotionAssumption DEF PlacesInv, LockInv
    <3>2. ~(Promotes(p) /\ run[p].pc \in Held \cup {"prestate"})
      BY <2>3, <3>1 DEF PlacesInv, LockInv
    <3>3. lock' = lock
      BY <1>1, <3>1, <3>2, AliasLocked
    <3> QED BY <3>1, <3>3
  <2> QED BY <2>2, <2>3
<1> QED BY <1>2, <1>4, <1>5 DEF PlacesInv, LockInv

(* The other steps keep them too.                                          *)
LEMMA PlacesOther ==
  ASSUME PInv, PlacesInv,
         \/ \E p \in Procs : Kill(p) \/ \E j \in Jobs[p] : Begin(p, j)
         \/ ClearLock \/ (ForeignDirectory /\ UNCHANGED rootVars) \/ UNCHANGED vars
  PROVE  PlacesInv'
<1>1. ASSUME NEW p \in Procs, Kill(p) PROVE PlacesInv'
  <2>1. /\ lock' = lock /\ stage' = stage /\ run' = [run EXCEPT ![p].pc = "dead"]
    BY <1>1 DEF Kill, To, rootVars
  <2>2. /\ run'[p].pc = "dead" /\ \A f \in FieldNames \ {"pc"} : run'[p][f] = run[p][f]
        /\ \A q \in Procs \ {p} : run'[q] = run[q]
    BY <2>1 DEF PInv, CoreInv, Shape, FieldNames
  <2>3. LockInv'
    BY <2>1, <2>2 DEF PlacesInv, LockInv, Promotes, Held, Early, Arriving, Late, Undoing
  <2>4. PlaceInv(p)'
    BY <2>1, <2>2 DEF PlacesInv, PlaceInv, Promotes, Current, FieldNames, First, Early, Arriving, Late, Undoing
  <2>5. \A q \in Procs \ {p} : PlaceInv(q)'
    BY <2>1, <2>2 DEF PlacesInv, PlaceInv, Promotes, Current
  <2> QED BY <2>3, <2>4, <2>5 DEF PlacesInv
<1>2. ASSUME NEW p \in Procs, NEW j \in Jobs[p], Begin(p, j) PROVE PlacesInv'
  <2>1. /\ lock' = lock /\ stage'[p] = Nothing
        /\ run'[p] = Start(j, IF j.kind = "promote" THEN "lock" ELSE "source", run[p].n + 1)
        /\ \A q \in Procs \ {p} : run'[q] = run[q] /\ stage'[q] = stage[q]
    BY <1>2 DEF Begin, PInv, CoreInv, Shape
  <2>2. PlaceInv(p)'
    BY <2>1 DEF Start, PlaceInv, Promotes, Current, First, Early, Arriving, Late, Undoing
  <2>3. \A q \in Procs \ {p} : PlaceInv(q)'
    BY <2>1 DEF PlacesInv, PlaceInv, Promotes, Current
  <2>4. run'[p].pc \in {"lock", "source"}
    BY <2>1 DEF Start
  <2>5. LockInv'
    BY <2>1, <2>4 DEF PlacesInv, LockInv, Promotes, Held, Early, Arriving, Late, Undoing
  <2> QED BY <2>2, <2>3, <2>5 DEF PlacesInv
<1>3. CASE ClearLock
  <2>1. UNCHANGED <<run, stage>> /\ lock # None /\ run[lock].pc \in Ended
    BY <1>3 DEF ClearLock
  <2>2. \A q \in Procs : PlaceInv(q)'
    BY <2>1 DEF PlacesInv, PlaceInv, Promotes, Current
  <2>3. ASSUME NEW q \in Procs, Promotes(q)', run'[q].pc \in Held \cup {"prestate"} PROVE FALSE
    <3>1. lock = q
      BY <2>1, <2>3 DEF PlacesInv, LockInv, Promotes
    <3> QED BY <2>1, <2>3, <3>1 DEF Ended, Held, Early, Arriving, Late, Undoing
  <2> QED BY <2>2, <2>3 DEF PlacesInv, LockInv
<1>4. CASE ForeignDirectory /\ UNCHANGED rootVars
  <2>1. PICK ps \in SUBSET Procs : Stale(ps)
    BY <1>4 DEF ForeignDirectory
  <2>2. \A q \in Procs : \A f \in FieldNames \ {"stale", "dirty"} : run'[q][f] = run[q][f]
    BY <2>1 DEF Stale, PInv, CoreInv, Shape, FieldNames
  <2>3. \A q \in Procs : stage[q] = Nothing => stage'[q] = Nothing
    <3>1. CASE UNCHANGED stage
      BY <3>1
    <3>2. CASE \E r \in Procs : stage[r] # Nothing /\ \E d : stage' = [stage EXCEPT ![r] = d]
      BY <3>2 DEF PInv, CoreInv, Shape
    <3> QED BY <1>4, <3>1, <3>2 DEF ForeignDirectory
  <2>4. \A q \in Procs : PlaceInv(q)'
    BY <2>2, <2>3 DEF PlacesInv, PlaceInv, Promotes, Current, FieldNames
  <2>5. LockInv'
    BY <1>4, <2>2 DEF PlacesInv, LockInv, Promotes, FieldNames, rootVars
  <2> QED BY <2>4, <2>5 DEF PlacesInv
<1>5. CASE UNCHANGED vars
  BY <1>5 DEF vars, rootVars, PlacesInv, LockInv, PlaceInv, Promotes, Current
<1> QED BY <1>1, <1>2, <1>3, <1>4, <1>5

(* At first nothing runs.                                                  *)
LEMMA PlacesInit == Init => PlacesInv
<1> SUFFICES ASSUME Init, NEW p \in Procs
             PROVE  PlaceInv(p) /\ run[p].pc \notin Held \cup {"prestate"}
  BY DEF PlacesInv, LockInv
<1>1. PICK j \in UNION {Jobs[q] : q \in Procs} : run[p] = Start(j, "idle", 0)
  BY DEF Init
<1> QED BY <1>1 DEF Start, PlaceInv, Promotes, Current, First, Held, Early, Arriving, Late, Undoing

(***************************************************************************)
(* Types.  The only bound that is not plain is that of the attempts: a run *)
(* that is to rename once more has not used them up.                       *)
(***************************************************************************)
RunType(p) ==
  /\ run[p].pc \in Ended \cup Working /\ run[p].job \in Jobs[p] /\ run[p].n \in 0..MaxRuns[p]
  /\ run[p].tries \in 0..MaxTries /\ run[p].orig \in AliasContents /\ run[p].backup \in AliasContents
TriesLeft(p) ==
  /\ run[p].pc \in First \cup {"fill", "verify", "bound"} => run[p].tries = 0
  /\ run[p].pc \in {"rename", "retry"} => run[p].tries < MaxTries
TypeInv == TypeOK /\ \A p \in Procs : TriesLeft(p)

(* Directories of the types the commands use.                              *)
LEMMA Directories ==
  /\ Nothing \in Directory /\ Stranger \in Directory
  /\ \A p \in Procs : \A t : Full(p, NamesOf(t)).files \in [Files -> {"right", "changed", "missing"}]
  /\ \A t : Full("past", NamesOf(t)) \in Directory
  /\ \A p \in Procs : [Nothing EXCEPT !.ino = p] \in Directory
  /\ \A f \in {"manifest", "record", "archive", "index"} : f \in Files
BY DEF Nothing, Stranger, Full, Directory, Files

(* What a step makes of the stage and the targets is a directory.          *)
LEMMA StepDirectories ==
  ASSUME Shape, TypeOK, NEW p \in Procs, Step(p)
  PROVE  dirs' \in [Targets -> Directory] /\ stage' \in [Procs -> Directory]
<1>1. dirs \in [Targets -> Directory] /\ stage \in [Procs -> Directory]
  BY DEF TypeOK
<1>2. Target(p) \in Targets /\ run[p].job.source \in Targets
  BY PromotionAssumption DEF Shape, Target, Targets
<1>3. ASSUME NEW d \in Directory, NEW f \in Files, NEW v \in {"right", "changed", "missing"}
      PROVE  [d EXCEPT !.files[f] = v] \in Directory /\ [d.files EXCEPT ![f] = v] \in [Files -> {"right", "changed", "missing"}]
  BY <1>3 DEF Directory
<1>4. ASSUME NEW d \in Directory, NEW fs \in [Files -> {"right", "changed", "missing"}]
      PROVE  [d EXCEPT !.files = fs] \in Directory
  BY <1>4 DEF Directory
<1>5. CASE UNCHANGED <<dirs, stage>>
  BY <1>1, <1>5
<1>6. CASE MakeStage(p)
  BY <1>1, <1>6, Directories DEF MakeStage
<1>7. CASE FillStage(p)
  <2>1. Copied(p) \in [Files -> {"right", "changed", "missing"}]
    BY <1>1, <1>2, Directories DEF Copied, Directory
  <2>2. dirs' = dirs
    BY <1>7 DEF FillStage, Fill
  <2>3. \/ \E v \in {"right", "missing"} : stage' = [stage EXCEPT ![p].files = [Copied(p) EXCEPT !["index"] = v]]
        \/ stage' = [stage EXCEPT ![p].files = [Copied(p) EXCEPT !["archive"] = "changed"]]
        \/ stage' = [stage EXCEPT ![p].files["manifest"] = "right"]
    BY <1>7 DEF FillStage, Fill
  <2>4. "index" \in Files /\ "archive" \in Files /\ "manifest" \in Files
    BY Directories
  <2>5. ASSUME NEW f \in Files, NEW v \in {"right", "changed", "missing"},
               stage' = [stage EXCEPT ![p].files = [Copied(p) EXCEPT ![f] = v]]
        PROVE  stage' \in [Procs -> Directory]
    <3>1. [Copied(p) EXCEPT ![f] = v] \in [Files -> {"right", "changed", "missing"}]
      BY <2>1
    <3>2. [stage[p] EXCEPT !.files = [Copied(p) EXCEPT ![f] = v]] \in Directory
      BY <1>1, <1>4, <3>1
    <3> QED BY <1>1, <2>5, <3>2
  <2>6. stage' = [stage EXCEPT ![p].files["manifest"] = "right"] => stage' \in [Procs -> Directory]
    <3>1. [stage[p] EXCEPT !.files["manifest"] = "right"] \in Directory
      BY <1>1, <1>3, <2>4
    <3> QED BY <1>1, <3>1
  <2> QED BY <1>1, <2>2, <2>3, <2>4, <2>5, <2>6
<1>8. CASE Rename(p)
  BY <1>1, <1>2, <1>8, Directories DEF Rename, Move
<1>9. CASE RemoveStage(p)
  BY <1>1, <1>9, Directories DEF RemoveStage
<1>10. CASE RemoveFile(p)
  <2>1. stage' = stage /\ (dirs' = dirs \/ \E f \in Files : dirs' = [dirs EXCEPT ![Target(p)].files[f] = "missing"])
    <3>1. \A t : NamesOf(t) \subseteq Files
      BY DEF NamesOf
    <3>2. stage' = stage /\ (dirs' = dirs \/ \E f \in NamesOf(Target(p)) : dirs' = [dirs EXCEPT ![Target(p)].files[f] = "missing"])
      BY <1>10 DEF RemoveFile
    <3> QED BY <3>1, <3>2
  <2>2. ASSUME NEW f \in Files, dirs' = [dirs EXCEPT ![Target(p)].files[f] = "missing"]
        PROVE  dirs' \in [Targets -> Directory]
    <3>1. [dirs[Target(p)] EXCEPT !.files[f] = "missing"] \in Directory
      BY <1>1, <1>2, <1>3
    <3> QED BY <1>1, <2>2, <3>1
  <2> QED BY <1>1, <2>1, <2>2
<1>11. CASE RemoveCandidate(p)
  BY <1>1, <1>2, <1>11, Directories DEF RemoveCandidate
<1>12. StageStep(p) => UNCHANGED <<dirs, stage>> \/ MakeStage(p) \/ Rename(p) \/ RemoveStage(p)
  BY DEF StageStep, StageLost, VerifyStage, CheckBound, AfterMove, AfterReject, Retry, Cleanup
<1>13. Step(p) => UNCHANGED <<dirs, stage>> \/ StageStep(p) \/ FillStage(p) \/ RemoveFile(p) \/ RemoveCandidate(p)
  BY DEF Step, Lock, ReadAlias, LookAtTarget, LookAtSource, ReadBack, CreateTemp, BackUpAlias, SwapAlias, Tidy, TidyBackup,
         TidyLock, RemoveAlias, PutBack, Release, Disown, Steady, NoStage
<1> QED BY <1>5, <1>6, <1>7, <1>8, <1>9, <1>10, <1>11, <1>12, <1>13

(* A step leaves the type of its run, and uses an attempt only to rename.  *)
LEMMA StepTypes ==
  ASSUME Shape, TypeOK, NEW p \in Procs, TriesLeft(p), Step(p)
  PROVE  RunType(p)' /\ TriesLeft(p)'
<1> USE DEF Set, To, At, Fails, NoStage, Steady, Retain, Shape, FieldNames, RunType, TriesLeft, First, Ended, Working
<1>1. RunType(p) /\ alias \in AliasContents /\ None \in AliasContents
  BY DEF TypeOK, AliasContents
<1>2. CASE Rename(p)
  <2>1. /\ run'[p].pc \in {"moved", "rejected"} /\ run[p].pc = "rename" /\ run'[p].tries = run[p].tries + 1
        /\ \A f \in FieldNames \ {"pc", "tries"} : run'[p][f] = run[p][f]
    BY <1>2 DEF Rename
  <2>2. run[p].tries \in 0..MaxTries /\ run[p].tries < MaxTries /\ MaxTries \in Nat
    BY <1>1, <2>1, StageAssumption
  <2>3. run[p].tries + 1 \in 0..MaxTries
    BY ONLY <2>2
  <2> QED BY <1>1, <2>1, <2>3
<1>3. CASE CheckBound(p)
  BY <1>1, <1>3, StageAssumption DEF CheckBound
<1>4. CASE AfterReject(p) \/ Retry(p)
  <2>1. /\ run'[p].pc \in {"cleanup", "retry", "rename"} /\ run[p].pc \in {"rejected", "retry"}
        /\ \A f \in FieldNames \ {"pc", "failed", "retained", "stale", "dirty"} : run'[p][f] = run[p][f]
        /\ run'[p].pc = "retry" => run[p].tries < MaxTries
        /\ run'[p].pc = "rename" => run[p].pc = "retry"
    <3>1. CASE AfterReject(p)
      BY <3>1 DEF AfterReject
    <3>2. CASE Retry(p)
      BY <3>2 DEF Retry
    <3> QED BY <1>4, <3>1, <3>2
  <2> QED BY <1>1, <2>1
<1>5. CASE ReadAlias(p)
  BY <1>1, <1>5 DEF ReadAlias
<1>6. CASE BackUpAlias(p)
  BY <1>1, <1>6 DEF BackUpAlias, AfterAlias
<1>7. CASE PutBack(p) \/ Release(p) \/ TidyBackup(p)
  <2>1. /\ run'[p].pc \in {"release", "disown", "failed", "tidyLock", "restore"}
        /\ run'[p].job = run[p].job /\ run'[p].n = run[p].n /\ run'[p].tries = run[p].tries /\ run'[p].orig = run[p].orig
        /\ run'[p].backup \in {None, run[p].backup}
    <3>1. CASE PutBack(p)
      BY <3>1 DEF PutBack
    <3>2. CASE Release(p)
      BY <3>2 DEF Release
    <3>3. CASE TidyBackup(p)
      BY <3>3 DEF TidyBackup
    <3> QED BY <1>7, <3>1, <3>2, <3>3
  <2> QED BY <1>1, <2>1
<1>8. CASE \/ MakeStage(p) \/ StageLost(p) \/ VerifyStage(p) \/ AfterMove(p) \/ Cleanup(p) \/ RemoveStage(p)
           \/ Lock(p) \/ LookAtTarget(p) \/ LookAtSource(p) \/ FillStage(p) \/ ReadBack(p) \/ CreateTemp(p) \/ SwapAlias(p)
           \/ Tidy(p) \/ TidyLock(p) \/ RemoveAlias(p) \/ Disown(p) \/ RemoveFile(p) \/ RemoveCandidate(p)
  <2>1. /\ \A f \in {"job", "n", "tries", "orig", "backup"} : run'[p][f] = run[p][f]
        /\ \/ run'[p].pc \in (Ended \cup Working) \ {"lock", "prestate", "look", "source", "stage", "fill", "verify", "bound", "rename", "retry"}
           \/ run'[p].pc \in {"prestate", "look", "stage", "fill", "verify", "bound"} /\ run[p].pc \in First \cup {"fill", "verify"}
    <3>1. CASE MakeStage(p) \/ StageLost(p) \/ VerifyStage(p) \/ AfterMove(p)
      BY <3>1 DEF MakeStage, StageLost, VerifyStage, AfterMove
    <3>2. CASE Cleanup(p)
      BY <3>2 DEF Cleanup
    <3>3. CASE RemoveStage(p)
      BY <3>3 DEF RemoveStage
    <3>4. CASE Lock(p)
      BY <3>4 DEF Lock
    <3>5. CASE LookAtTarget(p)
      BY <3>5 DEF LookAtTarget, AfterContent
    <3>6. CASE LookAtSource(p)
      BY <3>6 DEF LookAtSource
    <3>7. CASE FillStage(p)
      <4>1. run[p].pc = "fill" /\ (Set(p, "cleanup", [failed |-> TRUE]) \/ To(p, "verify"))
        BY <3>7 DEF FillStage, Fill
      <4> QED BY <4>1
    <3>8. CASE ReadBack(p)
      BY <3>8 DEF ReadBack, AfterContent
    <3>9. CASE CreateTemp(p)
      BY <3>9, TempActs DEF AfterAlias
    <3>10. CASE SwapAlias(p)
      BY <3>10 DEF SwapAlias, AfterAlias
    <3>11. CASE Tidy(p)
      BY <3>11 DEF Tidy
    <3>12. CASE TidyLock(p) \/ RemoveAlias(p)
      BY <3>12 DEF TidyLock, RemoveAlias
    <3>13. CASE Disown(p)
      BY <3>13 DEF Disown
    <3>14. CASE RemoveFile(p) \/ RemoveCandidate(p)
      <4>1. \E s \in {"rmdir", "rollback", "failed"} : run' = [run EXCEPT ![p].pc = s]
        BY <3>14 DEF RemoveFile, RemoveCandidate
      <4> QED BY <4>1
    <3> QED BY <1>8, <3>1, <3>2, <3>3, <3>4, <3>5, <3>6, <3>7, <3>8, <3>9, <3>10, <3>11, <3>12, <3>13, <3>14
  <2>2. /\ run'[p].job = run[p].job /\ run'[p].n = run[p].n /\ run'[p].tries = run[p].tries
        /\ run'[p].orig = run[p].orig /\ run'[p].backup = run[p].backup
    BY <2>1
  <2> QED BY <1>1, <2>1, <2>2
<1> QED BY <1>2, <1>3, <1>4, <1>5, <1>6, <1>7, <1>8 DEF Step, StageStep

(* A step leaves the root of its type.                                     *)
LEMMA StepRoot ==
  ASSUME Shape, TypeOK, NEW p \in Procs, PlaceInv(p), OwnInv(p), Step(p), Fits(p)
  PROVE  /\ faults' \in 0..MaxFaults /\ foreign' \in 0..MaxForeign
         /\ lock' \in Procs \cup {None} /\ alias' \in AliasContents /\ kept' \subseteq AliasContents
         /\ promised' \in AliasContents /\ relied' \subseteq Targets
<1>1. /\ faults \in 0..MaxFaults /\ foreign \in 0..MaxForeign
      /\ lock \in Procs \cup {None} /\ alias \in AliasContents /\ kept \subseteq AliasContents
      /\ promised \in AliasContents /\ relied \subseteq Targets
      /\ run[p].orig \in AliasContents /\ run[p].backup \in AliasContents
      /\ MaxFaults \in Nat /\ MaxForeign \in Nat /\ None \in AliasContents /\ "torn" \in AliasContents
  BY StageAssumption DEF TypeOK, AliasContents
<1>2. Target(p) \in Targets /\ (run[p].job.kind = "promote" => Target(p) \in AliasContents)
  BY PromotionAssumption DEF Shape, Target, Targets, AliasContents
<1>3. relied' \subseteq Targets
  BY <1>1, <1>2 DEF Fits
<1>4. faults' = faults \/ Fault \/ Misreport
  <2>1. StageStep(p) => faults' = faults \/ Fault
    BY DEF StageStep, MakeStage, StageLost, VerifyStage, CheckBound, Rename, AfterMove, AfterReject, Retry, Cleanup, RemoveStage
  <2>2. FillStage(p) \/ LookAtTarget(p) \/ LookAtSource(p) \/ ReadBack(p) => faults' = faults \/ Fault
    BY DEF FillStage, Fill, LookAtTarget, LookAtSource, ReadBack
  <2>3. Lock(p) \/ ReadAlias(p) \/ CreateTemp(p) \/ BackUpAlias(p) \/ SwapAlias(p) => faults' = faults \/ Fault \/ Misreport
    BY DEF Lock, ReadAlias, CreateTemp, BackUpAlias, SwapAlias
  <2>4. Tidy(p) \/ TidyBackup(p) \/ TidyLock(p) \/ RemoveAlias(p) \/ PutBack(p) \/ Release(p) => faults' = faults \/ Fault
    BY DEF Tidy, TidyBackup, TidyLock, RemoveAlias, PutBack, Release
  <2>5. Disown(p) \/ RemoveFile(p) \/ RemoveCandidate(p) => faults' = faults \/ Fault
    BY DEF Disown, RemoveFile, RemoveCandidate
  <2> QED BY <2>1, <2>2, <2>3, <2>4, <2>5 DEF Step
<1>5. foreign' = foreign \/ (foreign < MaxForeign /\ foreign' = foreign + 1)
  <2>1. StageStep(p) => foreign' = foreign
    BY DEF StageStep, MakeStage, StageLost, VerifyStage, CheckBound, Rename, AfterMove, AfterReject, Retry, Cleanup, RemoveStage
  <2>2. FillStage(p) => foreign' = foreign \/ (foreign < MaxForeign /\ foreign' = foreign + 1)
    BY DEF FillStage, Fill
  <2>3. CASE ~StageStep(p) /\ ~FillStage(p)
    BY <2>3 DEF Step, Lock, ReadAlias, LookAtTarget, LookAtSource, ReadBack, CreateTemp, BackUpAlias, SwapAlias, Tidy, TidyBackup, TidyLock,
           RemoveAlias, PutBack, Release, Disown, RemoveFile, RemoveCandidate, Steady, NoStage
  <2> QED BY <2>1, <2>2, <2>3
<1>6. lock' \in Procs \cup {None}
  <2>1. lock' = lock \/ Lock(p) \/ TidyLock(p) \/ Release(p)
    BY DEF Step, ReadAlias, LookAtTarget, LookAtSource, FillStage, ReadBack, CreateTemp, BackUpAlias, SwapAlias, Tidy, TidyBackup,
           RemoveAlias, PutBack, Disown, RemoveFile, RemoveCandidate, Steady, NoStage, rootVars
  <2> QED BY <1>1, <2>1 DEF Lock, TidyLock, Release
<1>7. alias' \in AliasContents
  <2>1. alias' = alias \/ BackUpAlias(p) \/ SwapAlias(p) \/ RemoveAlias(p) \/ PutBack(p)
    BY DEF Step, Lock, ReadAlias, LookAtTarget, LookAtSource, FillStage, ReadBack, CreateTemp, Tidy, TidyBackup, TidyLock,
           Release, Disown, RemoveFile, RemoveCandidate, Steady, NoStage, rootVars
  <2>2. BackUpAlias(p) \/ RemoveAlias(p) \/ PutBack(p) => alias' \in AliasContents
    BY <1>1 DEF BackUpAlias, RemoveAlias, PutBack
  <2>3. SwapAlias(p) => alias' = alias \/ (alias' = Target(p) /\ run[p].job.kind = "promote")
    BY DEF SwapAlias, At, PlaceInv, Current, Promotes
  <2> QED BY <1>1, <1>2, <2>1, <2>2, <2>3
<1>8. kept' = kept
  BY DEF Step, Lock, ReadAlias, LookAtTarget, LookAtSource, FillStage, ReadBack, CreateTemp, BackUpAlias, SwapAlias, Tidy, TidyBackup,
         TidyLock, RemoveAlias, PutBack, Release, Disown, RemoveFile, RemoveCandidate, Steady, NoStage, rootVars
<1>9. promised' \in AliasContents
  <2>1. promised' = promised \/ ReadAlias(p) \/ TidyLock(p)
    BY DEF Step, Lock, LookAtTarget, LookAtSource, FillStage, ReadBack, CreateTemp, BackUpAlias, SwapAlias, Tidy, TidyBackup,
           RemoveAlias, PutBack, Release, Disown, RemoveFile, RemoveCandidate, Steady, NoStage, rootVars
  <2>2. ReadAlias(p) => promised' \in {promised, alias}
    BY DEF ReadAlias
  <2>3. TidyLock(p) => promised' = promised \/ (promised' = Target(p) /\ run[p].job.kind = "promote")
    BY DEF TidyLock, At, PlaceInv, Promotes
  <2> QED BY <1>1, <1>2, <2>1, <2>2, <2>3
<1>10. Fault => faults' \in 0..MaxFaults
  BY <1>1 DEF Fault
<1>11. foreign < MaxForeign /\ foreign' = foreign + 1 => foreign' \in 0..MaxForeign
  BY <1>1
<1>12. Misreport => faults' \in 0..MaxFaults
  BY <1>1 DEF Misreport
<1> QED BY <1>1, <1>3, <1>4, <1>5, <1>6, <1>7, <1>8, <1>9, <1>10, <1>11, <1>12

(* So the types hold at every step,                                        *)
LEMMA TypeStep ==
  ASSUME PInv, PlacesInv, TypeInv, NEW p \in Procs, Step(p), Fits(p) PROVE TypeInv'
<1>1. Shape /\ OwnInv(p) /\ PlaceInv(p) /\ TypeOK /\ TriesLeft(p)
  BY DEF PInv, CoreInv, PlacesInv, TypeInv
<1>2. RunType(p)' /\ TriesLeft(p)'
  BY <1>1, StepTypes
<1>3. \A q \in Procs \ {p} : run'[q] = run[q]
  BY DEF Fits, Frame
<1>4. \A q \in Procs : RunType(q)' /\ TriesLeft(q)'
  BY <1>1, <1>2, <1>3 DEF TypeInv, TypeOK, RunType, TriesLeft
<1>5. dirs' \in [Targets -> Directory] /\ stage' \in [Procs -> Directory]
  BY <1>1, StepDirectories
<1> QED BY <1>1, <1>4, <1>5, StepRoot DEF TypeInv, TypeOK, RunType

(* whoever makes it,                                                       *)
LEMMA TypeOther ==
  ASSUME PInv, TypeInv,
         \/ \E p \in Procs : Kill(p) \/ \E j \in Jobs[p] : Begin(p, j)
         \/ ClearLock \/ (ForeignDirectory /\ UNCHANGED rootVars) \/ UNCHANGED vars
  PROVE  TypeInv'
<1> USE DEF TypeInv
<1>1. /\ faults \in 0..MaxFaults /\ foreign \in 0..MaxForeign /\ MaxFaults \in Nat /\ MaxForeign \in Nat /\ MaxTries \in Nat
      /\ dirs \in [Targets -> Directory] /\ stage \in [Procs -> Directory] /\ None \in AliasContents /\ Shape
      /\ \A q \in Procs : RunType(q) /\ TriesLeft(q)
      /\ lock \in Procs \cup {None} /\ alias \in AliasContents /\ kept \subseteq AliasContents
      /\ promised \in AliasContents /\ relied \subseteq Targets
  BY StageAssumption DEF TypeOK, RunType, AliasContents, PInv, CoreInv
<1>2. ASSUME NEW p \in Procs, Kill(p) PROVE TypeInv'
  <2>1. /\ run' = [run EXCEPT ![p].pc = "dead"] /\ UNCHANGED <<dirs, stage, foreign, rootVars>> /\ Fault
    BY <1>2 DEF Kill, To
  <2>2. /\ run'[p].pc = "dead" /\ \A f \in FieldNames \ {"pc"} : run'[p][f] = run[p][f]
        /\ \A q \in Procs \ {p} : run'[q] = run[q]
    BY <1>1, <2>1 DEF Shape, FieldNames
  <2>3. \A q \in Procs : RunType(q)' /\ TriesLeft(q)'
    BY <1>1, <2>2 DEF RunType, TriesLeft, FieldNames, First, Ended
  <2>4. faults' \in 0..MaxFaults
    BY <1>1, <2>1 DEF Fault
  <2> QED BY <1>1, <2>1, <2>3, <2>4 DEF TypeOK, RunType, rootVars
<1>3. ASSUME NEW p \in Procs, NEW j \in Jobs[p], Begin(p, j) PROVE TypeInv'
  <2>1. /\ run'[p] = Start(j, IF j.kind = "promote" THEN "lock" ELSE "source", run[p].n + 1)
        /\ \A q \in Procs \ {p} : run'[q] = run[q]
        /\ run[p].n < MaxRuns[p] /\ UNCHANGED <<faults, foreign, lock, alias, promised, relied>>
    BY <1>1, <1>3 DEF Begin, Shape
  <2>2. /\ dirs' = [t \in Targets |-> IF dirs[t].ino = p THEN [dirs[t] EXCEPT !.ino = "past"] ELSE dirs[t]]
        /\ stage' = [stage EXCEPT ![p] = Nothing] /\ kept' = kept \cup ({run[p].backup} \ {None})
    BY <1>3 DEF Begin
  <2>3. run[p].n + 1 \in 0..MaxRuns[p]
    BY <1>1, <2>1, PromotionAssumption DEF RunType
  <2>4. RunType(p)' /\ TriesLeft(p)'
    <3>1. /\ run'[p].pc \in {"lock", "source"} /\ run'[p].job = j /\ run'[p].n = run[p].n + 1 /\ run'[p].tries = 0
          /\ run'[p].orig = None /\ run'[p].backup = None
      BY <2>1 DEF Start
    <3> QED BY <1>1, <2>3, <3>1 DEF RunType, TriesLeft, First, Working
  <2>5. \A q \in Procs : RunType(q)' /\ TriesLeft(q)'
    BY <1>1, <2>1, <2>4 DEF RunType, TriesLeft
  <2>6. dirs' \in [Targets -> Directory] /\ stage' \in [Procs -> Directory]
    <3>1. \A d \in Directory : [d EXCEPT !.ino = "past"] \in Directory
      BY DEF Directory
    <3> QED BY <1>1, <2>2, <3>1, Directories
  <2>7. kept' \subseteq AliasContents
    BY <1>1, <2>2 DEF RunType
  <2> QED BY <1>1, <2>1, <2>5, <2>6, <2>7 DEF TypeOK, RunType
<1>4. CASE ClearLock
  BY <1>1, <1>4 DEF ClearLock, TypeOK, RunType, TriesLeft
<1>5. CASE ForeignDirectory /\ UNCHANGED rootVars
  <2>1. PICK ps \in SUBSET Procs : Stale(ps)
    BY <1>5 DEF ForeignDirectory
  <2>2. \A q \in Procs : \A f \in FieldNames \ {"stale", "dirty"} : run'[q][f] = run[q][f]
    BY <1>1, <2>1 DEF Stale, Shape, FieldNames
  <2>3. \A q \in Procs : RunType(q)' /\ TriesLeft(q)'
    BY <1>1, <2>2 DEF RunType, TriesLeft, FieldNames
  <2>4. faults' = faults /\ foreign' \in 0..MaxForeign
    BY <1>1, <1>5 DEF ForeignDirectory
  <2>5. dirs' \in [Targets -> Directory] /\ stage' \in [Procs -> Directory]
    <3>1. CASE \E t \in Targets : dirs' = [dirs EXCEPT ![t] = Stranger] /\ UNCHANGED stage
      BY <1>1, <3>1, Directories
    <3>2. ASSUME NEW p \in Procs, UNCHANGED dirs,
                 \E d \in {Stranger, Nothing, [stage[p] EXCEPT !.files["archive"] = "changed"]} : stage' = [stage EXCEPT ![p] = d]
          PROVE  dirs' \in [Targets -> Directory] /\ stage' \in [Procs -> Directory]
      <4>1. stage[p] \in Directory /\ "archive" \in Files
        BY <1>1, Directories
      <4>2. [stage[p] EXCEPT !.files["archive"] = "changed"] \in Directory
        BY <4>1 DEF Directory
      <4> QED BY <1>1, <3>2, <4>2, Directories
    <3> QED BY <1>5, <3>1, <3>2 DEF ForeignDirectory
  <2> QED BY <1>1, <1>5, <2>3, <2>4, <2>5 DEF TypeOK, RunType, rootVars
<1>6. CASE UNCHANGED vars
  BY <1>1, <1>6 DEF vars, rootVars, TypeOK, RunType, TriesLeft
<1> QED BY <1>2, <1>3, <1>4, <1>5, <1>6

(* and from the start.                                                     *)
LEMMA TypeInit == Init => TypeInv
<1> SUFFICES ASSUME Init PROVE TypeInv
  OBVIOUS
<1>1. PICK past \in SUBSET Candidates :
        /\ dirs = [t \in Targets |-> IF t \in past THEN Full("past", NamesOf(t)) ELSE Nothing]
        /\ alias \in past \cup {None} /\ relied = past
  BY DEF Init
<1>2. dirs \in [Targets -> Directory] /\ stage \in [Procs -> Directory]
  BY <1>1, Directories DEF Init
<1>3. \A p \in Procs : RunType(p) /\ TriesLeft(p)
  <2> SUFFICES ASSUME NEW p \in Procs PROVE RunType(p) /\ TriesLeft(p)
    OBVIOUS
  <2>1. PICK j \in UNION {Jobs[q] : q \in Procs} : run[p] = Start(j, "idle", 0)
    BY DEF Init
  <2>2. run[p].job \in Jobs[p]
    BY PromotionAssumption DEF Init
  <2>3. MaxTries \in Nat /\ MaxRuns[p] \in Nat
    BY StageAssumption, PromotionAssumption
  <2>4. run[p].pc = "idle" /\ run[p].n = 0 /\ run[p].tries = 0 /\ run[p].orig = None /\ run[p].backup = None
    BY <2>1 DEF Start
  <2> QED BY <2>2, <2>3, <2>4 DEF RunType, TriesLeft, First, Ended, AliasContents
<1>4. /\ faults = 0 /\ foreign = 0 /\ lock = None /\ kept = {} /\ promised = alias
      /\ alias \in AliasContents /\ relied \subseteq Targets /\ MaxFaults \in Nat /\ MaxForeign \in Nat
  BY <1>1, StageAssumption DEF Init, AliasContents, Targets
<1> QED BY <1>2, <1>3, <1>4 DEF TypeInv, TypeOK, RunType

(* Types and places hold of the specification.                             *)
LEMMA PlacesNext ==
  PInv /\ PlacesInv /\ TypeInv /\ [Next]_vars => PlacesInv' /\ TypeInv'
<1> SUFFICES ASSUME PInv, PlacesInv, TypeInv, [Next]_vars PROVE PlacesInv' /\ TypeInv'
  OBVIOUS
<1>1. ASSUME NEW p \in Procs, Step(p) PROVE PlacesInv' /\ TypeInv'
  BY <1>1, StepKeeps, PlacesStep, TypeStep
<1> QED BY <1>1, PlacesOther, TypeOther DEF Next

(* Every variable keeps its type, for any processes, jobs, retries,        *)
(* failures and interference; in particular no run tries its rename more   *)
(* often than it may.                                                      *)
THEOREM PromotionTyped == Spec => []TypeOK
<1>1. Init => PInv /\ PlacesInv /\ TypeInv
  BY PInvInit, PlacesInit, TypeInit
<1>2. PInv /\ PlacesInv /\ TypeInv /\ [Next]_vars => (PInv /\ PlacesInv /\ TypeInv)'
  BY PInvNext, PlacesNext
<1>3. TypeInv => TypeOK
  BY DEF TypeInv
<1> QED BY <1>1, <1>2, <1>3, PTL DEF Spec

(***************************************************************************)
(* The alias.                                                              *)
(***************************************************************************)
(* How a run's step may go on with what it has done to the alias.          *)
Course(p) ==
  /\ run[p].failed => run'[p].failed
  /\ run[p].touched => run'[p].touched
  /\ run'[p].touched => run[p].touched \/ ~run[p].failed
  /\ alias' # alias => run'[p].touched /\ run'[p].pc \in Held /\ dirs' = dirs
  /\ run'[p].orig = run[p].orig \/ (run[p].pc = "prestate" /\ run'[p].orig = alias)
  /\ promised' = promised \/ (run[p].pc = "prestate" /\ run'[p].orig = alias /\ alias # None /\ promised' = alias)
                          \/ (run[p].pc = "tidyLock" /\ run'[p].pc = "ok" /\ Current(p) /\ promised' = Target(p))
  /\ run[p].pc \in Held /\ run'[p].pc \notin Held => run[p].pc \in {"tidy", "tidyLock", "release"}

(* A step that leaves the alias and what the run knows of it alone.        *)
Quiet(p) ==
  /\ UNCHANGED <<alias, promised>>
  /\ run'[p].orig = run[p].orig /\ run'[p].touched = run[p].touched /\ run'[p].backup = run[p].backup
  /\ run[p].failed => run'[p].failed
  /\ (run[p].touched /\ run'[p].failed) => run[p].failed \/ Fault
  /\ run'[p].pc = "backup" => run[p].orig # None
  /\ run'[p].pc = "swap" => run[p].orig = None /\ ~run[p].touched
  /\ run'[p].pc \notin {"putback", "release"}
  /\ run[p].touched => run[p].pc \in Late
  /\ run[p].pc \in Held /\ run'[p].pc \notin Held => run[p].pc = "tidy"

(* Most steps of a promotion are quiet.                                    *)
LEMMA QuietSteps ==
  ASSUME Shape, NEW p \in Procs, PlaceInv(p), run[p].pc \in Held,
         \/ StageStep(p) /\ UNCHANGED rootVars
         \/ LookAtTarget(p) \/ FillStage(p) \/ ReadBack(p) \/ CreateTemp(p) \/ Tidy(p)
  PROVE  Quiet(p)
<1> USE DEF Set, To, At, Fails, NoStage, Steady, Retain, Shape, FieldNames, PlaceInv, Quiet, rootVars,
            Held, Early, Arriving, Late, Undoing, First
<1>1. CASE \/ MakeStage(p) \/ StageLost(p) \/ VerifyStage(p) \/ CheckBound(p) \/ Rename(p) \/ AfterMove(p)
           \/ AfterReject(p) \/ Retry(p)
  <2>1. ~run[p].touched /\ ~run[p].failed
    BY <1>1 DEF MakeStage, StageLost, VerifyStage, CheckBound, Rename, AfterMove, AfterReject, Retry
  <2>2. /\ \A f \in {"orig", "touched", "backup"} : run'[p][f] = run[p][f]
        /\ run'[p].pc \in {"fill", "tidy", "cleanup", "bound", "rename", "moved", "rejected", "readback", "retry"}
    <3>1. CASE MakeStage(p) \/ StageLost(p) \/ VerifyStage(p) \/ CheckBound(p)
      BY <3>1 DEF MakeStage, StageLost, VerifyStage, CheckBound
    <3>2. CASE Rename(p)
      BY <3>2 DEF Rename
    <3>3. CASE AfterMove(p)
      BY <3>3 DEF AfterMove
    <3>4. CASE AfterReject(p)
      BY <3>4 DEF AfterReject
    <3>5. CASE Retry(p)
      BY <3>5 DEF Retry
    <3> QED BY <1>1, <3>1, <3>2, <3>3, <3>4, <3>5
  <2>3. UNCHANGED <<alias, promised>>
    BY <1>1 DEF LookAtTarget, FillStage, ReadBack, CreateTemp, Tidy
  <2> QED BY <2>1, <2>2, <2>3
<1>2. CASE Cleanup(p) \/ RemoveStage(p)
  <2>1. /\ \A f \in {"orig", "touched", "backup"} : run'[p][f] = run[p][f]
        /\ run[p].pc \in {"cleanup", "removal"} /\ run'[p].pc \in {"removal", "tidy"}
        /\ run[p].failed => run'[p].failed
        /\ run[p].touched /\ run'[p].failed => run[p].failed
    <3>1. CASE RemoveStage(p)
      BY <3>1 DEF RemoveStage
    <3>2. CASE Cleanup(p)
      <4>1. run[p].touched => run[p].promoted /\ ~run[p].retained /\ stage[p] = Nothing
        BY <3>2 DEF Cleanup
      <4> DEFINE left == run[p].failed \/ run[p].retained \/ stage[p] # Nothing
      <4>2. (run[p].failed => left) /\ (run[p].touched /\ left => run[p].failed)
        BY <4>1
      <4>3. run[p].pc = "cleanup" /\ (Set(p, "removal", [stale |-> FALSE]) \/ Set(p, "tidy", [failed |-> left]))
        BY <3>2 DEF Cleanup
      <4> HIDE DEF left
      <4> QED BY <4>2, <4>3
    <3> QED BY <1>2, <3>1, <3>2
  <2>2. UNCHANGED <<alias, promised>>
    BY <1>2, <2>1 DEF LookAtTarget, FillStage, ReadBack, CreateTemp, Tidy
  <2> QED BY <2>1, <2>2
<1>3. CASE LookAtTarget(p)
  BY <1>3 DEF LookAtTarget, AfterContent
<1>4. CASE FillStage(p)
  <2>1. run[p].pc = "fill" /\ (Set(p, "cleanup", [failed |-> TRUE]) \/ To(p, "verify")) /\ UNCHANGED <<alias, promised>>
    BY <1>4 DEF FillStage, Fill
  <2> QED BY <2>1
<1>5. CASE ReadBack(p)
  <2>1. /\ run[p].pc = "readback" /\ UNCHANGED <<alias, promised>>
        /\ \A f \in {"orig", "touched", "backup"} : run'[p][f] = run[p][f]
        /\ run'[p].pc \in {"temp", "cleanup", "tidy"}
    BY <1>5 DEF ReadBack, AfterContent
  <2> QED BY <2>1
<1>6. CASE CreateTemp(p)
  <2>1. UNCHANGED <<alias, promised>>
    BY <1>6 DEF CreateTemp
  <2> QED BY <1>6, <2>1, TempActs DEF AfterAlias
<1>7. CASE Tidy(p)
  <2>1. /\ run[p].pc = "tidy" /\ UNCHANGED <<alias, promised>>
        /\ \A f \in {"orig", "touched", "backup"} : run'[p][f] = run[p][f]
        /\ run'[p].pc \in {"ok", "failed", "restore", "tidyBackup"}
        /\ run[p].failed => run'[p].failed
        /\ run'[p].failed => run[p].failed \/ Fault
    BY <1>7 DEF Tidy
  <2> QED BY <2>1
<1> QED BY <1>1, <1>2, <1>3, <1>4, <1>5, <1>6, <1>7 DEF StageStep

(* A quiet step leaves the alias where the run's place says it is.         *)
LEMMA QuietAlias ==
  ASSUME NEW p \in Procs, PlaceInv(p), AliasPlace(p), Quiet(p), run[p].pc \in Held, run'[p].job = run[p].job,
         faults \in Nat, faults' \in Nat, faults' >= faults
  PROVE  AliasPlace(p)'
<1>1. (Target(p))' = Target(p)
  BY DEF Target
<1>2. /\ ~run'[p].touched => run'[p].backup = None /\ (alias' = run'[p].orig \/ (run'[p].failed /\ run'[p].orig = None))
      /\ run'[p].pc = "backup" => run'[p].orig # None
      /\ run'[p].pc = "swap" => ~run'[p].touched /\ run'[p].orig = None
      /\ run'[p].pc \notin {"putback", "release"}
  BY DEF AliasPlace, Quiet
<1>3. run'[p].touched /\ run'[p].pc \in Late \cup {"restore"} =>
        \/ alias' = Target(p) /\ run'[p].backup \in {None, run'[p].orig}
        \/ run'[p].failed /\ alias' = None /\ run'[p].backup = run'[p].orig /\ run'[p].orig # None
  BY DEF AliasPlace, Quiet
<1>4. run'[p].touched /\ run'[p].failed => faults' >= 1
  <2>1. Fault => faults' >= 1
    BY DEF Fault
  <2>2. run[p].touched /\ run[p].failed => faults' >= 1
    BY DEF AliasPlace
  <2> QED BY <2>1, <2>2 DEF Quiet
<1> QED BY <1>1, <1>2, <1>3, <1>4 DEF AliasPlace

(* The steps that exchange the alias, restore it, or report it.            *)
Exchanges(p) == BackUpAlias(p) \/ SwapAlias(p) \/ TidyBackup(p) \/ TidyLock(p) \/ RemoveAlias(p) \/ PutBack(p) \/ Release(p)
(* They keep the alias where the run's place says, if no more than one     *)
(* call fails.                                                             *)
LEMMA ExchangeAlias ==
  ASSUME Shape, NEW p \in Procs, StageInv(p), PlaceInv(p), AliasPlace(p), Current(p), Exchanges(p), run[p].pc \in Held,
         faults \in Nat, faults <= 1, faults' <= 1, run'[p].job = run[p].job
  PROVE  /\ run'[p].pc \in Held => AliasPlace(p)'
         /\ alias' = alias \/ alias' = None \/ (run[p].pc = "swap" /\ alias' = Target(p))
            \/ (run[p].pc = "putback" /\ alias' = run[p].orig /\ run[p].orig # None)
         /\ Course(p)
<1> USE DEF Exchanges, Set, To, At, Fails, NoStage, Steady, Shape, FieldNames
<1>1. (Target(p))' = Target(p) /\ Target(p) # None
  <2>1. Target(p) \in Candidates
    BY PromotionAssumption DEF Target, Current, Promotes
  <2> QED BY <2>1, PromotionAssumption DEF Target
<1>2. faults = 0 \/ faults = 1
  OBVIOUS
<1>3. CASE BackUpAlias(p)
  <2>1. /\ run[p].pc = "backup" /\ ~run[p].touched /\ ~run[p].failed /\ alias = run[p].orig /\ run[p].orig # None
        /\ run[p].backup = None
    BY <1>3 DEF BackUpAlias, PlaceInv, AliasPlace, Early, Arriving
  <2>2. /\ UNCHANGED <<promised, dirs>> /\ run'[p].orig = run[p].orig
        /\ \/ /\ alias' = None /\ run'[p].pc = "swap" /\ run'[p].touched /\ run'[p].backup = alias
              /\ run'[p].failed = run[p].failed
           \/ /\ alias' = alias /\ run'[p].pc \in {"cleanup", "tidy"} /\ run'[p].failed
              /\ run'[p].touched = run[p].touched /\ run'[p].backup = run[p].backup
    BY <1>2, <1>3 DEF BackUpAlias, AfterAlias, Misreport
  <2> QED BY <1>1, <2>1, <2>2 DEF AliasPlace, Course, Held, Early, Arriving, Late, Undoing
<1>4. CASE SwapAlias(p)
  <2>1. /\ run[p].pc = "swap" /\ ~run[p].failed
        /\ IF run[p].touched THEN alias = None /\ run[p].orig # None /\ run[p].backup = run[p].orig ELSE run[p].orig = None
        /\ ~run[p].touched => alias = None /\ run[p].backup = None
    BY <1>4 DEF SwapAlias, PlaceInv, AliasPlace, Early, Arriving
  <2>2. /\ UNCHANGED <<promised, dirs>> /\ run'[p].orig = run[p].orig /\ run'[p].backup = run[p].backup
        /\ run'[p].pc \in {"cleanup", "tidy"}
        /\ \/ alias' = Target(p) /\ run'[p].touched /\ run'[p].failed = run[p].failed
           \/ alias' = alias /\ run'[p].failed /\ run'[p].touched = run[p].touched /\ faults' = faults + 1
    BY <1>2, <1>4 DEF SwapAlias, AfterAlias, Fault, Misreport
  <2> QED BY <1>1, <1>2, <2>1, <2>2 DEF AliasPlace, Course, Held, Early, Arriving, Late, Undoing
<1>5. CASE TidyBackup(p)
  <2>1. run[p].pc = "tidyBackup" /\ ~run[p].failed /\ run[p].touched
    BY <1>5 DEF TidyBackup, StageInv, PlaceInv, Late
  <2>2. /\ UNCHANGED <<promised, dirs, alias>> /\ run'[p].orig = run[p].orig /\ run'[p].touched = run[p].touched
        /\ \/ run'[p].pc = "tidyLock" /\ run'[p].backup = None /\ run'[p].failed = run[p].failed /\ faults' = faults
           \/ run'[p].pc = "restore" /\ run'[p].failed /\ run'[p].backup = run[p].backup /\ faults' = faults + 1
    BY <1>5 DEF TidyBackup, Fault, rootVars
  <2> QED BY <1>1, <1>2, <2>1, <2>2 DEF AliasPlace, Course, Held, Early, Arriving, Late, Undoing
<1>6. CASE TidyLock(p)
  <2>1. run[p].pc = "tidyLock" /\ ~run[p].failed /\ run[p].touched
    BY <1>6 DEF TidyLock, StageInv, PlaceInv, Late
  <2>2. /\ UNCHANGED <<dirs, alias>> /\ run'[p].orig = run[p].orig /\ run'[p].touched = run[p].touched
        /\ run'[p].backup = run[p].backup
        /\ \/ run'[p].pc = "ok" /\ promised' = Target(p) /\ run'[p].failed = run[p].failed
           \/ run'[p].pc = "restore" /\ run'[p].failed /\ promised' = promised /\ faults' = faults + 1
    BY <1>6 DEF TidyLock, Current, Fault
  <2> QED BY <1>1, <1>2, <2>1, <2>2 DEF AliasPlace, Course, Held, Early, Arriving, Late, Undoing
<1>7. CASE RemoveAlias(p)
  <2>1. run[p].pc = "restore" /\ run[p].failed
    BY <1>7 DEF RemoveAlias, PlaceInv, Undoing
  <2>2. /\ UNCHANGED <<promised, dirs>> /\ run'[p].orig = run[p].orig /\ run'[p].touched = run[p].touched
        /\ run'[p].backup = run[p].backup /\ run'[p].failed = run[p].failed
        /\ \/ ~run[p].touched /\ run'[p].pc = "release" /\ alias' = alias /\ faults' = faults
           \/ run[p].touched /\ alias' = None /\ faults' = faults
              /\ run'[p].pc = IF run[p].orig = None THEN "release" ELSE "putback"
           \/ run[p].touched /\ faults' = faults + 1
    BY <1>7 DEF RemoveAlias, Fault
  <2> QED BY <1>1, <1>2, <2>1, <2>2 DEF AliasPlace, Course, Held, Early, Arriving, Late, Undoing
<1>8. CASE PutBack(p)
  <2>1. run[p].pc = "putback" /\ run[p].failed /\ run[p].touched
    BY <1>8 DEF PutBack, PlaceInv, Undoing, AliasPlace
  <2>2. /\ UNCHANGED <<promised, dirs>> /\ run'[p].orig = run[p].orig /\ run'[p].touched = run[p].touched
        /\ run'[p].failed = run[p].failed /\ run'[p].pc = "release"
        /\ \/ run[p].backup # None /\ alias' = run[p].backup /\ faults' = faults
           \/ run[p].backup = None /\ alias' = run[p].orig /\ faults' = faults
           \/ faults' = faults + 1
    BY <1>8 DEF PutBack, Fault
  <2> QED BY <1>1, <1>2, <2>1, <2>2 DEF AliasPlace, Course, Held, Early, Arriving, Late, Undoing
<1>9. CASE Release(p)
  <2>1. /\ run[p].pc = "release" /\ UNCHANGED <<promised, dirs, alias>> /\ run'[p].pc \in {"disown", "failed"}
        /\ run'[p].orig = run[p].orig /\ run'[p].touched = run[p].touched /\ run'[p].failed = run[p].failed
    BY <1>9 DEF Release
  <2> QED BY <2>1 DEF Course, Held, Early, Arriving, Late, Undoing
<1> QED BY <1>3, <1>4, <1>5, <1>6, <1>7, <1>8, <1>9

(* What a step of a run does to the alias, and to what its own place says  *)
(* of it; a run that is not in charge of the alias leaves it alone.        *)
InCharge(p) == Current(p) /\ run[p].pc \in Held
Moves(p) ==
  /\ Course(p)
  /\ alias' # alias => InCharge(p) /\ InCharge(p)'
  /\ \/ alias' = alias \/ alias' = None \/ (run[p].pc = "swap" /\ alias' = Target(p))
     \/ (run[p].pc = "putback" /\ alias' = run[p].orig /\ run[p].orig # None)
  /\ InCharge(p)' => AliasPlace(p)'
  /\ InCharge(p)' => InCharge(p) \/ run[p].pc = "prestate"

(* First, of a run that is not in charge.                                  *)
LEMMA IdleMoves ==
  ASSUME Shape, NEW p \in Procs, StageInv(p), PlaceInv(p), PlaceInv(p)', OwnInv(p), run'[p].job = run[p].job,
         Step(p), ~InCharge(p)
  PROVE  Moves(p)
<1> USE DEF Set, To, At, Fails, NoStage, Steady, Shape, FieldNames
<1>1. (Current(p)' <=> Current(p)) /\ (Promotes(p)' <=> Promotes(p))
  BY DEF Current, Promotes
<1>2. CASE ~Current(p) /\ run[p].pc \in Held
  <2>1. ~run[p].touched /\ ~run'[p].touched /\ run[p].orig = None /\ run'[p].orig = None
    BY <1>1, <1>2 DEF PlaceInv
  <2>2. CASE \/ StageStep(p) /\ UNCHANGED rootVars
             \/ LookAtTarget(p) \/ FillStage(p) \/ ReadBack(p) \/ CreateTemp(p) \/ Tidy(p)
    <3>1. Quiet(p)
      BY <1>2, <2>2, QuietSteps
    <3> QED BY <1>1, <1>2, <2>1, <3>1 DEF Quiet, Moves, Course, InCharge
  <2>3. CASE Exchanges(p)
    <3>1. run[p].pc \in {"tidyBackup", "tidyLock", "restore", "release"}
      BY <1>2, <2>1, <2>3 DEF Exchanges, BackUpAlias, SwapAlias, TidyBackup, TidyLock, RemoveAlias, PutBack, Release, PlaceInv
    <3>2. alias' = alias /\ promised' = promised
      BY <1>2, <2>1, <2>3, <3>1
         DEF Exchanges, BackUpAlias, SwapAlias, TidyBackup, TidyLock, RemoveAlias, PutBack, Release, PlaceInv, Current, Promotes, rootVars
    <3>3. /\ run[p].failed => run'[p].failed
          /\ run'[p].pc \notin Held => run[p].pc \in {"tidyLock", "release"}
      <4>1. CASE TidyBackup(p) \/ TidyLock(p)
        BY <4>1 DEF TidyBackup, TidyLock, Held, Early, Arriving, Late, Undoing
      <4>2. CASE RemoveAlias(p) \/ Release(p)
        BY <4>2 DEF RemoveAlias, Release, Held, Early, Arriving, Late, Undoing
      <4> QED BY <2>3, <3>1, <4>1, <4>2 DEF Exchanges, BackUpAlias, SwapAlias, PutBack
    <3> QED BY <1>1, <1>2, <2>1, <3>1, <3>2, <3>3 DEF Moves, Course, InCharge
  <2>4. ~(Lock(p) \/ ReadAlias(p) \/ LookAtSource(p) \/ Disown(p) \/ RemoveFile(p) \/ RemoveCandidate(p))
    BY <1>2 DEF Lock, ReadAlias, LookAtSource, Disown, RemoveFile, RemoveCandidate, Held, Early, Arriving, Late, Undoing
  <2> QED BY <2>2, <2>3, <2>4 DEF Step, Exchanges
<1>3. CASE run[p].pc \notin Held
  <2>1. Lock(p) \/ ReadAlias(p) \/ LookAtSource(p) \/ Disown(p) \/ RemoveFile(p) \/ RemoveCandidate(p)
    <3>1. run[p].pc \notin Early \ {"lock", "prestate", "source"} /\ run[p].pc \notin Late /\ run[p].pc \notin Undoing
      BY <1>3 DEF Held
    <3>2. ~StageStep(p)
      BY <3>1 DEF StageStep, MakeStage, StageLost, VerifyStage, CheckBound, Rename, AfterMove, AfterReject, Retry, Cleanup,
                  RemoveStage, Early, Arriving, Late
    <3>3. ~(LookAtTarget(p) \/ FillStage(p) \/ ReadBack(p) \/ CreateTemp(p) \/ Tidy(p) \/ Exchanges(p))
      BY <3>1 DEF LookAtTarget, FillStage, Fill, ReadBack, CreateTemp, Tidy, Exchanges, BackUpAlias, SwapAlias, TidyBackup, TidyLock,
                  RemoveAlias, PutBack, Release, Early, Arriving, Late, Undoing
    <3> QED BY <3>2, <3>3 DEF Step, Exchanges
  <2>2. CASE ReadAlias(p)
    <3>1. /\ run[p].pc = "prestate" /\ alias' = alias /\ run'[p].touched = run[p].touched /\ run'[p].backup = run[p].backup
          /\ run[p].failed => run'[p].failed
          /\ \/ /\ run'[p].pc = "look" /\ run'[p].orig = alias /\ promised' = IF alias = None THEN promised ELSE alias
             \/ run'[p].pc = "tidy" /\ run'[p].failed /\ run'[p].orig = run[p].orig /\ promised' = promised
      BY <2>2 DEF ReadAlias
    <3>2. ~run[p].touched /\ run[p].backup = None /\ run[p].orig = None
      BY <3>1 DEF PlaceInv, Early, Arriving
    <3>3. ~run'[p].touched => run'[p].backup = None /\ (alias' = run'[p].orig \/ (run'[p].failed /\ run'[p].orig = None))
      BY <3>1, <3>2
    <3>4. AliasPlace(p)'
      BY <3>1, <3>2, <3>3 DEF AliasPlace
    <3> QED BY <3>1, <3>2, <3>4 DEF Moves, Course, Held, Early, Arriving, Late, Undoing
  <2>3. CASE Lock(p)
    <3>1. /\ UNCHANGED <<alias, promised>> /\ run[p].pc = "lock"
          /\ \A f \in FieldNames \ {"pc"} : run'[p][f] = run[p][f]
          /\ run'[p].pc \in {"prestate", "failed"} \/ ~Current(p)
      BY <2>3 DEF Lock, Current
    <3> QED BY <1>1, <3>1 DEF Moves, Course, InCharge, Held, Early, Arriving, Late, Undoing
  <2>4. CASE LookAtSource(p)
    <3>1. /\ UNCHANGED <<alias, promised>> /\ run[p].pc = "source" /\ ~Current(p)
          /\ \A f \in FieldNames \ {"pc"} : run'[p][f] = run[p][f]
      BY <2>4 DEF LookAtSource, PlaceInv, Current, rootVars
    <3> QED BY <1>1, <1>3, <3>1 DEF Moves, Course, InCharge
  <2>5. CASE Disown(p) \/ RemoveFile(p) \/ RemoveCandidate(p)
    <3>1. /\ UNCHANGED <<alias, promised>> /\ run'[p].pc \in {"failed", "rollback", "rmdir"}
          /\ run[p].pc \in Rolling /\ \A f \in FieldNames \ {"pc", "stale"} : run'[p][f] = run[p][f]
      <4>1. CASE Disown(p)
        BY <4>1 DEF Disown, Rolling, rootVars
      <4>2. CASE RemoveFile(p) \/ RemoveCandidate(p)
        <5>1. /\ run[p].pc \in {"rollback", "rmdir"} /\ UNCHANGED <<alias, promised>>
              /\ \E s \in {"rmdir", "rollback", "failed"} : run' = [run EXCEPT ![p].pc = s]
          BY <4>2 DEF RemoveFile, RemoveCandidate, rootVars
        <5> QED BY <5>1 DEF Rolling
      <4> QED BY <2>5, <4>1, <4>2
    <3> QED BY <1>1, <1>3, <3>1 DEF Moves, Course, InCharge, Held, Early, Arriving, Late, Undoing, Rolling
  <2> QED BY <2>1, <2>2, <2>3, <2>4, <2>5
<1> QED BY <1>2, <1>3 DEF InCharge

(* Every step moves so.                                                    *)
LEMMA StepMoves ==
  ASSUME PInv, PlacesInv, PlacesInv', NEW p \in Procs, Step(p), Fits(p), HolderInv(p),
         faults \in Nat, faults' \in Nat, faults' >= faults, faults' <= 1
  PROVE  Moves(p)
<1>1. Shape /\ StageInv(p) /\ OwnInv(p) /\ PlaceInv(p) /\ PlaceInv(p)' /\ run'[p].job = run[p].job /\ run[p].pc \notin Ended
      /\ (Current(p)' <=> Current(p)) /\ (Promotes(p)' <=> Promotes(p))
  BY DEF PInv, CoreInv, PlacesInv, Fits, Frame, Current, Promotes
<1>2. CASE InCharge(p)
  <2>1. AliasPlace(p) /\ Current(p) /\ run[p].pc \in Held
    BY <1>2 DEF HolderInv, InCharge
  <2>2. faults <= 1
    OBVIOUS
  <2>3. CASE Exchanges(p)
    BY <1>1, <2>1, <2>2, <2>3, ExchangeAlias, <1>2 DEF Moves, InCharge, Course
  <2>4. CASE \/ StageStep(p) /\ UNCHANGED rootVars
             \/ LookAtTarget(p) \/ FillStage(p) \/ ReadBack(p) \/ CreateTemp(p) \/ Tidy(p)
    <3>1. Quiet(p)
      BY <1>1, <2>1, <2>4, QuietSteps
    <3>2. AliasPlace(p)'
      BY <1>1, <2>1, <3>1, QuietAlias
    <3> QED BY <1>2, <3>1, <3>2 DEF Moves, Course, Quiet
  <2>5. ~(Lock(p) \/ ReadAlias(p) \/ LookAtSource(p) \/ Disown(p) \/ RemoveFile(p) \/ RemoveCandidate(p))
    BY <2>1 DEF Lock, ReadAlias, LookAtSource, Disown, RemoveFile, RemoveCandidate, At, Held, Early, Arriving, Late, Undoing
  <2> QED BY <2>3, <2>4, <2>5 DEF Step, Exchanges
<1>3. CASE ~InCharge(p)
  BY <1>1, <1>3, IdleMoves
<1> QED BY <1>2, <1>3

(* A roll-back begins when the lock has been given up.                     *)
LEMMA ReleasesFirst ==
  ASSUME Shape, NEW p \in Procs, Step(p), run'[p].pc \in Rolling, run[p].pc \notin Rolling
  PROVE  run[p].pc = "release"
<1> USE DEF Set, To, At, Fails, NoStage, Steady, Retain, Shape, FieldNames, Rolling
<1>1. ~StageStep(p)
  <2>1. ~(MakeStage(p) \/ StageLost(p) \/ VerifyStage(p) \/ CheckBound(p))
    BY DEF MakeStage, StageLost, VerifyStage, CheckBound
  <2>2. ~Rename(p)
    BY DEF Rename
  <2>3. ~(AfterMove(p) \/ AfterReject(p) \/ Retry(p))
    BY DEF AfterMove, AfterReject, Retry
  <2>4. ~(Cleanup(p) \/ RemoveStage(p))
    BY DEF Cleanup, RemoveStage
  <2> QED BY <2>1, <2>2, <2>3, <2>4 DEF StageStep
<1>2. ~(Lock(p) \/ ReadAlias(p) \/ LookAtTarget(p) \/ LookAtSource(p))
  BY DEF Lock, ReadAlias, LookAtTarget, LookAtSource, AfterContent
<1>3. ~FillStage(p)
  <2>1. FillStage(p) => Set(p, "cleanup", [failed |-> TRUE]) \/ To(p, "verify")
    BY DEF FillStage, Fill
  <2> QED BY <2>1
<1>4. ~ReadBack(p)
  BY DEF ReadBack, AfterContent
<1>5. ~CreateTemp(p)
  BY TempActs DEF AfterAlias
<1>6. ~(BackUpAlias(p) \/ SwapAlias(p))
  BY DEF BackUpAlias, SwapAlias, AfterAlias
<1>7. ~(Tidy(p) \/ TidyBackup(p) \/ TidyLock(p))
  BY DEF Tidy, TidyBackup, TidyLock
<1>8. ~(RemoveAlias(p) \/ PutBack(p))
  BY DEF RemoveAlias, PutBack
<1>9. Release(p) => run[p].pc = "release"
  BY DEF Release
<1>10. ~(Disown(p) \/ RemoveFile(p) \/ RemoveCandidate(p))
  BY DEF Disown, RemoveFile, RemoveCandidate
<1> QED BY <1>1, <1>2, <1>3, <1>4, <1>5, <1>6, <1>7, <1>8, <1>9, <1>10 DEF Step

(* What a promotion takes over from the alias it finds.                    *)
LEMMA PrestateTells ==
  ASSUME Shape, NEW p \in Procs, Step(p), run[p].pc = "prestate"
  PROVE  /\ alias' = alias /\ run'[p].touched = run[p].touched
         /\ \/ run'[p].orig = alias /\ ~(alias # None /\ promised' # alias) /\ (alias = None => promised' = promised)
            \/ run'[p].failed /\ run'[p].orig = run[p].orig /\ promised' = promised
<1>1. ReadAlias(p)
  BY DEF Step, StageStep, MakeStage, StageLost, VerifyStage, CheckBound, Rename, AfterMove, AfterReject, Retry, Cleanup, RemoveStage,
         Lock, LookAtTarget, LookAtSource, FillStage, Fill, ReadBack, CreateTemp, BackUpAlias, SwapAlias, Tidy, TidyBackup,
         TidyLock, RemoveAlias, PutBack, Release, Disown, RemoveFile, RemoveCandidate, At
<1> QED BY <1>1 DEF ReadAlias, Set, Fails, Shape, FieldNames

(* A promotion in charge of the alias ends by reporting or releasing it.   *)
LEMMA LeavesLast ==
  ASSUME Shape, NEW p \in Procs, Step(p), Promotes(p), run[p].pc \in {"tidy", "tidyLock"}, run'[p].pc \notin Held
  PROVE  run[p].pc = "tidyLock" /\ run'[p].pc = "ok"
<1>1. Tidy(p) \/ TidyLock(p)
  BY DEF Step, StageStep, MakeStage, StageLost, VerifyStage, CheckBound, Rename, AfterMove, AfterReject, Retry, Cleanup, RemoveStage,
         Lock, ReadAlias, LookAtTarget, LookAtSource, FillStage, Fill, ReadBack, CreateTemp, BackUpAlias, SwapAlias, TidyBackup,
         RemoveAlias, PutBack, Release, Disown, RemoveFile, RemoveCandidate, At
<1>2. ~Tidy(p)
  BY DEF Tidy, Set, To, Fails, At, Shape, FieldNames, Held, Late, Undoing, Promotes
<1> QED BY <1>1, <1>2 DEF TidyLock, Set, To, Fails, At, Shape, FieldNames, Held, Late, Undoing

(* Nobody but the owner of the lock changes the alias or the promise.      *)
LEMMA OthersWait ==
  ASSUME PInv, PlacesInv, NEW p \in Procs, NEW q \in Procs, p # q, Step(p),
         Promotes(q), run[q].pc \in Held
  PROVE  UNCHANGED <<alias, promised>>
<1>1. Shape /\ PlaceInv(p) /\ OwnInv(p)
  BY DEF PInv, CoreInv, PlacesInv
<1>2. lock = q
  BY DEF PlacesInv, LockInv
<1>3. ~(Promotes(p) /\ run[p].pc \in Held \cup {"prestate"})
  BY <1>2 DEF PlacesInv, LockInv
<1> QED BY <1>1, <1>3, AliasLocked

(* A backup that nobody touches stays, whoever steps.                      *)
LEMMA BackedStays ==
  ASSUME NEW p \in Procs, Backed, kept' = kept, promised' = promised, run[p].pc \notin Ended,
         \A q \in Procs \ {p} : run'[q] = run[q]
  PROVE  Backed'
BY DEF Backed

(* The alias names what is complete,                                       *)
LEMMA StepNames ==
  ASSUME PInv, RetInv, PlacesInv, AliasInv, NEW p \in Procs, Step(p), Fits(p), Moves(p), alias' # None
  PROVE  alias' \in Candidates /\ Intact(alias)'
<1>1. \A t \in Targets : Intact(t) => Intact(t)' \/ (RollsBack(p) /\ t = Target(p))
  BY StepIntact
<1>2. \A c \in Candidates : c \in Targets
  BY DEF Targets
<1>3. CASE alias' = alias
  <2>1. alias \in Candidates /\ Intact(alias) /\ HolderInv(p) /\ RollingInv(p)
    BY <1>3 DEF AliasInv
  <2>2. ~(RollsBack(p) /\ alias = Target(p))
    BY <2>1 DEF RollingInv, RollsBack, Rolling
  <2> QED BY <1>1, <1>2, <1>3, <2>1, <2>2 DEF Intact
<1>4. CASE alias' # alias
  <2>1. dirs' = dirs /\ InCharge(p)
    BY <1>4 DEF Moves, Course
  <2>2. CASE run[p].pc = "swap" /\ alias' = Target(p)
    <3>1. ~run[p].failed /\ run[p].job \in Jobs[p]
      BY <2>2 DEF PlacesInv, PlaceInv, Early, PInv, CoreInv, Shape
    <3>2. Intact(Target(p)) /\ Target(p) \in Candidates
      BY <2>1, <2>2, <3>1, PromotionAssumption DEF RetInv, Sound, Target, InCharge, Current, Promotes
    <3> QED BY <2>1, <2>2, <3>2 DEF Intact
  <2>3. CASE run[p].pc = "putback" /\ alias' = run[p].orig /\ run[p].orig # None
    <3>1. run[p].orig \in Candidates /\ Intact(run[p].orig)
      BY <2>1, <2>3 DEF AliasInv, HolderInv, InCharge, OrigSafe
    <3> QED BY <2>1, <2>3, <3>1 DEF Intact
  <2> QED BY <1>4, <2>2, <2>3 DEF Moves
<1> QED BY <1>3, <1>4

(* what is rolled back is nobody's alias,                                  *)
LEMMA StepRolling ==
  ASSUME Apart, PInv, PlacesInv, PlacesInv', AliasInv, NEW p \in Procs, Step(p), Fits(p), Moves(p)
  PROVE  \A q \in Procs : RollingInv(q)'
<1>1. /\ \A q \in Procs \ {p} : run'[q] = run[q]
      /\ run'[p].job = run[p].job /\ \A q \in Procs : (Target(q))' = Target(q) /\ (Promotes(q)' <=> Promotes(q))
  BY DEF Fits, Frame, Target, Promotes
<1>2. \A q \in Procs : Promotes(q) => None # Target(q)
  BY PromotionAssumption DEF PInv, CoreInv, Shape, Target, Promotes
<1>3. run'[p].pc \in Held /\ Promotes(p) => run[p].pc \in Held \cup {"lock", "prestate"}
  BY AliasLocked DEF PInv, CoreInv, PlacesInv
<1>4. ASSUME NEW q \in Procs, q # p, run[q].pc \in Rolling
      PROVE  alias' # Target(q) /\ \A r \in Procs : (Promotes(r) /\ run'[r].pc \in Held) => run'[r].orig # Target(q)
  <2>1. alias # Target(q) /\ \A r \in Procs : (Promotes(r) /\ run[r].pc \in Held) => run[r].orig # Target(q)
    BY <1>4 DEF AliasInv, RollingInv
  <2>2. Promotes(q)
    BY <1>4 DEF PInv, OwnInv, Rolling, Promotes
  <2>3. Target(p) # Target(q)
    BY <1>4, <2>2, OwnTarget DEF Promotes
  <2>4. alias' # Target(q)
    <3>1. alias' # alias => Promotes(p) /\ run[p].pc \in Held
      BY DEF Moves, InCharge, Current
    <3> QED BY <1>2, <2>1, <2>2, <2>3, <3>1 DEF Moves
  <2>5. ASSUME Promotes(p), run'[p].pc \in Held PROVE run'[p].orig # Target(q)
    <3>1. run[p].pc \in {"lock", "prestate"} => run[p].orig = None
      BY DEF PlacesInv, PlaceInv
    <3> QED BY <1>2, <1>3, <2>1, <2>2, <2>5, <3>1 DEF Moves, Course
  <2> QED BY <1>1, <2>1, <2>4, <2>5
<1>5. ASSUME run'[p].pc \in Rolling
      PROVE  alias' # Target(p) /\ \A r \in Procs : (Promotes(r) /\ run'[r].pc \in Held) => run'[r].orig # Target(p)
  <2>1. run'[p].pc \notin Held
    BY <1>5 DEF Rolling, Held, Early, Arriving, Late, Undoing
  <2>2. alias' = alias
    BY <2>1 DEF Moves, InCharge
  <2>3. CASE run[p].pc \in Rolling
    <3>1. alias # Target(p) /\ \A r \in Procs : (Promotes(r) /\ run[r].pc \in Held) => run[r].orig # Target(p)
      BY <2>3 DEF AliasInv, RollingInv
    <3> QED BY <1>1, <2>1, <2>2, <3>1
  <2>4. CASE run[p].pc \notin Rolling
    <3>1. run[p].created /\ run[p].pc \in Held /\ run[p].pc = "release"
      <4>1. run[p].created
        BY <1>5, <2>4 DEF Fits, Rolling
      <4>2. Promotes(p) /\ run'[p].pc \notin {"ok"}
        BY <1>5, <4>1 DEF PInv, OwnInv, Promotes, Rolling
      <4>3. run[p].pc \notin {"lock", "prestate", "source"}
        BY <4>1, <4>2 DEF PInv, OwnInv, PlacesInv, PlaceInv
      <4>4. run[p].pc = "release"
        BY <1>5, <2>4, <4>3, ReleasesFirst DEF PInv, CoreInv
      <4> QED BY <4>1, <4>4 DEF Held, Undoing
    <3>2. Promotes(p) /\ NewTarget(p) /\ (Current(p) => AliasPlace(p))
      BY <3>1 DEF PInv, OwnInv, Promotes, AliasInv, HolderInv
    <3>3. alias # Target(p)
      <4>1. run[p].touched => Current(p)
        BY DEF PlacesInv, PlaceInv
      <4> QED BY <3>1, <3>2, <4>1 DEF NewTarget, AliasPlace
    <3>4. lock = p
      BY <3>1, <3>2 DEF PlacesInv, LockInv
    <3>5. \A r \in Procs \ {p} : ~(Promotes(r) /\ run[r].pc \in Held)
      BY <3>4 DEF PlacesInv, LockInv
    <3> QED BY <1>1, <2>1, <2>2, <3>3, <3>5
  <2> QED BY <2>3, <2>4
<1>6. ASSUME NEW q \in Procs, run'[q].pc \in Rolling
      PROVE  alias' # Target(q)' /\ \A r \in Procs : (Promotes(r)' /\ run'[r].pc \in Held) => run'[r].orig # Target(q)'
  BY <1>1, <1>4, <1>5, <1>6
<1> QED BY <1>6 DEF RollingInv

(* a run in charge knows what it must restore,                             *)
LEMMA StepOrig ==
  ASSUME PInv, RetInv, PlacesInv, PlacesInv', AliasInv, NEW p \in Procs, Step(p), Fits(p), Moves(p), InCharge(p)'
  PROVE  OrigSafe(p)'
<1>1. InCharge(p) \/ run[p].pc = "prestate"
  BY DEF Moves
<1>2. promised' = promised \/ (run[p].pc = "prestate" /\ run'[p].orig = alias /\ alias # None /\ promised' = alias)
  BY DEF Moves, Course, InCharge, Held, Early, Arriving, Late, Undoing
<1>3. \A t \in Candidates : Intact(t) => Intact(t)'
  <2>1. run'[p].pc \notin {"rollback", "rmdir", "failed"}
    BY DEF InCharge, Held, Early, Arriving, Late, Undoing
  <2> QED BY <2>1, StepIntact DEF RollsBack, Targets
<1>4. kept' = kept /\ run[p].pc \notin Ended /\ \A q \in Procs \ {p} : run'[q] = run[q]
  <2>1. kept' = kept
    BY AliasLocked DEF PInv, CoreInv, PlacesInv
  <2> QED BY <2>1 DEF Fits, Frame
<1>5. CASE run[p].pc = "prestate"
  <2>1. run'[p].orig = alias \/ run'[p].orig = None
    BY <1>5 DEF Moves, Course, PlacesInv, PlaceInv
  <2>2. CASE run'[p].orig # None
    <3>1. run'[p].orig = alias /\ alias \in Candidates /\ Intact(alias)
      BY <2>1, <2>2 DEF AliasInv
    <3>2. promised' = alias
      BY <1>5, <2>2, <3>1, PrestateTells DEF PInv, CoreInv, PlacesInv, PlaceInv
    <3>3. Intact(run[p].orig)'
      BY <1>3, <3>1 DEF Intact
    <3> QED BY <2>2, <3>1, <3>2, <3>3 DEF OrigSafe
  <2>3. CASE run'[p].orig = None /\ (run'[p].touched \/ ~run'[p].failed)
    <3>1. ~run'[p].touched
      <4>1. alias' = alias
        BY <1>5 DEF Moves, InCharge, Held, Early, Arriving, Late, Undoing
      <4> QED BY <1>5, PrestateTells DEF PInv, CoreInv, PlacesInv, PlaceInv, Early, Arriving
    <3>2. alias = None /\ promised' = promised
      BY <1>2, <1>5, <2>3, <3>1, PrestateTells DEF PInv, CoreInv
    <3>3. promised = None \/ Backed
      <4>1. ASSUME NEW q \in Procs, Current(q), run[q].pc \in Held PROVE FALSE
        <5>1. lock = q /\ lock = p
          BY <1>5, <4>1 DEF PlacesInv, LockInv, PlaceInv, Current
        <5> QED BY <1>5, <4>1, <5>1 DEF Held, Early, Arriving, Late, Undoing
      <4> QED BY <3>2, <4>1 DEF AliasInv
    <3> QED BY <1>4, <2>3, <3>2, <3>3, BackedStays DEF OrigSafe
  <2> QED BY <2>2, <2>3 DEF OrigSafe
<1>6. CASE InCharge(p) /\ run[p].pc # "prestate"
  <2>1. OrigSafe(p) /\ run'[p].orig = run[p].orig /\ promised' = promised
    BY <1>2, <1>6 DEF AliasInv, HolderInv, InCharge, Moves, Course
  <2>2. run[p].orig # None => Intact(run[p].orig)'
    BY <1>3, <2>1 DEF OrigSafe, Intact
  <2>3. run'[p].touched \/ ~run'[p].failed => run[p].touched \/ ~run[p].failed
    BY DEF Moves, Course
  <2>4. Backed => Backed'
    BY <1>4, <2>1, BackedStays
  <2> QED BY <2>1, <2>2, <2>3, <2>4 DEF OrigSafe
<1> QED BY <1>1, <1>5, <1>6

(* a target of its own is new,                                             *)
LEMMA StepNew ==
  ASSUME PInv, PlacesInv, PlacesInv', AliasInv, NEW p \in Procs, Step(p), Fits(p), Moves(p), Promotes(p), run'[p].pc \in Held
  PROVE  NewTarget(p)'
<1>1. (Target(p))' = Target(p) /\ Target(p) \in Targets /\ Target(p) # None
  BY PromotionAssumption DEF Fits, Frame, Target, Targets, Promotes, PInv, CoreInv, Shape
<1>2. run'[p].created => run[p].created \/ run[p].pc = "readback"
  BY DEF Fits
<1>3. run'[p].pc = "readback" => run[p].pc = "moved"
  BY DEF Fits
<1>4. run'[p].pc = "moved" => run[p].pc = "rename" /\ ~Intact(Target(p))
  BY NothingVerified DEF Fits, Intact
<1> SUFFICES ASSUME run'[p].created \/ run'[p].pc \in {"moved", "readback"}
             PROVE  run'[p].orig # Target(p) /\ (~run'[p].touched => alias' # Target(p))
  BY <1>1 DEF NewTarget
<1>5. run[p].pc \in Held
  <2>1. run[p].pc \in Held \cup {"lock", "prestate"}
    BY AliasLocked DEF PInv, CoreInv, PlacesInv, Promotes
  <2>2. run[p].pc \notin {"lock", "prestate"}
    BY <1>2, <1>3, <1>4 DEF PInv, OwnInv
  <2> QED BY <2>1, <2>2
<1>6. run'[p].orig = run[p].orig
  BY <1>5 DEF Moves, Course, Held, Early, Arriving, Late, Undoing
<1>7. ~run'[p].touched => alias' = alias /\ ~run[p].touched
  BY DEF Moves, Course
<1>8. CASE run[p].created \/ run[p].pc \in {"moved", "readback"}
  <2>1. NewTarget(p)
    BY <1>5 DEF AliasInv, HolderInv
  <2> QED BY <1>6, <1>7, <1>8, <2>1 DEF NewTarget
<1>9. CASE run'[p].pc = "moved"
  <2>1. alias # Target(p)
    BY <1>1, <1>4, <1>9 DEF AliasInv
  <2>2. run[p].orig # Target(p)
    <3>1. Current(p) => OrigSafe(p)
      BY <1>5 DEF AliasInv, HolderInv
    <3>2. ~Current(p) => run[p].orig = None
      BY DEF PlacesInv, PlaceInv
    <3> QED BY <1>1, <1>4, <1>9, <3>1, <3>2 DEF OrigSafe
  <2> QED BY <1>6, <1>7, <2>1, <2>2
<1> QED BY <1>2, <1>3, <1>8, <1>9

(* Somebody in charge knows what the alias was.                            *)
Someone == \E q \in Procs : InCharge(q) /\ run[q].orig # None

(* What was promised is there, or kept, or known to a run in charge.       *)
LEMMA StepRecovers ==
  ASSUME PInv, RetInv, PlacesInv, PlacesInv', AliasInv, NEW p \in Procs, Step(p), Fits(p), Moves(p),
         InCharge(p)' => OrigSafe(p)', promised' # None, alias' = None
  PROVE  Backed' \/ Someone'
<1>1. kept' = kept /\ run[p].pc \notin Ended /\ \A q \in Procs \ {p} : run'[q] = run[q]
  <2>1. kept' = kept
    BY AliasLocked DEF PInv, CoreInv, PlacesInv
  <2> QED BY <2>1 DEF Fits, Frame
<1>2. CASE InCharge(p)' /\ (run'[p].orig # None \/ run'[p].touched \/ ~run'[p].failed)
  BY <1>2 DEF OrigSafe, Someone
<1>3. CASE ~(InCharge(p)' /\ (run'[p].orig # None \/ run'[p].touched \/ ~run'[p].failed))
  <2>1. alias = None
    BY <1>3 DEF Moves, Course
  <2>2. promised' = promised
    <3>1. CASE run[p].pc = "tidyLock" /\ run'[p].pc = "ok" /\ Current(p) /\ promised' = Target(p)
      <4>1. InCharge(p) /\ ~run[p].failed
        BY <3>1 DEF InCharge, Held, Late, PInv, CoreInv, StageInv
      <4>2. alias = Target(p)
        BY <3>1, <4>1 DEF AliasInv, HolderInv, InCharge, AliasPlace, PlacesInv, PlaceInv, Late
      <4>3. Target(p) # None
        BY <3>1, PromotionAssumption DEF Current, Promotes, Target, PInv, CoreInv, Shape
      <4> QED BY <2>1, <4>2, <4>3
    <3> QED BY <2>1, <3>1 DEF Moves, Course
  <2>3. Backed \/ Someone
    BY <2>1, <2>2 DEF AliasInv, Someone, InCharge
  <2>4. ASSUME NEW q \in Procs, InCharge(q), run[q].orig # None PROVE Someone'
    <3>1. CASE q # p
      <4>1. InCharge(q)' /\ run'[q].orig # None
        BY <1>1, <2>4, <3>1 DEF InCharge, Current, Promotes
      <4> QED BY <4>1 DEF Someone
    <3>2. CASE q = p
      <4>1. run'[p].orig = run[p].orig
        BY <2>4, <3>2 DEF Moves, Course, InCharge, Held, Early, Arriving, Late, Undoing
      <4>2. AliasPlace(p) /\ ~InCharge(p)' /\ (Current(p)' <=> Current(p))
        BY <1>3, <2>4, <3>2, <4>1 DEF AliasInv, HolderInv, InCharge, Fits, Frame, Current, Promotes
      <4>3. run[p].pc \in {"tidy", "tidyLock", "release"}
        BY <2>4, <3>2, <4>2 DEF Moves, Course, InCharge
      <4>4. run[p].pc = "release" \/ (run[p].pc = "tidyLock" /\ run'[p].pc = "ok")
        <5>1. Promotes(p) /\ run'[p].pc \notin Held
          BY <2>4, <3>2, <4>2 DEF InCharge, Current
        <5>2. Shape
          BY DEF PInv, CoreInv
        <5> QED BY <4>3, <5>1, <5>2, LeavesLast
      <4>5. Target(p) # None
        BY <2>4, <3>2, PromotionAssumption DEF InCharge, Current, Promotes, Target, PInv, CoreInv, Shape
      <4>6. run[p].pc = "tidyLock" => run[p].touched /\ ~run[p].failed
        BY <2>4, <3>2 DEF InCharge, PInv, CoreInv, StageInv, PlacesInv, PlaceInv, Late
      <4> QED BY <2>1, <2>4, <3>2, <4>2, <4>4, <4>5, <4>6 DEF AliasPlace, Late
    <3> QED BY <3>1, <3>2
  <2> QED BY <1>1, <2>2, <2>3, <2>4, BackedStays DEF Someone
<1> QED BY <1>2, <1>3

(* So a step keeps the invariant while there is at most one failure.       *)
LEMMA StepAlias ==
  ASSUME Apart, PInv, PInv', RetInv, PlacesInv, PlacesInv', TypeInv, TypeInv', AliasInv, NEW p \in Procs, Step(p), Fits(p),
         faults' >= faults, faults' <= 1
  PROVE  AliasInv'
<1>1. faults \in Nat /\ faults' \in Nat
  BY StageAssumption DEF TypeInv, TypeOK
<1>2. HolderInv(p)
  BY DEF AliasInv
<1>3. Moves(p)
  BY <1>1, <1>2, StepMoves
<1>4. InCharge(p)' => OrigSafe(p)' /\ AliasPlace(p)'
  BY <1>3, StepOrig DEF Moves
<1>5. /\ \A q \in Procs \ {p} : run'[q] = run[q]
      /\ \A q \in Procs : (Target(q))' = Target(q) /\ (Promotes(q)' <=> Promotes(q)) /\ (Current(q)' <=> Current(q))
  BY DEF Fits, Frame, Target, Promotes, Current
<1>6. HolderInv(p)'
  <2>1. Promotes(p) /\ run'[p].pc \in Held => NewTarget(p)'
    BY <1>3, StepNew
  <2> QED BY <1>4, <1>5, <2>1 DEF HolderInv, InCharge
<1>7. ASSUME NEW q \in Procs, q # p PROVE HolderInv(q)'
  <2> SUFFICES ASSUME run[q].pc \in Held, Promotes(q) PROVE HolderInv(q)'
    BY <1>5, <1>7 DEF HolderInv, Current
  <2>1. UNCHANGED <<alias, promised>> /\ run'[q] = run[q] /\ HolderInv(q)
    BY <1>5, <1>7, OthersWait DEF AliasInv
  <2>2. kept' = kept /\ run[p].pc \notin Ended
    BY AliasLocked DEF PInv, CoreInv, PlacesInv, Fits
  <2>3. Backed => Backed'
    BY <1>5, <2>1, <2>2, BackedStays
  <2>4. AliasPlace(q) => AliasPlace(q)'
    BY <1>1, <1>5, <2>1 DEF AliasPlace
  <2>5. NewTarget(q) => NewTarget(q)'
    BY <1>5, <2>1 DEF NewTarget
  <2>6. run[q].orig \in Candidates /\ Intact(run[q].orig) => Intact(run[q].orig)'
    <3>1. ~(RollsBack(p) /\ run[q].orig = Target(p))
      BY <1>7 DEF AliasInv, RollingInv, RollsBack, Rolling
    <3> QED BY <2>1, <3>1, StepIntact DEF Targets, Intact
  <2>7. OrigSafe(q) => OrigSafe(q)'
    BY <2>1, <2>3, <2>6 DEF OrigSafe
  <2> QED BY <1>5, <2>1, <2>4, <2>5, <2>7 DEF HolderInv
<1>8. \A q \in Procs : RollingInv(q)'
  BY <1>3, StepRolling
<1>9. alias' # None => alias' \in Candidates /\ Intact(alias)'
  BY <1>3, StepNames
<1>10. (promised' # None /\ alias' = None) => Backed' \/ Someone'
  BY <1>3, <1>4, StepRecovers
<1> QED BY <1>6, <1>7, <1>8, <1>9, <1>10 DEF AliasInv, Someone, InCharge

(***************************************************************************)
(* The other steps: a run is killed or begins, a lock is cleared, somebody *)
(* exchanges a directory.  None changes the alias.                         *)
(***************************************************************************)
Same(q) == \A f \in {"pc", "job", "orig", "touched", "failed", "backup", "created"} : run'[q][f] = run[q][f]
Away(q) == run'[q].pc \notin Held \cup Rolling

(* If every run stays where it was or is out of it, what was true of the   *)
(* alias stays true, provided the promised one stays recoverable.          *)
LEMMA AliasStays ==
  ASSUME AliasInv, UNCHANGED <<alias, promised>>, faults \in Nat, faults' \in Nat, faults' >= faults,
         \A t \in Targets : Intact(t) => Intact(t)',
         \A q \in Procs : Same(q) \/ Away(q),
         Backed => promised = None \/ Backed',
         promised # None /\ alias = None => Backed' \/ Someone'
  PROVE  AliasInv'
<1>1. \A c \in Candidates : Intact(c) => Intact(c)'
  BY DEF Targets
<1>2. alias' # None => alias' \in Candidates /\ Intact(alias)'
  BY <1>1 DEF AliasInv, Intact
<1>3. \A q \in Procs : Same(q) => Target(q)' = Target(q) /\ (Promotes(q)' <=> Promotes(q)) /\ (Current(q)' <=> Current(q))
                               /\ run'[q].pc = run[q].pc /\ run'[q].orig = run[q].orig
  BY DEF Same, Target, Promotes, Current
<1>4. ASSUME NEW q \in Procs PROVE HolderInv(q)'
  <2>1. CASE Away(q)
    BY <2>1 DEF Away, HolderInv
  <2>2. CASE Same(q)
    <3> SUFFICES ASSUME run[q].pc \in Held, HolderInv(q) PROVE HolderInv(q)'
      BY <1>3, <2>2 DEF AliasInv, HolderInv
    <3>1. AliasPlace(q) => AliasPlace(q)'
      BY <1>3, <2>2 DEF Same, AliasPlace
    <3>2. run[q].orig \in Candidates /\ Intact(run[q].orig) => Intact(run[q].orig)'
      BY <1>1, <1>3, <2>2 DEF Intact
    <3>3. OrigSafe(q) => OrigSafe(q)'
      BY <1>3, <2>2, <3>2 DEF OrigSafe, Same
    <3>4. NewTarget(q) => NewTarget(q)'
      BY <1>3, <2>2 DEF NewTarget, Same
    <3> QED BY <1>3, <2>2, <3>1, <3>3, <3>4 DEF HolderInv
  <2> QED BY <2>1, <2>2
<1>5. ASSUME NEW q \in Procs PROVE RollingInv(q)'
  <2>1. CASE Away(q)
    BY <2>1 DEF Away, RollingInv
  <2>2. CASE Same(q)
    <3> SUFFICES ASSUME run[q].pc \in Rolling PROVE RollingInv(q)'
      BY <1>3, <2>2 DEF RollingInv
    <3>1. alias' # Target(q)' /\ \A r \in Procs : (Promotes(r) /\ run[r].pc \in Held) => run[r].orig # Target(q)'
      BY <1>3, <2>2 DEF AliasInv, RollingInv
    <3>2. \A r \in Procs : (Promotes(r)' /\ run'[r].pc \in Held) => run'[r].orig # Target(q)'
      BY <1>3, <3>1 DEF Away
    <3> QED BY <3>1, <3>2 DEF RollingInv
  <2> QED BY <2>1, <2>2
<1> QED BY <1>2, <1>4, <1>5 DEF AliasInv, Someone, InCharge

(* A run that is killed while the alias is away leaves the backup: as      *)
(* nothing had failed before, it was not putting it back.                  *)
LEMMA KilledBacks ==
  ASSUME PInv, PlacesInv, AliasInv, faults = 0, NEW p \in Procs, InCharge(p), run[p].orig # None, alias = None
  PROVE  run[p].backup = promised
<1>1. AliasPlace(p) /\ OrigSafe(p)
  BY DEF AliasInv, HolderInv, InCharge
<1>2. run[p].touched /\ ~run[p].failed
  BY <1>1 DEF AliasPlace
<1>3. run[p].pc \notin Undoing /\ run[p].pc \notin Early \ {"swap"}
  BY <1>2 DEF PlacesInv, PlaceInv
<1>4. Target(p) # None
  BY PromotionAssumption DEF InCharge, Current, Promotes, Target, PInv, CoreInv, Shape
<1>5. run[p].pc \notin Late
  BY <1>1, <1>2, <1>4 DEF AliasPlace
<1>6. run[p].pc = "swap"
  BY <1>3, <1>5 DEF InCharge, Held
<1> QED BY <1>1, <1>2, <1>6 DEF AliasPlace, OrigSafe

(* None of these steps loses the alias.                                    *)
LEMMA AliasOther ==
  ASSUME PInv, PlacesInv, TypeInv, TypeInv', AliasInv, faults' <= 1,
         \/ \E p \in Procs : Kill(p) \/ \E j \in Jobs[p] : Begin(p, j)
         \/ ClearLock \/ (ForeignDirectory /\ UNCHANGED rootVars) \/ UNCHANGED vars
  PROVE  AliasInv'
<1>1. faults \in Nat /\ faults' \in Nat /\ Shape
  BY StageAssumption DEF TypeInv, TypeOK, PInv, CoreInv
<1>2. (promised # None /\ alias = None) => Backed \/ Someone
  BY DEF AliasInv, Someone, InCharge
<1>3. ASSUME NEW p \in Procs, Kill(p) PROVE AliasInv'
  <2>1. /\ run' = [run EXCEPT ![p].pc = "dead"] /\ UNCHANGED <<dirs, alias, promised, kept>>
        /\ faults' = faults + 1 /\ run[p].pc \in Working
    BY <1>3 DEF Kill, To, Fault, rootVars
  <2>2. /\ run'[p].pc = "dead" /\ \A f \in FieldNames \ {"pc"} : run'[p][f] = run[p][f]
        /\ \A q \in Procs \ {p} : run'[q] = run[q]
    BY <1>1, <2>1 DEF Shape, FieldNames
  <2>3. \A q \in Procs : Same(q) \/ Away(q)
    BY <2>2 DEF Same, Away, Held, Early, Arriving, Late, Undoing, Rolling
  <2>4. run[p].pc \notin Ended
    BY <2>1 DEF Working, Ended
  <2>5. Backed => Backed'
    BY <2>1, <2>2, <2>4 DEF Backed
  <2>6. faults = 0
    BY <1>1, <2>1
  <2>7. ASSUME NEW q \in Procs, InCharge(q), run[q].orig # None, alias = None PROVE Backed' \/ Someone'
    <3>1. CASE q = p
      <4>1. run'[p].backup = promised'
        BY <2>1, <2>2, <2>6, <2>7, <3>1, KilledBacks DEF FieldNames
      <4> QED BY <2>2, <4>1 DEF Backed, Ended
    <3>2. CASE q # p
      BY <2>2, <2>7, <3>2 DEF Someone, InCharge, Current, Promotes
    <3> QED BY <3>1, <3>2
  <2>8. \A t \in Targets : Intact(t) => Intact(t)'
    BY <2>1 DEF Intact
  <2>9. promised # None /\ alias = None => Backed' \/ Someone'
    BY <1>2, <2>5, <2>7 DEF Someone
  <2> QED BY <1>1, <2>1, <2>3, <2>5, <2>8, <2>9, AliasStays
<1>4. ASSUME NEW p \in Procs, NEW j \in Jobs[p], Begin(p, j) PROVE AliasInv'
  <2>1. /\ run'[p] = Start(j, IF j.kind = "promote" THEN "lock" ELSE "source", run[p].n + 1)
        /\ \A q \in Procs \ {p} : run'[q] = run[q]
        /\ run[p].pc \in Ended /\ kept' = kept \cup ({run[p].backup} \ {None}) /\ UNCHANGED <<faults, alias, promised>>
    BY <1>1, <1>4 DEF Begin, Shape
  <2>2. run'[p].pc \in {"lock", "source"}
    BY <2>1 DEF Start
  <2>3. \A q \in Procs : Same(q) \/ Away(q)
    BY <2>1, <2>2 DEF Same, Away, Held, Early, Arriving, Late, Undoing, Rolling
  <2>4. Backed => promised = None \/ Backed'
    BY <2>1 DEF Backed
  <2>5. \A q \in Procs : InCharge(q) => q # p
    BY <2>1 DEF InCharge, Ended, Held, Early, Arriving, Late, Undoing
  <2>6. Someone => Someone'
    BY <2>1, <2>5 DEF Someone, InCharge, Current, Promotes
  <2>7. \A t \in Targets : Intact(t) => Intact(t)'
    BY <1>4, BeginIntact
  <2>8. promised # None /\ alias = None => Backed' \/ Someone'
    BY <1>2, <2>4, <2>6
  <2> QED BY <1>1, <2>1, <2>3, <2>4, <2>7, <2>8, AliasStays
<1>5. CASE ClearLock \/ UNCHANGED vars
  <2>1. UNCHANGED <<dirs, run, alias, promised, kept, faults>>
    BY <1>5 DEF ClearLock, vars, rootVars
  <2>2. \A q \in Procs : Same(q)
    BY <2>1 DEF Same
  <2>3. \A t \in Targets : Intact(t) => Intact(t)'
    BY <2>1 DEF Intact
  <2>4. (Backed => Backed') /\ (Someone => Someone')
    BY <2>1 DEF Backed, Someone, InCharge, Current, Promotes
  <2> QED BY <1>1, <1>2, <2>1, <2>2, <2>3, <2>4, AliasStays
<1>6. CASE ForeignDirectory /\ UNCHANGED rootVars
  <2>1. PICK ps \in SUBSET Procs : Stale(ps)
    BY <1>6 DEF ForeignDirectory
  <2>2. \A q \in Procs : \A f \in FieldNames \ {"stale", "dirty"} : run'[q][f] = run[q][f]
    BY <1>1, <2>1 DEF Stale, Shape, FieldNames
  <2>3. \A q \in Procs : Same(q)
    BY <2>2 DEF Same, FieldNames
  <2>4. UNCHANGED <<alias, promised, kept>> /\ faults' = faults
    BY <1>6 DEF ForeignDirectory, rootVars
  <2>5. \A t \in Targets : Intact(t) => Intact(t)'
    BY <1>6, ForeignIntact
  <2>6. \A q \in Procs : run'[q].pc = run[q].pc /\ run'[q].orig = run[q].orig /\ run'[q].backup = run[q].backup
                       /\ run'[q].job = run[q].job
    BY <2>2 DEF FieldNames
  <2>7. (Backed => Backed') /\ (Someone => Someone')
    BY <2>4, <2>6 DEF Backed, Someone, InCharge, Current, Promotes
  <2> QED BY <1>1, <1>2, <2>3, <2>4, <2>5, <2>7, AliasStays
<1> QED BY <1>3, <1>4, <1>5, <1>6

(* Failures are counted, never forgotten.                                  *)
LEMMA FaultsGrow ==
  ASSUME faults \in Nat, NEW p \in Procs, Step(p) PROVE faults' >= faults
<1>1. faults' = faults \/ Fault \/ Misreport
  BY DEF Step, StageStep, MakeStage, StageLost, VerifyStage, CheckBound, Rename, AfterMove, AfterReject, Retry, Cleanup, RemoveStage,
         Lock, ReadAlias, LookAtTarget, LookAtSource, FillStage, Fill, ReadBack, CreateTemp, BackUpAlias, SwapAlias, Tidy, TidyBackup,
         TidyLock, RemoveAlias, PutBack, Release, Disown, RemoveFile, RemoveCandidate, Steady, NoStage, rootVars
<1> QED BY <1>1 DEF Fault, Misreport

(* So are the changes others make.                                         *)
LEMMA ForeignGrows ==
  ASSUME foreign \in Nat, NEW p \in Procs, Step(p) PROVE foreign' >= foreign
<1>1. foreign' = foreign \/ foreign' = foreign + 1
  BY DEF Step, StageStep, MakeStage, StageLost, VerifyStage, CheckBound, Rename, AfterMove, AfterReject, Retry, Cleanup, RemoveStage,
         Lock, ReadAlias, LookAtTarget, LookAtSource, FillStage, Fill, ReadBack, CreateTemp, BackUpAlias, SwapAlias, Tidy, TidyBackup,
         TidyLock, RemoveAlias, PutBack, Release, Disown, RemoveFile, RemoveCandidate, Steady, NoStage
<1> QED BY <1>1

(* So the invariant holds as long as there was at most one failure,        *)
LEMMA AliasNext ==
  ASSUME Apart, PInv, RetInv, PlacesInv, TypeInv, OneFailure, [Next]_vars PROVE OneFailure'
<1>1. PInv' /\ PlacesInv' /\ TypeInv'
  BY PInvNext, PlacesNext
<1>2. faults \in Nat /\ faults' \in Nat
  BY <1>1, StageAssumption DEF TypeInv, TypeOK
<1>3. ASSUME NEW p \in Procs, Step(p) PROVE OneFailure'
  <2>1. faults' >= faults /\ Fits(p)
    BY <1>2, <1>3, FaultsGrow, StepKeeps
  <2> SUFFICES ASSUME faults' <= 1 PROVE AliasInv'
    BY DEF OneFailure
  <2>2. AliasInv
    BY <1>2, <2>1 DEF OneFailure
  <2> QED BY <1>1, <1>3, <2>1, <2>2, StepAlias
<1>4. ASSUME \/ \E p \in Procs : Kill(p) \/ \E j \in Jobs[p] : Begin(p, j)
             \/ ClearLock \/ (ForeignDirectory /\ UNCHANGED rootVars) \/ UNCHANGED vars
      PROVE  OneFailure'
  <2>1. faults' >= faults
    BY <1>2, <1>4 DEF Kill, Fault, Begin, ClearLock, ForeignDirectory, vars
  <2> SUFFICES ASSUME faults' <= 1 PROVE AliasInv'
    BY DEF OneFailure
  <2>2. AliasInv
    BY <1>2, <2>1 DEF OneFailure
  <2> QED BY <1>1, <1>4, <2>2, AliasOther
<1> QED BY <1>3, <1>4 DEF Next

(* and before the first run.                                               *)
LEMMA AliasInit == Init => OneFailure
<1> SUFFICES ASSUME Init PROVE AliasInv
  BY DEF OneFailure
<1>1. \A p \in Procs : run[p].pc = "idle"
  BY DEF Init, Start
<1>2. \A p \in Procs : HolderInv(p) /\ RollingInv(p)
  BY <1>1 DEF HolderInv, RollingInv, Held, Early, Arriving, Late, Undoing, Rolling
<1>3. RetInv /\ promised = alias
  BY RetInit DEF Init
<1>4. alias # None => alias \in Candidates /\ alias \in relied
  BY DEF Init
<1>5. alias # None => Intact(alias)
  BY <1>3, <1>4 DEF RetInv, VerifiedRetained
<1> QED BY <1>2, <1>3, <1>4, <1>5 DEF AliasInv

(* What it says of the alias.                                              *)
LEMMA AliasInvSafe ==
  ASSUME PInv, PlacesInv, OneFailure PROVE AliasSafe
<1> SUFFICES ASSUME faults <= 1
             PROVE  /\ alias # None => alias \in Candidates /\ Intact(alias)
                    /\ promised # None => \/ alias \in Candidates \/ promised \in kept
                                          \/ \E p \in Procs : run[p].backup = promised
                                          \/ \E p \in Procs : run[p].orig = promised /\ run[p].pc = "putback"
  BY DEF AliasSafe, AliasNamesComplete, OriginalRecoverable
<1>1. AliasInv
  BY DEF OneFailure
<1>2. ASSUME promised # None, alias = None, NEW p \in Procs, InCharge(p), run[p].orig # None
      PROVE  run[p].backup = promised \/ (run[p].orig = promised /\ run[p].pc = "putback")
  <2>1. AliasPlace(p) /\ run[p].orig = promised
    BY <1>1, <1>2 DEF AliasInv, HolderInv, InCharge, OrigSafe
  <2>2. run[p].touched
    BY <1>2, <2>1 DEF AliasPlace
  <2>3. Target(p) # None
    BY <1>2, PromotionAssumption DEF InCharge, Current, Promotes, Target, PInv, CoreInv, Shape
  <2>4. run[p].pc \in {"swap", "putback", "release", "restore"} \cup Late
    BY <1>2, <2>2 DEF InCharge, Held, Undoing, PlacesInv, PlaceInv
  <2> QED BY <1>2, <2>1, <2>2, <2>3, <2>4 DEF AliasPlace
<1>3. promised # None /\ alias = None => Backed \/ Someone
  BY <1>1 DEF AliasInv, Someone, InCharge
<1> QED BY <1>1, <1>2, <1>3 DEF AliasInv, Backed, Someone

(* Whoever follows "current", at any moment, gets a complete candidate, or *)
(* finds none and then what it was is in a backup or about to be written   *)
(* back: for any number of runs, processes and attempts, any interference, *)
(* as long as no two processes promote to one target and at most one call  *)
(* has failed or one run was killed.                                       *)
THEOREM AliasSafeWhenApart == ASSUME Apart PROVE Spec => []AliasSafe
<1> DEFINE All == PInv /\ RetInv /\ PlacesInv /\ TypeInv /\ OneFailure
<1>1. Init => All
  BY PInvInit, RetInit, PlacesInit, TypeInit, AliasInit
<1>2. All /\ [Next]_vars => All'
  BY PInvNext, RetNext, PlacesNext, AliasNext
<1>3. All => AliasSafe
  BY AliasInvSafe
<1> QED BY <1>1, <1>2, <1>3, PTL DEF Spec

(***************************************************************************)
(* One failure is undone, if nobody interferes: what a promotion has made  *)
(* is still its own wherever it must be taken away, so nothing but a       *)
(* second failure can leave it behind.                                     *)
(***************************************************************************)
Unmoved(p) == stage[p].ino = p /\ ~stage[p].extra /\ dirs[Target(p)] = Nothing
Moved(p) == stage[p] = Nothing /\ dirs[Target(p)].ino = p /\ CandidateVerified(dirs[Target(p)])
Cleared(p) == stage[p] = Nothing /\ dirs[Target(p)].ino # p
Present(p) == {f \in NamesOf(Target(p)) : dirs[Target(p)].files[f] # "missing"}

(* Where its stage and its target are, by how far it has come.             *)
Whereabouts(p) ==
  /\ run[p].pc \in {"lock", "prestate", "look", "stage"} => Cleared(p)
  /\ run[p].pc = "stage" => dirs[Target(p)] = Nothing
  /\ run[p].pc \in {"fill", "verify", "bound", "rename", "retry", "removal"} => Unmoved(p)
  /\ run[p].pc \in {"verify", "bound", "rename", "retry"} => CandidateVerified(stage[p])
  /\ run[p].pc = "rejected" => Moved(p) \/ (Unmoved(p) /\ CandidateVerified(stage[p]))
  /\ run[p].pc \in {"moved", "readback"} \/ (run[p].created /\ run[p].pc \in Held \cup {"disown"}) => Moved(p)
  /\ (run[p].pc = "cleanup" /\ ~run[p].created /\ ~run[p].retained) => Unmoved(p)
  /\ (/\ ~run[p].created /\ ~run[p].retained
      /\ run[p].pc \in {"temp", "backup", "swap", "tidy", "tidyBackup", "tidyLock"} \cup Undoing) => Cleared(p)
  /\ run[p].pc \in {"rollback", "rmdir"} =>
       stage[p] = Nothing /\ dirs[Target(p)].ino = p /\ ~dirs[Target(p)].extra
  /\ run[p].pc = "rollback" =>
       Present(p) = NamesOf(Target(p)) \/ ("manifest" \notin Present(p) /\ Present(p) # {})
  /\ (run[p].pc = "failed" /\ ~run[p].retained) => Cleared(p)
  /\ run[p].retained => (stage[p].ino = p <=> dirs[Target(p)].ino # p)

(* What it knows of itself, and that its failure was the one.              *)
Knows(p) ==
  /\ run[p].pc \in {"fill", "verify", "bound", "rename", "moved", "rejected", "retry", "readback", "cleanup", "removal"} \cup Rolling =>
       run[p].bound
  /\ run[p].created => run[p].bound /\ run[p].promoted
  /\ run[p].retained => run[p].failed
  /\ run[p].pc \in {"removal"} \cup Rolling => run[p].failed
  /\ run[p].pc = "removal" => ~run[p].created /\ ~run[p].retained
  /\ (run[p].pc = "cleanup" /\ ~run[p].failed) \/ (run[p].bound /\ run[p].pc \in {"temp", "backup", "swap"}) => run[p].created
  /\ run[p].pc \in {"rejected", "retry"} \/ run[p].failed => faults >= 1
  /\ (run[p].failed /\ run[p].pc \in Rolling \cup {"failed"}) => lock # p

UndoInv == \A p \in Procs : Promotes(p) => Whereabouts(p) /\ Knows(p)

(* Before the first failure no candidate is in pieces.                     *)
WholeAt(c) == dirs[c] = Nothing \/ CandidateVerified(dirs[c])
Whole == faults = 0 => \A c \in Candidates : WholeAt(c)

Undisturbed == (faults <= 1 /\ foreign = 0) => UndoInv /\ Whole

(* While the stage is made, verified and moved,                            *)
LEMMA UndoStage ==
  ASSUME Shape, NEW p \in Procs, PlaceInv(p), Promotes(p), Whereabouts(p), Knows(p), StageStep(p), UNCHANGED rootVars,
         faults \in Nat, faults' <= 1, Target(p) \in Candidates, Target(p) \in Targets \ Evidence, p # "none"
  PROVE  Whereabouts(p)' /\ Knows(p)'
<1> USE DEF Set, To, At, Shape, FieldNames, Promotes, PlaceInv, Retain, PreState, OwnedTarget, Fault, rootVars, Target,
            First, Arriving, Early, Late, Undoing, Rolling, Held, Whereabouts, Knows, Unmoved, Moved, Cleared
<1>1. Nothing.ino = "none"
  BY DEF Nothing
<1>2. CASE MakeStage(p)
  <2>1. /\ UNCHANGED dirs /\ lock' = lock /\ run[p].pc = "stage" /\ Cleared(p) /\ dirs[Target(p)] = Nothing
        /\ run'[p].pc \in {"fill", "tidy"} /\ run'[p].job = run[p].job
        /\ run'[p].created = run[p].created /\ run'[p].promoted = run[p].promoted
        /\ ~run[p].retained /\ ~run[p].failed /\ ~run[p].bound /\ ~run[p].created
    BY <1>2 DEF MakeStage
  <2>2. \/ /\ run'[p].pc = "fill" /\ run'[p].bound /\ ~run'[p].retained /\ ~run'[p].failed
           /\ stage'[p] = [Nothing EXCEPT !.ino = p]
        \/ /\ run'[p].pc = "tidy" /\ ~run'[p].bound /\ run'[p].retained /\ run'[p].failed /\ faults' >= 1
           /\ stage'[p] = [Nothing EXCEPT !.ino = p]
        \/ /\ run'[p].pc = "tidy" /\ ~run'[p].bound /\ ~run'[p].retained /\ run'[p].failed /\ faults' >= 1
           /\ stage' = stage
    BY <1>2, <2>1 DEF MakeStage
  <2>3. stage'[p] = [Nothing EXCEPT !.ino = p] => stage'[p].ino = p /\ ~stage'[p].extra
    BY DEF Nothing
  <2>4. Whereabouts(p)'
    BY <1>1, <2>1, <2>2, <2>3
  <2>5. Knows(p)'
    BY <2>1, <2>2
  <2> QED BY <2>4, <2>5
<1>3. CASE StageLost(p)
  BY <1>1, <1>3 DEF StageLost
<1>4. CASE VerifyStage(p)
  <2>1. Verified(Target(p), stage[p])
    BY <1>4 DEF VerifyStage, Verified
  <2>2. /\ UNCHANGED <<dirs, stage, lock, faults>> /\ run[p].pc = "verify" /\ run'[p].pc = "bound" 
        /\ \A f \in FieldNames \ {"pc", "dirty"} : run'[p][f] = run[p][f]
    BY <1>4, <2>1 DEF VerifyStage
  <2> QED BY <2>2
<1>5. CASE CheckBound(p)
  <2>1. /\ UNCHANGED <<dirs, stage, lock, faults>> /\ run[p].pc = "bound" /\ run'[p].pc = "rename" 
        /\ \A f \in FieldNames \ {"pc", "stale"} : run'[p][f] = run[p][f]
    BY <1>5 DEF CheckBound
  <2> QED BY <2>1
<1>6. CASE Rename(p)
  <2>1. /\ run[p].pc = "rename" /\ run'[p].pc \in {"moved", "rejected"} /\ lock' = lock
        /\ \A f \in FieldNames \ {"pc", "tries"} : run'[p][f] = run[p][f]
        /\ run'[p].pc = "rejected" => faults' >= 1
        /\ faults' >= faults
    BY <1>6, <1>1 DEF Rename
  <2>2. \/ Move(p)
        \/ UNCHANGED <<dirs, stage>> /\ run'[p].pc = "rejected"
    BY <1>6 DEF Rename
  <2>3. Move(p) => Moved(p)'
    BY <1>6, <2>1 DEF Rename, Move
  <2> QED BY <2>1, <2>2, <2>3
<1>7. CASE AfterMove(p)
  <2>1. /\ UNCHANGED <<dirs, stage, lock, faults>> /\ run[p].pc = "moved" /\ run'[p].pc = "readback" 
        /\ \A f \in FieldNames \ {"pc", "promoted"} : run'[p][f] = run[p][f]
    BY <1>7 DEF AfterMove
  <2> QED BY <2>1
<1>8. CASE AfterReject(p) \/ Retry(p)
  <2>1. /\ UNCHANGED <<dirs, stage, lock, faults>> /\ run[p].pc \in {"rejected", "retry"}
        /\ run'[p].pc \in {"retry", "rename", "cleanup"}
        /\ \A f \in FieldNames \ {"pc", "failed", "retained", "stale", "dirty"} : run'[p][f] = run[p][f]
        /\ run'[p].pc = "cleanup" => run'[p].failed
        /\ run'[p].pc # "cleanup" => run'[p].failed = run[p].failed /\ run'[p].retained = run[p].retained
        /\ run'[p].retained \/ PreState(p)
    <3>1. CASE AfterReject(p)
      BY <3>1 DEF AfterReject
    <3>2. CASE Retry(p)
      BY <3>2 DEF Retry
    <3> QED BY <1>8, <3>1, <3>2
  <2>2. run[p].pc = "rejected" => Moved(p) \/ (PreState(p) /\ Unmoved(p) /\ CandidateVerified(stage[p]))
    BY <1>1
  <2>3. run[p].pc = "rejected" /\ PreState(p) => Unmoved(p) /\ CandidateVerified(stage[p])
    BY <1>1
  <2>4. run'[p].retained => run[p].pc = "rejected" /\ Moved(p)
    <3>1. CASE AfterReject(p)
      BY <2>2, <3>1 DEF AfterReject
    <3>2. CASE Retry(p)
      BY <3>2 DEF Retry, Verified
    <3> QED BY <1>8, <3>1, <3>2
  <2> QED BY <1>1, <2>1, <2>3, <2>4
<1>9. CASE Cleanup(p)
  <2>1. CASE run[p].created
    <3> DEFINE left == run[p].failed \/ run[p].retained \/ stage[p] # Nothing
    <3>1. /\ run[p].pc = "cleanup" /\ Moved(p) /\ ~run[p].retained /\ (left <=> run[p].failed)
      BY <1>9, <2>1 DEF Cleanup
    <3>2. Set(p, "tidy", [failed |-> left]) /\ UNCHANGED <<dirs, stage, lock, faults>>
      BY <1>9, <2>1 DEF Cleanup
    <3> HIDE DEF left
    <3>3. /\ run'[p].failed = left /\ run'[p].pc = "tidy" /\ \A f \in FieldNames \ {"pc", "failed"} : run'[p][f] = run[p][f]
      BY <3>2
    <3>6. /\ run'[p].pc = "tidy" /\ run'[p].created /\ ~run'[p].retained /\ UNCHANGED <<dirs, stage>>
          /\ run'[p].job = run[p].job
      BY <2>1, <3>1, <3>2, <3>3
    <3>7. Moved(p)'
      BY ONLY <3>1, <3>6 DEF Moved, Target, Promotes
    <3>4. Whereabouts(p)'
      BY ONLY <3>6, <3>7 DEF Whereabouts, Held, Undoing, Target, Promotes
    <3>5. Knows(p)'
      BY <2>1, <3>1, <3>2, <3>3
    <3> QED BY <3>4, <3>5
  <2>2. CASE ~run[p].created
    <3>1. CASE run[p].retained
      <4>1. /\ UNCHANGED <<dirs, stage, lock, faults>> /\ run[p].pc = "cleanup" /\ run'[p].pc = "tidy" /\ run[p].failed
            /\ \A f \in FieldNames \ {"pc", "failed"} : run'[p][f] = run[p][f]
            /\ run'[p].failed
        <5> DEFINE left == run[p].failed \/ run[p].retained \/ stage[p] # Nothing
        <5>1. Set(p, "tidy", [failed |-> left]) /\ run[p].pc = "cleanup" /\ UNCHANGED <<dirs, stage, lock, faults>>
          BY <1>9, <3>1 DEF Cleanup
        <5>2. left /\ run[p].failed
          BY <3>1
        <5> HIDE DEF left
        <5> QED BY <5>1, <5>2
      <4> QED BY <2>2, <3>1, <4>1
    <3>2. CASE ~run[p].retained
      <4>1. run[p].pc = "cleanup" /\ PreState(p) /\ ~run[p].promoted /\ run[p].failed
        BY <1>1, <1>9, <2>2, <3>2 DEF Cleanup
      <4>2. /\ UNCHANGED <<dirs, stage, lock, faults>> /\ run'[p].pc = "removal"
            /\ \A f \in FieldNames \ {"pc", "stale"} : run'[p][f] = run[p][f]
        BY <1>9, <3>2, <4>1 DEF Cleanup
      <4> QED BY <2>2, <3>2, <4>1, <4>2
    <3> QED BY <3>1, <3>2
  <2> QED BY <2>1, <2>2
<1>10. CASE RemoveStage(p)
  <2>1. /\ UNCHANGED <<dirs, lock, faults>> /\ stage'[p] = Nothing /\ run[p].pc = "removal" /\ run'[p].pc = "tidy" 
        /\ \A f \in FieldNames \ {"pc"} : run'[p][f] = run[p][f]
    BY <1>10 DEF RemoveStage
  <2> QED BY <1>1, <2>1
<1> QED BY ONLY StageStep(p), <1>2, <1>3, <1>4, <1>5, <1>6, <1>7, <1>8, <1>9, <1>10, Zenon DEF StageStep

(* while the target is looked at, copied and read back,                    *)
LEMMA UndoLook ==
  ASSUME Shape, NEW p \in Procs, PlaceInv(p), OwnInv(p), Promotes(p), Whereabouts(p), Knows(p),
         Lock(p) \/ ReadAlias(p) \/ LookAtTarget(p) \/ LookAtSource(p) \/ FillStage(p) \/ ReadBack(p),
         faults \in Nat, faults' <= 1, foreign \in Nat, foreign' = 0, Target(p) \in Candidates, Target(p) \in Targets \ Evidence,
         faults = 0 => WholeAt(Target(p))
  PROVE  Whereabouts(p)' /\ Knows(p)'
<1> USE DEF Set, To, At, Fails, NoStage, Steady, Shape, FieldNames, Promotes, PlaceInv, OwnInv, Fault, rootVars, Target,
            First, Arriving, Early, Late, Undoing, Rolling, Held, Whereabouts, Knows, Unmoved, Moved, Cleared
<1>1. CASE Lock(p) \/ ReadAlias(p) \/ LookAtTarget(p)
  <2>1. /\ run[p].pc \in {"lock", "prestate", "look"} /\ ~run[p].bound
        /\ run'[p].pc \in {"prestate", "look", "failed", "tidy", "stage", "temp"} \/ (run'[p].pc = "cleanup" /\ run[p].bound)
        /\ \A f \in FieldNames \ {"pc", "failed", "orig"} : run'[p][f] = run[p][f]
        /\ run[p].failed => run'[p].failed
        /\ UNCHANGED <<dirs, stage>> /\ ~run[p].failed /\ ~run[p].retained /\ Cleared(p)
        /\ run'[p].pc = "stage" => dirs[Target(p)] = Nothing
        /\ run'[p].failed => run'[p].pc # "failed" /\ faults' >= 1
    <3>1. CASE Lock(p)
      BY <3>1 DEF Lock
    <3>2. CASE ReadAlias(p)
      BY <3>2 DEF ReadAlias
    <3>3. CASE LookAtTarget(p)
      BY <3>3 DEF LookAtTarget, AfterContent, WholeAt
    <3> QED BY <1>1, <3>1, <3>2, <3>3
  <2>2. Whereabouts(p)'
    BY <2>1
  <2>3. Knows(p)'
    BY <2>1
  <2> QED BY <2>2, <2>3
<1>2. CASE LookAtSource(p)
  BY <1>2 DEF LookAtSource
<1>3. CASE FillStage(p)
  <2>1. /\ run[p].pc = "fill" /\ UNCHANGED <<dirs, lock>> /\ foreign = 0
    BY <1>3 DEF FillStage, Fill
  <2>2. \/ /\ To(p, "verify") /\ UNCHANGED faults
           /\ stage' = [stage EXCEPT ![p].files = [Copied(p) EXCEPT !["index"] = "missing"]]
        \/ /\ Set(p, "cleanup", [failed |-> TRUE]) /\ Fault
           /\ stage' = [stage EXCEPT ![p].files["manifest"] = "right"]
    BY <1>3, <2>1 DEF FillStage, Fill
  <2>3. CASE To(p, "verify") /\ UNCHANGED faults
             /\ stage' = [stage EXCEPT ![p].files = [Copied(p) EXCEPT !["index"] = "missing"]]
    <3>1. Copied(p) = [f \in Files |-> IF f \in Files \ {"index"} THEN "right" ELSE "missing"]
      BY DEF Copied, Full, NamesOf
    <3>2. stage'[p].files = [Copied(p) EXCEPT !["index"] = "missing"] /\ stage'[p].ino = p /\ ~stage'[p].extra
      BY <2>1, <2>3 DEF DirFields
    <3>3. CandidateVerified(stage'[p])
      BY <3>1, <3>2 DEF CandidateVerified, ManifestVerified, SameFiles, Files
    <3>4. run'[p].pc = "verify" /\ \A f \in FieldNames \ {"pc"} : run'[p][f] = run[p][f]
      BY <2>3
    <3> QED BY <2>1, <2>3, <3>2, <3>3, <3>4
  <2>4. CASE Set(p, "cleanup", [failed |-> TRUE]) /\ Fault
             /\ stage' = [stage EXCEPT ![p].files["manifest"] = "right"]
    <3>1. stage'[p].ino = p /\ ~stage'[p].extra
      BY <2>1, <2>4 DEF DirFields
    <3>2. run'[p].pc = "cleanup" /\ run'[p].failed /\ \A f \in FieldNames \ {"pc", "failed"} : run'[p][f] = run[p][f]
      BY <2>4
    <3>3. faults' >= 1
      BY <2>4
    <3> QED BY <2>1, <3>1, <3>2, <3>3
  <2> QED BY <2>2, <2>3, <2>4
<1>4. CASE ReadBack(p)
  <2>1. Verified(Target(p), dirs[Target(p)])
    BY <1>4 DEF ReadBack, Verified
  <2>2. (run[p].job.kind = "promote") = TRUE
    OBVIOUS
  <2>3. /\ run[p].pc = "readback" /\ UNCHANGED <<dirs, stage, lock>>
        /\ \/ UNCHANGED faults /\ \E s \in {"temp", "cleanup", "tidy"} : Set(p, s, [created |-> TRUE])
           \/ Fault /\ Set(p, "cleanup", [created |-> TRUE, failed |-> TRUE])
    <3>1. /\ run[p].pc = "readback" /\ UNCHANGED <<dirs, stage, lock>>
      BY <1>4 DEF ReadBack
    <3>2. \/ UNCHANGED faults /\ \E s \in {"temp", "cleanup", "tidy"} : Set(p, s, [created |-> run[p].job.kind = "promote"])
          \/ Fault /\ Set(p, "cleanup", [created |-> run[p].job.kind = "promote", failed |-> TRUE])
      BY <1>4, <2>1 DEF ReadBack, AfterContent
    <3> QED BY ONLY <2>2, <3>1, <3>2, Zenon
  <2>4. /\ run'[p].created /\ \A f \in FieldNames \ {"pc", "failed", "created"} : run'[p][f] = run[p][f]
        /\ run'[p].pc \in {"temp", "cleanup", "tidy"} /\ (run'[p].failed => run[p].failed \/ Fault) /\ faults' >= faults
        /\ (run[p].failed => run'[p].failed)
    BY <2>3
  <2> QED BY <2>3, <2>4
<1> QED BY <1>1, <1>2, <1>3, <1>4

(* while the alias is exchanged and at the deferred end,                   *)
LEMMA UndoEnd ==
  ASSUME Shape, NEW p \in Procs, PlaceInv(p), Promotes(p), Whereabouts(p), Knows(p),
         \/ CreateTemp(p) \/ BackUpAlias(p) \/ SwapAlias(p)
         \/ Tidy(p) \/ TidyBackup(p) \/ TidyLock(p) \/ RemoveAlias(p) \/ PutBack(p) \/ Release(p),
         faults \in Nat, faults' \in Nat, faults' <= 1, None # p
  PROVE  Whereabouts(p)' /\ Knows(p)'
<1> USE DEF Set, To, At, Fails, NoStage, Steady, Shape, FieldNames, Promotes, PlaceInv, Fault, rootVars, Target,
            First, Arriving, Early, Late, Undoing, Rolling, Held, Whereabouts, Knows, Unmoved, Moved, Cleared
<1>1. CASE CreateTemp(p) \/ BackUpAlias(p) \/ SwapAlias(p)
  <2>1. /\ run[p].pc \in {"temp", "backup", "swap"} /\ UNCHANGED <<dirs, stage, lock>>
        /\ \A f \in FieldNames \ {"pc", "failed", "temp", "touched", "backup"} : run'[p][f] = run[p][f]
        /\ run'[p].pc \in {"backup", "swap"} \/ run'[p].pc = (IF run[p].bound THEN "cleanup" ELSE "tidy")
        /\ run[p].failed => run'[p].failed
        /\ faults' >= faults /\ (run'[p].failed => run[p].failed \/ Fault)
    <3>1. CASE CreateTemp(p)
      <4>1. /\ \A f \in FieldNames \ {"pc", "temp", "failed"} : run'[p][f] = run[p][f]
            /\ run'[p].pc \in {"backup", "swap"} \/ run'[p].pc = AfterAlias(p)
            /\ run[p].failed => run'[p].failed
            /\ run'[p].failed => run[p].failed \/ Fault
        BY <3>1, TempActs
      <4>2. UNCHANGED <<dirs, stage, lock>> /\ (UNCHANGED faults \/ Fault)
        BY <3>1 DEF CreateTemp
      <4> QED BY <3>1, <4>1, <4>2 DEF CreateTemp, AfterAlias
    <3>2. CASE BackUpAlias(p)
      BY <3>2 DEF BackUpAlias, AfterAlias, Misreport
    <3>3. CASE SwapAlias(p)
      BY <3>3 DEF SwapAlias, AfterAlias, Misreport
    <3> QED BY <1>1, <3>1, <3>2, <3>3
  <2>2. run[p].bound => run[p].promoted /\ ~run[p].retained /\ ~run[p].failed
    BY <2>1
  <2>3. Whereabouts(p)'
    BY <2>1, <2>2
  <2>4. Knows(p)'
    BY <2>1, <2>2
  <2> QED BY <2>3, <2>4
<1>2. CASE Tidy(p) \/ TidyBackup(p) \/ RemoveAlias(p) \/ PutBack(p)
  <2>1. /\ run[p].pc \in {"tidy", "tidyBackup", "restore", "putback"} /\ UNCHANGED <<dirs, stage, lock>>
        /\ run'[p].pc \in {"tidyBackup", "tidyLock", "restore", "putback", "release"}
        /\ \A f \in FieldNames \ {"pc", "failed", "temp", "backup", "restored"} : run'[p][f] = run[p][f]
        /\ run[p].failed => run'[p].failed
        /\ faults' >= faults /\ (run'[p].failed => run[p].failed \/ Fault)
    <3>1. CASE Tidy(p)
      BY <3>1 DEF Tidy
    <3>2. CASE TidyBackup(p)
      BY <3>2 DEF TidyBackup
    <3>3. CASE RemoveAlias(p)
      BY <3>3 DEF RemoveAlias
    <3>4. CASE PutBack(p)
      BY <3>4 DEF PutBack
    <3> QED BY <1>2, <3>1, <3>2, <3>3, <3>4
  <2>2. Whereabouts(p)'
    BY <2>1
  <2>3. Knows(p)'
    BY <2>1
  <2> QED BY <2>2, <2>3
<1>3. CASE TidyLock(p)
  <2>1. /\ run[p].pc = "tidyLock" /\ UNCHANGED <<dirs, stage>> /\ run'[p].pc \in {"ok", "restore"}
        /\ \A f \in FieldNames \ {"pc", "failed"} : run'[p][f] = run[p][f]
        /\ run[p].failed => run'[p].failed
        /\ faults' >= faults /\ (run'[p].failed => run[p].failed \/ Fault)
    BY <1>3 DEF TidyLock
  <2>2. Whereabouts(p)'
    BY <2>1
  <2>3. Knows(p)'
    BY <2>1
  <2> QED BY <2>2, <2>3
<1>4. CASE Release(p)
  <2>1. /\ run[p].pc = "release" /\ UNCHANGED <<dirs, stage>>
        /\ run'[p].pc = (IF run[p].created THEN "disown" ELSE "failed")
        /\ \A f \in FieldNames \ {"pc", "temp", "backup"} : run'[p][f] = run[p][f]
        /\ faults' >= faults /\ (lock' = None \/ Fault)
    BY <1>4 DEF Release
  <2>2. Whereabouts(p)'
    BY <2>1
  <2>3. Knows(p)'
    BY <2>1
  <2> QED BY <2>2, <2>3
<1> QED BY <1>1, <1>2, <1>3, <1>4

(* and while its own candidate is rolled back.                             *)
LEMMA UndoRollback ==
  ASSUME Shape, TypeOK, NEW p \in Procs, PlaceInv(p), OwnInv(p), Promotes(p), Whereabouts(p), Knows(p),
         Disown(p) \/ RemoveFile(p) \/ RemoveCandidate(p),
         faults \in Nat, faults' <= 1, Target(p) \in Targets \ Evidence, p # "none"
  PROVE  Whereabouts(p)' /\ Knows(p)'
<1> USE DEF At, To
<1>1. run[p].pc \in Rolling
  BY DEF Disown, RemoveFile, RemoveCandidate, Rolling
<1>2. run[p].bound /\ run[p].failed /\ faults >= 1 /\ lock # p /\ ~run[p].retained
  BY <1>1 DEF Knows, OwnInv, PlaceInv, Rolling
<1>3. ~Fault
  BY <1>2 DEF Fault
<1>4. DOMAIN run[p] = FieldNames /\ DOMAIN run = Procs /\ DOMAIN dirs = Targets /\ DOMAIN dirs[Target(p)] = DirFields
  BY DEF Shape
<1> DEFINE names == NamesOf(Target(p))
           left == {f \in names : dirs[Target(p)].files[f] # "missing"}
<1>5. names = {"manifest", "record", "archive"} /\ Present(p) = left
  BY DEF NamesOf, Files, Present
<1>6. ASSUME run'[p].job = run[p].job, run'[p].created = run[p].created, run'[p].bound, run'[p].failed,
             run'[p].retained = run[p].retained, run'[p].promoted = run[p].promoted,
             UNCHANGED <<lock, faults>>, run'[p].pc \in {"rollback", "rmdir", "failed"}
      PROVE  Knows(p)'
  BY <1>1, <1>2, <1>6 DEF Knows, Rolling
<1>7. CASE Disown(p)
  <2>1. run[p].pc = "disown" /\ Moved(p)
    BY <1>7 DEF Disown, Whereabouts, OwnInv
  <2>2. UNCHANGED <<dirs, stage, lock, faults>> /\ Set(p, "rollback", [stale |-> FALSE])
    BY <1>7, <2>1 DEF Disown, OwnedTarget, Moved, Steady, NoStage, rootVars
  <2>3. run'[p].pc = "rollback" /\ \A f \in FieldNames \ {"pc", "stale"} : run'[p][f] = run[p][f]
    BY <1>4, <2>2 DEF Set, FieldNames
  <2>4. left = names /\ ~dirs[Target(p)].extra
    BY <1>5, <2>1 DEF Moved, CandidateVerified, SameFiles, Files
  <2>5. Target(p)' = Target(p)
    BY <2>3 DEF Target, FieldNames
  <2>6. Present(p)' = left
    BY <1>5, <2>2, <2>5 DEF Present
  <2>7. Whereabouts(p)'
    BY <1>2, <1>5, <2>1, <2>2, <2>3, <2>4, <2>5, <2>6 DEF Whereabouts, Moved, FieldNames, Held, Early, Arriving, Late, Undoing
  <2> QED BY <1>2, <1>6, <2>2, <2>3, <2>7 DEF FieldNames
<1>8. CASE RemoveFile(p)
  <2> DEFINE first == IF "manifest" \in left THEN "manifest" ELSE CHOOSE g \in left : TRUE
             order == CASE "manifest" \in left -> names \ left = {} [] OTHER -> names \ left # {}
  <2>1. run[p].pc = "rollback" /\ UNCHANGED <<stage, lock>>
    BY <1>8 DEF RemoveFile, rootVars
  <2>2. left # {} /\ ("manifest" \in left => left = names)
    BY <1>5, <2>1 DEF Whereabouts
  <2>3. order
    BY <1>5, <2>2
  <2>4. \/ /\ left # {} /\ order /\ UNCHANGED faults
           /\ dirs' = [dirs EXCEPT ![Target(p)].files[first] = "missing"]
           /\ To(p, IF Cardinality(left) = 1 THEN "rmdir" ELSE "rollback")
        \/ (left = {} \/ ~order)
        \/ Fault
    BY <1>8 DEF RemoveFile
  <2> HIDE DEF order
  <2>5. /\ UNCHANGED faults /\ To(p, IF Cardinality(left) = 1 THEN "rmdir" ELSE "rollback")
        /\ dirs' = [dirs EXCEPT ![Target(p)].files[first] = "missing"]
    BY <1>3, <2>2, <2>3, <2>4
  <2>6. /\ run'[p].pc = (IF Cardinality(left) = 1 THEN "rmdir" ELSE "rollback")
        /\ \A f \in FieldNames \ {"pc"} : run'[p][f] = run[p][f]
    BY <1>4, <2>5 DEF FieldNames
  <2>7. first \in left /\ ("manifest" \in left => first = "manifest")
    BY <2>2
  <2>8. Target(p)' = Target(p)
    BY <2>6 DEF Target, FieldNames
  <2> HIDE DEF first
  <2>9. /\ dirs'[Target(p)].ino = dirs[Target(p)].ino /\ dirs'[Target(p)].extra = dirs[Target(p)].extra
        /\ dirs'[Target(p)].files = [dirs[Target(p)].files EXCEPT ![first] = "missing"]
    BY <1>4, <2>5 DEF DirFields
  <2>10. Present(p)' = {f \in names : dirs'[Target(p)].files[f] # "missing"}
    BY <2>8 DEF Present
  <2>11. "manifest" \notin Present(p)' /\ (Present(p)' = {} => left = {first})
    <3>1. DOMAIN dirs[Target(p)].files = Files /\ names \subseteq Files
      BY <1>5 DEF TypeOK, Directory, Files
    <3>2. \A f \in names : dirs'[Target(p)].files[f] # "missing" <=> (f # first /\ f \in left)
      BY <2>9, <3>1
    <3>3. Present(p)' = left \ {first}
      BY <2>10, <3>2
    <3>4. "manifest" \notin left \ {first}
      BY <2>7
    <3> QED BY <2>7, <3>3, <3>4
  <2>12. run'[p].pc = "rmdir" \/ (run'[p].pc = "rollback" /\ Present(p)' # {})
    <3>1. left = {first} => Cardinality(left) = 1
      BY FS_Singleton
    <3> QED BY <2>6, <2>11, <3>1
  <2>13. dirs[Target(p)].ino = p /\ ~dirs[Target(p)].extra /\ stage[p] = Nothing
    BY <2>1 DEF Whereabouts
  <2>14. Whereabouts(p)'
    BY <1>2, <2>1, <2>6, <2>8, <2>9, <2>11, <2>12, <2>13 DEF Whereabouts, Held, Early, Arriving, Late, Undoing, FieldNames
  <2> QED BY <1>2, <1>6, <2>1, <2>5, <2>6, <2>12, <2>14 DEF FieldNames
<1>9. CASE RemoveCandidate(p)
  <2>1. run[p].pc = "rmdir" /\ UNCHANGED <<stage, lock>> /\ To(p, "failed")
    BY <1>9 DEF RemoveCandidate, rootVars
  <2>2. stage[p] = Nothing /\ ~dirs[Target(p)].extra
    BY <2>1 DEF Whereabouts
  <2>3. UNCHANGED faults /\ dirs' = [dirs EXCEPT ![Target(p)] = Nothing]
    BY <1>3, <1>9, <2>2 DEF RemoveCandidate
  <2>4. run'[p].pc = "failed" /\ \A f \in FieldNames \ {"pc"} : run'[p][f] = run[p][f]
    BY <1>4, <2>1 DEF FieldNames
  <2>5. Target(p)' = Target(p)
    BY <2>4 DEF Target, FieldNames
  <2>6. Cleared(p)'
    BY <1>4, <2>1, <2>2, <2>3, <2>5 DEF Cleared, Nothing
  <2>7. Whereabouts(p)'
    BY <1>2, <2>4, <2>6 DEF Whereabouts, Held, Early, Arriving, Late, Undoing, FieldNames
  <2> QED BY <1>2, <1>6, <2>1, <2>3, <2>4, <2>7 DEF FieldNames
<1> QED BY <1>7, <1>8, <1>9

(* What others do to a promotion's stage, target and lock.                 *)
LEMMA UndoOthers ==
  ASSUME NEW p \in Procs, Promotes(p), Whereabouts(p), Knows(p), run'[p] = run[p], stage'[p] = stage[p],
         dirs'[Target(p)] = dirs[Target(p)] \/ (dirs[Target(p)].ino \notin {p, "none"} /\ dirs'[Target(p)].ino # p),
         lock' = p => lock = p, faults \in Nat, faults' \in Nat, faults' >= faults
  PROVE  Whereabouts(p)' /\ Knows(p)'
<1>1. Nothing.ino = "none" /\ Target(p)' = Target(p)
  BY DEF Nothing, Target
<1>2. CASE dirs'[Target(p)] = dirs[Target(p)]
  <2>1. Whereabouts(p)'
    BY <1>1, <1>2 DEF Whereabouts, Unmoved, Moved, Cleared, Present
  <2> QED BY <2>1 DEF Knows
<1>3. CASE dirs[Target(p)].ino \notin {p, "none"} /\ dirs'[Target(p)].ino # p
  <2>1. ~Unmoved(p) /\ ~Moved(p) /\ (Cleared(p) => Cleared(p)')
    BY <1>1, <1>3 DEF Unmoved, Moved, Cleared
  <2>2. Whereabouts(p)'
    BY <1>1, <1>3, <2>1 DEF Whereabouts
  <2> QED BY <2>2 DEF Knows
<1> QED BY <1>2, <1>3

(* A candidate appears whole, and is taken to pieces only by a run that    *)
(* has failed.                                                             *)
LEMMA WholeStep ==
  ASSUME Shape, UndoInv, Whole, NEW p \in Procs, Fits(p), OwnInv(p), faults \in Nat, faults' \in Nat, faults' >= faults
  PROVE  Whole'
<1> SUFFICES ASSUME faults' = 0, NEW c \in Candidates PROVE WholeAt(c)'
  BY DEF Whole
<1>1. WholeAt(c) /\ faults = 0 /\ c \in Targets
  BY DEF Whole, Targets
<1>2. CASE dirs' = dirs
  BY <1>1, <1>2 DEF WholeAt
<1>3. CASE Appears(p)
  <2>1. CASE c = Target(p)
    <3>1. Promotes(p)
      BY <2>1, StageAssumption, PromotionAssumption DEF Shape, Target, Promotes
    <3>2. CandidateVerified(stage[p])
      BY <1>3, <3>1 DEF UndoInv, Whereabouts, Appears
    <3>3. dirs'[c] = stage[p]
      BY <1>1, <1>3, <2>1 DEF Appears, Shape
    <3> QED BY <3>2, <3>3 DEF WholeAt
  <2>2. CASE c # Target(p)
    <3>1. dirs'[c] = dirs[c]
      BY <1>1, <1>3, <2>2 DEF Appears, Shape
    <3> QED BY <1>1, <3>1 DEF WholeAt
  <2> QED BY <2>1, <2>2
<1>4. CASE RollsBack(p)
  <2>1. Promotes(p)
    BY <1>4 DEF OwnInv, RollsBack, Promotes
  <2>2. run[p].failed
    BY <1>4, <2>1 DEF UndoInv, Knows, RollsBack, Rolling
  <2> QED BY <1>1, <2>1, <2>2 DEF UndoInv, Knows
<1> QED BY <1>2, <1>3, <1>4 DEF Fits

(* Nobody else touches the target of a promotion, or takes its lock.       *)
LEMMA UndoStep ==
  ASSUME Apart, PInv, PlacesInv, TypeInv, TypeInv', UndoInv, Whole, NEW p \in Procs, Step(p), Fits(p),
         faults' <= 1, foreign' = 0, faults' >= faults
  PROVE  UndoInv' /\ Whole'
<1>1. /\ Shape /\ faults \in Nat /\ faults' \in Nat /\ foreign \in Nat /\ TypeOK
      /\ run'[p].job = run[p].job /\ \A q \in Procs \ {p} : run'[q] = run[q] /\ stage'[q] = stage[q]
      /\ PlaceInv(p) /\ OwnInv(p)
  BY StageAssumption DEF PInv, CoreInv, TypeInv, TypeOK, Fits, Frame, PlacesInv
<1>2. ASSUME Promotes(p) PROVE Whereabouts(p)' /\ Knows(p)'
  <2>1. Target(p) \in Candidates
    BY <1>1, <1>2, PromotionAssumption DEF Promotes, Shape, Target
  <2>2. Target(p) \in Targets \ Evidence /\ p # "none" /\ None # p
    BY <2>1, StageAssumption, PromotionAssumption DEF Targets
  <2>3. Whereabouts(p) /\ Knows(p) /\ (faults = 0 => WholeAt(Target(p)))
    BY <1>2, <2>1 DEF UndoInv, Whole
  <2> QED BY <1>1, <1>2, <2>1, <2>2, <2>3, UndoStage, UndoLook, UndoEnd, UndoRollback DEF Step
<1>3. ASSUME NEW q \in Procs \ {p}, Promotes(q) PROVE Whereabouts(q)' /\ Knows(q)'
  <2>1. Target(p) # Target(q) /\ Target(q) \in Targets
    BY <1>1, <1>3, OwnTarget, PromotionAssumption DEF Promotes, Shape, Target, Targets
  <2>2. dirs'[Target(q)] = dirs[Target(q)]
    BY <1>1, <2>1 DEF Fits, Appears, RollsBack, Shape
  <2>3. lock' = q => lock = q
    <3>1. lock' \in {lock, p, None}
      BY DEF Step, StageStep, Lock, ReadAlias, LookAtTarget, LookAtSource, FillStage, ReadBack, CreateTemp, BackUpAlias, SwapAlias,
             Tidy, TidyBackup, TidyLock, RemoveAlias, PutBack, Release, Disown, RemoveFile, RemoveCandidate, Steady, NoStage, rootVars
    <3> QED BY <1>3, <3>1, PromotionAssumption
  <2> QED BY <1>1, <1>3, <2>2, <2>3, UndoOthers DEF UndoInv
<1>4. \A q \in Procs : Promotes(q)' <=> Promotes(q)
  BY <1>1 DEF Promotes
<1>5. Whole'
  BY <1>1, WholeStep
<1> QED BY <1>2, <1>3, <1>4, <1>5 DEF UndoInv

(* A killed run, or one that begins, has nothing left to undo.             *)
LEMMA UndoOther ==
  ASSUME PInv, PlacesInv, TypeInv, TypeInv', UndoInv, Whole, faults' <= 1, foreign' = 0, faults' >= faults,
         \/ \E p \in Procs : Kill(p) \/ \E j \in Jobs[p] : Begin(p, j)
         \/ ClearLock \/ (ForeignDirectory /\ UNCHANGED rootVars) \/ UNCHANGED vars
  PROVE  UndoInv' /\ Whole'
<1>1. Shape /\ faults \in Nat /\ faults' \in Nat /\ foreign \in Nat
  BY StageAssumption DEF PInv, CoreInv, TypeInv, TypeOK
<1>2. ~ForeignDirectory
  BY <1>1 DEF ForeignDirectory
<1>3. ASSUME NEW p \in Procs, Kill(p) PROVE UndoInv'
  <2>1. /\ run' = [run EXCEPT ![p].pc = "dead"] /\ UNCHANGED <<dirs, stage, lock>>
    BY <1>3 DEF Kill, To, rootVars
  <2>2. /\ run'[p].pc = "dead" /\ \A f \in FieldNames \ {"pc"} : run'[p][f] = run[p][f]
        /\ \A q \in Procs \ {p} : run'[q] = run[q]
    BY <1>1, <2>1 DEF Shape, FieldNames
  <2>3. ASSUME Promotes(p)' PROVE Whereabouts(p)' /\ Knows(p)'
    <3>1. Promotes(p) /\ Knows(p) /\ Whereabouts(p)
      BY <2>2, <2>3 DEF Promotes, UndoInv, FieldNames
    <3>2. Whereabouts(p)'
      BY <2>1, <2>2, <3>1 DEF Whereabouts, Held, Early, Arriving, Late, Undoing, Target, FieldNames
    <3>3. Knows(p)'
      BY <1>1, <2>2, <3>1 DEF Knows, FieldNames, Rolling
    <3> QED BY <3>2, <3>3
  <2>4. ASSUME NEW q \in Procs \ {p}, Promotes(q)' PROVE Whereabouts(q)' /\ Knows(q)'
    <3>1. Promotes(q)
      BY <2>2, <2>4 DEF Promotes
    <3> QED BY <1>1, <2>1, <2>2, <3>1, UndoOthers DEF UndoInv
  <2> QED BY <2>3, <2>4 DEF UndoInv
<1>4. ASSUME NEW p \in Procs, NEW j \in Jobs[p], Begin(p, j) PROVE UndoInv'
  <2>1. /\ run'[p] = Start(j, IF j.kind = "promote" THEN "lock" ELSE "source", run[p].n + 1)
        /\ \A q \in Procs \ {p} : run'[q] = run[q] /\ stage'[q] = stage[q]
        /\ lock' = lock
        /\ dirs' = [t \in Targets |-> IF dirs[t].ino = p THEN [dirs[t] EXCEPT !.ino = "past"] ELSE dirs[t]]
    BY <1>1, <1>4 DEF Begin, Shape
  <2>2. Whereabouts(p)' /\ Knows(p)'
    <3>1. /\ run'[p].pc \in {"lock", "source"} /\ ~run'[p].created /\ ~run'[p].bound /\ ~run'[p].retained
          /\ ~run'[p].failed /\ Target(p)' = j.target /\ j.target \in Targets
      BY <2>1, PromotionAssumption DEF Start, Target, Targets
    <3>2. stage'[p] = Nothing
      BY <1>1, <1>4 DEF Begin, Shape
    <3>3. dirs'[j.target].ino # p
      <4>1. DOMAIN dirs[j.target] = DirFields /\ p # "past"
        BY <1>1, <3>1, StageAssumption DEF Shape
      <4> QED BY <2>1, <3>1, <4>1 DEF DirFields
    <3> QED BY <3>1, <3>2, <3>3 DEF Cleared, Whereabouts, Knows, Held, Early, Arriving, Late, Undoing, Rolling
  <2>3. ASSUME NEW q \in Procs \ {p}, Promotes(q)' PROVE Whereabouts(q)' /\ Knows(q)'
    <3>1. Promotes(q) /\ Target(q) \in Targets
      BY <1>1, <2>1, <2>3, PromotionAssumption DEF Promotes, Shape, Target, Targets
    <3>2. \/ dirs'[Target(q)] = dirs[Target(q)]
          \/ dirs[Target(q)].ino = p /\ dirs'[Target(q)] = [dirs[Target(q)] EXCEPT !.ino = "past"]
      BY <2>1, <3>1
    <3>3. DOMAIN dirs[Target(q)] = DirFields /\ p # "none" /\ q # "past"
      BY <1>1, <3>1, StageAssumption DEF Shape
    <3>4. dirs'[Target(q)] = dirs[Target(q)] \/ (dirs[Target(q)].ino \notin {q, "none"} /\ dirs'[Target(q)].ino # q)
      BY <2>3, <3>2, <3>3 DEF DirFields
    <3> QED BY <1>1, <2>1, <2>3, <3>1, <3>4, UndoOthers DEF UndoInv
  <2> QED BY <2>2, <2>3 DEF UndoInv
<1>5. ASSUME ClearLock \/ UNCHANGED vars PROVE UndoInv'
  <2>1. UNCHANGED <<dirs, stage, run, faults>> /\ lock' \in {lock, None}
    BY <1>5 DEF ClearLock, vars, rootVars
  <2>2. \A q \in Procs : (Promotes(q)' <=> Promotes(q)) /\ (lock' = q => lock = q)
    BY <2>1, PromotionAssumption DEF Promotes
  <2>3. \A q \in Procs : Promotes(q) => Whereabouts(q)' /\ Knows(q)'
    BY <1>1, <2>1, <2>2, UndoOthers DEF UndoInv
  <2> QED BY <2>2, <2>3 DEF UndoInv
<1>6. Whole'
  <2> SUFFICES ASSUME faults' = 0, NEW c \in Candidates PROVE WholeAt(c)'
    BY DEF Whole
  <2>1. WholeAt(c) /\ c \in Targets
    BY <1>1 DEF Whole, Targets
  <2>2. CASE dirs' = dirs
    BY <2>1, <2>2 DEF WholeAt
  <2>3. ASSUME NEW p \in Procs, NEW j \in Jobs[p], Begin(p, j) PROVE WholeAt(c)'
    <3>1. dirs'[c] = dirs[c] \/ (dirs[c].ino = p /\ dirs'[c] = [dirs[c] EXCEPT !.ino = "past"])
      BY <2>1, <2>3 DEF Begin
    <3>2. dirs'[c] = dirs[c] \/ (/\ dirs[c] # Nothing
                               /\ dirs'[c].files = dirs[c].files /\ dirs'[c].extra = dirs[c].extra)
      BY <1>1, <2>1, <3>1, StageAssumption DEF Nothing, Shape, DirFields
    <3> QED BY <2>1, <3>2 DEF WholeAt, CandidateVerified, ManifestVerified, SameFiles
  <2>4. CASE UNCHANGED vars \/ ClearLock \/ \E p \in Procs : Kill(p)
    BY <2>2, <2>4 DEF vars, ClearLock, Kill
  <2> QED BY <1>2, <2>3, <2>4
<1> QED BY <1>2, <1>3, <1>4, <1>5, <1>6

(* So it holds as long as nobody interferes and there was one failure,     *)
LEMMA UndoNext ==
  ASSUME Apart, PInv, PlacesInv, TypeInv, Undisturbed, [Next]_vars PROVE Undisturbed'
<1>1. PInv' /\ PlacesInv' /\ TypeInv'
  BY PInvNext, PlacesNext
<1>2. faults \in Nat /\ faults' \in Nat /\ foreign \in Nat /\ foreign' \in Nat
  BY <1>1, StageAssumption DEF TypeInv, TypeOK
<1>3. ASSUME NEW p \in Procs, Step(p) PROVE Undisturbed'
  <2>1. faults' >= faults /\ Fits(p) /\ foreign' >= foreign
    BY <1>2, <1>3, FaultsGrow, ForeignGrows, StepKeeps
  <2> SUFFICES ASSUME faults' <= 1, foreign' = 0 PROVE UndoInv' /\ Whole'
    BY DEF Undisturbed
  <2>2. UndoInv /\ Whole
    BY <1>2, <2>1 DEF Undisturbed
  <2> QED BY <1>1, <1>3, <2>1, <2>2, UndoStep
<1>4. ASSUME \/ \E p \in Procs : Kill(p) \/ \E j \in Jobs[p] : Begin(p, j)
             \/ ClearLock \/ (ForeignDirectory /\ UNCHANGED rootVars) \/ UNCHANGED vars
      PROVE  Undisturbed'
  <2>1. faults' >= faults /\ foreign' >= foreign
    BY <1>2, <1>4 DEF Kill, Fault, Begin, ClearLock, ForeignDirectory, vars
  <2> SUFFICES ASSUME faults' <= 1, foreign' = 0 PROVE UndoInv' /\ Whole'
    BY DEF Undisturbed
  <2>2. UndoInv /\ Whole
    BY <1>2, <2>1 DEF Undisturbed
  <2> QED BY <1>1, <1>4, <2>1, <2>2, UndoOther
<1> QED BY <1>3, <1>4 DEF Next

(* and before the first run.                                               *)
LEMMA UndoInit == Init => Undisturbed
<1> SUFFICES ASSUME Init PROVE UndoInv /\ Whole
  BY DEF Undisturbed
<1>1. ASSUME NEW p \in Procs PROVE Whereabouts(p) /\ Knows(p)
  <2>1. run[p].pc = "idle" /\ ~run[p].created /\ ~run[p].bound /\ ~run[p].retained /\ ~run[p].failed
    BY DEF Init, Start
  <2> QED BY <2>1 DEF Whereabouts, Knows, Held, Early, Arriving, Late, Undoing, Rolling
<1>2. ASSUME NEW c \in Candidates PROVE WholeAt(c)
  <2>1. PICK past \in SUBSET Candidates : dirs = [t \in Targets |-> IF t \in past THEN Full("past", NamesOf(t)) ELSE Nothing]
    BY DEF Init
  <2>2. c \in Targets /\ c \notin Evidence
    BY StageAssumption DEF Targets
  <2>3. CandidateVerified(Full("past", NamesOf(c)))
    BY <2>2 DEF Full, NamesOf, CandidateVerified, ManifestVerified, SameFiles, Files
  <2> QED BY <2>1, <2>2, <2>3 DEF WholeAt
<1> QED BY <1>1, <1>2 DEF UndoInv, Whole

(* One failure of a promotion is undone: the alias is as it was found, and *)
(* there is no lock, no stage and no candidate of its own, but for a       *)
(* directory it retained, which is there as stage or as target; and a      *)
(* promotion that does not get the lock leaves nothing.  This holds for    *)
(* any number of runs, processes and attempts, as long as no two processes *)
(* promote to one target.                                                  *)
THEOREM UndoneWhenApart == ASSUME Apart PROVE Spec => []FailureUndone
<1> DEFINE All == PInv /\ RetInv /\ PlacesInv /\ TypeInv /\ OneFailure /\ Undisturbed
<1>1. Init => All
  BY PInvInit, RetInit, PlacesInit, TypeInit, AliasInit, UndoInit
<1>2. All /\ [Next]_vars => All'
  BY PInvNext, RetNext, PlacesNext, AliasNext, UndoNext
<1>3. All => FailureUndone
  <2> SUFFICES ASSUME All, NEW p \in Procs, faults <= 1, foreign = 0, Promotes(p)
               PROVE  /\ (run[p].pc = "release" /\ run[p].touched) => alias = run[p].orig
                      /\ run[p].pc = "failed" =>
                           /\ run[p].failed => lock # p
                           /\ ~run[p].retained => stage[p].ino # p /\ dirs[Target(p)].ino # p
                           /\ run[p].retained => run[p].failed /\ (stage[p].ino = p <=> dirs[Target(p)].ino # p)
    BY DEF FailureUndone, At, Promotes
  <2>1. Whereabouts(p) /\ Knows(p)
    BY DEF Undisturbed, UndoInv
  <2>2. run[p].touched => Current(p)
    BY DEF PlacesInv, PlaceInv
  <2>3. (run[p].pc = "release" /\ run[p].touched) => AliasPlace(p)
    BY <2>2 DEF OneFailure, AliasInv, HolderInv, Held, Undoing
  <2>4. Nothing.ino # p
    BY StageAssumption DEF Nothing
  <2> QED BY <2>1, <2>3, <2>4 DEF Whereabouts, Knows, Cleared, AliasPlace
<1> QED BY <1>1, <1>2, <1>3, PTL DEF Spec
=============================================================================
