----------------------------- MODULE ResultFile ------------------------------
(***************************************************************************)
(* writeResultFile (internal/benchmark/output.go): the result is written   *)
(* to a new file in the output directory and renamed over the target, with *)
(* the directory held open and its identity, the protected baseline's and  *)
(* the target looked at before and after.  Others may exchange any of them *)
(* between two calls.                                                      *)
(***************************************************************************)
EXTENDS Naturals

CONSTANTS MaxForeign   \* bound: exchanges by others

ASSUME ResultAssumption == MaxForeign \in Nat

VARIABLES
  names,    \* path -> the directory it leads to
  bound,    \* path -> the directory held open, "none" before
  entry,    \* directory -> what the target's name is there
  was,      \* what the target's name was when the writer began (history)
  temp,     \* content of the temporary file, "none" without one, "moved" renamed
  step,     \* where the writer is
  foreign

resultVars == <<names, bound, entry, was, temp, step, foreign>>

Directories == {"results", "baseline", "other"}
Entries == {"absent", "old", "link", "directory", "partial", "new", "theirs"}
WriterSteps == {"mkdir", "openBase", "openOut", "bound1", "target1", "create", "write", "target2", "bound2",
                "rename", "identity", "bound3", "unpublish", "tidy", "closed"}

ResultTypeOK ==
  /\ names \in [{"out", "base"} -> Directories] /\ bound \in [{"out", "base"} -> Directories \cup {"none"}]
  /\ entry \in [Directories -> Entries] /\ was \in Entries /\ temp \in {"none", "partial", "new", "moved"}
  /\ step \in WriterSteps \cup {"waiting", "written"} /\ foreign \in 0..MaxForeign

ResultInit ==
  /\ names = [p \in {"out", "base"} |-> "results"] /\ bound = [p \in {"out", "base"} |-> "none"]
  /\ entry = [d \in Directories |-> "old"] /\ was = "old" /\ temp = "none" /\ step = "waiting" /\ foreign = 0

(* The writer is called.  Where the paths lead and what the target is      *)
(* matters from here on only.                                              *)
BeginWriting ==
  /\ step = "waiting" /\ step' = "mkdir" /\ names' \in [{"out", "base"} -> Directories]
  /\ was' \in {"absent", "old", "link", "directory"} /\ entry' = [entry EXCEPT ![names'["out"]] = was']
  /\ UNCHANGED <<bound, temp, foreign>>

Advance(from, to) == step = from /\ step' = to
Quiet == UNCHANGED <<names, was, foreign>>

(* The two roots are opened one after the other. *)
MakeParent == Advance("mkdir", "openBase") /\ Quiet /\ UNCHANGED <<bound, entry, temp>>
OpenBaseline ==
  /\ Advance("openBase", "openOut") /\ bound' = [bound EXCEPT !["base"] = names["base"]]
  /\ Quiet /\ UNCHANGED <<entry, temp>>
OpenOutput ==
  /\ Advance("openOut", "bound1") /\ bound' = [bound EXCEPT !["out"] = names["out"]]
  /\ Quiet /\ UNCHANGED <<entry, temp>>

BoundDirectories_Unprotected == names = bound   \* mutant: the output may be the baseline

(* validateBoundDirectories and validateResultTarget. *)
BoundDirectories == names = bound /\ names["out"] # names["base"]
ResultTarget == entry[bound["out"]] \in {"absent", "old", "new", "theirs", "partial"}

Validate(from, ok, to, otherwise) ==
  /\ step = from /\ step' = IF ok THEN to ELSE otherwise
  /\ Quiet /\ UNCHANGED <<bound, entry, temp>>
Validations ==
  \/ Validate("bound1", BoundDirectories, "target1", "closed")
  \/ Validate("target1", ResultTarget, "create", "closed")
  \/ Validate("target2", ResultTarget, "bound2", "tidy")
  \/ Validate("bound2", BoundDirectories, "rename", "tidy")
  \/ Validate("identity", entry[bound["out"]] \in {"new", "partial"}, "bound3", "tidy")
  \/ Validate("bound3", BoundDirectories, "written", "unpublish")

CreateTemporary == Advance("create", "write") /\ temp' = "partial" /\ Quiet /\ UNCHANGED <<bound, entry>>
WriteTemporary_Short == Advance("write", "target2") /\ temp' = "partial" /\ Quiet /\ UNCHANGED <<bound, entry>>   \* mutant: a short write is not noticed

WriteTemporary == Advance("write", "target2") /\ temp' = "new" /\ Quiet /\ UNCHANGED <<bound, entry>>

(* A rename replaces a link, but no directory. *)
RenameTemporary ==
  /\ step = "rename" /\ Quiet /\ UNCHANGED bound
  /\ IF entry[bound["out"]] = "directory" THEN step' = "tidy" /\ UNCHANGED <<entry, temp>>
     ELSE step' = "identity" /\ entry' = [entry EXCEPT ![bound["out"]] = temp] /\ temp' = "moved"

Unpublish ==
  /\ Advance("unpublish", "tidy") /\ Quiet /\ UNCHANGED <<bound, temp>>
  /\ entry' = [entry EXCEPT ![bound["out"]] = "absent"]

(* Any of the calls may fail, the deferred closes too.  Until the          *)
(* temporary file exists there is nothing to remove; if the directories    *)
(* cannot be looked at for the last time, the result is removed, whatever  *)
(* it replaced.                                                            *)
CallFails ==
  /\ step \in (WriterSteps \ {"closed", "tidy"}) \cup {"written"} /\ Quiet /\ UNCHANGED <<bound, entry, temp>>
  /\ step' = IF temp = "none" \/ step = "written" THEN "closed" ELSE IF step = "bound3" THEN "unpublish" ELSE "tidy"

(* The deferred removal of the temporary name, its error ignored. *)
RemoveTemporary(removed) ==
  /\ Advance("tidy", "closed") /\ Quiet /\ UNCHANGED <<bound, entry>>
  /\ temp' = IF removed /\ temp # "moved" THEN "none" ELSE temp

WriterStep ==
  \/ MakeParent \/ OpenBaseline \/ OpenOutput \/ Validations \/ CreateTemporary \/ WriteTemporary
  \/ RenameTemporary \/ Unpublish \/ RemoveTemporary(TRUE)
WriterFault == CallFails \/ RemoveTemporary(FALSE)

Exchange ==
  /\ step \in WriterSteps \ {"closed"} /\ foreign < MaxForeign /\ foreign' = foreign + 1
  /\ \/ \E p \in {"out", "base"}, d \in Directories : names' = [names EXCEPT ![p] = d] /\ UNCHANGED entry
     \/ \E d \in Directories, e \in {"absent", "link", "directory", "theirs"} :
          entry' = [entry EXCEPT ![d] = e] /\ UNCHANGED names
  /\ UNCHANGED <<bound, was, temp, step>>
==============================================================================
