---------------------------- MODULE Normalization ----------------------------
(***************************************************************************)
(* The normalization of a public release (cmd/releaseaudit/                *)
(* publication_normalization.go): under one approval the checksum asset is *)
(* added, under another every original asset but the retained ones is      *)
(* deleted, one by one, and at any time a run may reconcile, that is only  *)
(* read the page and say which of the states of this procedure it is in.   *)
(* Names above Retained are deleted, in this order.                        *)
(*                                                                         *)
(* Upload: intent 1 is the upload, 2 its verified end.  Deletion: 1 is the *)
(* public readback, 1+k the k-th deletion, Final the verified end.         *)
(***************************************************************************)
EXTENDS OneShotRun

CONSTANTS
  Retained,    \* how many of the originals stay
  Original     \* the approval the release was published under

ASSUME NormalizationAssumption ==
  /\ Retained \in 0..Assets - 1 /\ Final = Assets - Retained + 2
  /\ Original \in Approvals /\ MaxId > Assets

VARIABLES
  action,      \* what the run was started for
  prestate,    \* the assets its authorization names, identifiers included
  known,       \* snapshots an authorization can name: the plan's, and what reconciliations put out
  want         \* the names a reconciliation settled on

ownVars == <<action, prestate, known, want>>
vars == <<hostVars, runVars, ownVars>>

Page == 1
OriginalAssets == {[id |-> n + 1, name |-> n, kind |-> "exact"] : n \in Planned}
Gone(k) == {n \in Planned : Retained < n /\ n <= Retained + k}
Remaining(k) == (Planned \ Gone(k)) \cup {Checksum}
Keep == Remaining(Assets)

TypeOK ==
  /\ HostTypeOK /\ RunTypeOK
  /\ action \in {"upload", "delete", "reconcile"}
  /\ prestate \in known /\ known \subseteq SUBSET Asset /\ want \subseteq 0..Assets

Init ==
  /\ HostInit({[id |-> Page, draft |-> FALSE, text |-> "planned", assets |-> OriginalAssets]})
  /\ RunInit
  /\ action = "reconcile" /\ prestate = OriginalAssets /\ known = {OriginalAssets} /\ want = {}

Begin(a, act, snapshot) ==
  /\ StartRun(a) /\ action' = act /\ prestate' = snapshot /\ want' = {}
  /\ UNCHANGED <<hostVars, known>>

Rerun == RerunAttempt /\ want' = {} /\ UNCHANGED <<hostVars, action, prestate, known>>
Again == Reinvoke("gate") /\ want' = {} /\ UNCHANGED <<hostVars, action, prestate, known>>

(* Only reading is allowed under an approval that was dispatched before. *)
Gate ==
  /\ pc = "gate"
  /\ LET fresh == appr # Original /\ FirstAttempt
     IN \/ fresh /\ action = "reconcile" /\ Goto("relook") /\ UNCHANGED <<look, disturbed>>
        \/ fresh /\ action # "reconcile" /\ OnlyDispatch /\ Goto("look") /\ BeginLook
        \/ ~(fresh /\ (action # "reconcile" => OnlyDispatch)) /\ Goto("hold") /\ UNCHANGED <<look, disturbed>>
  /\ UNCHANGED <<pageVars, foreign, wire, answer, stage, opened, ledgerVars, ownVars>>

Inspect_AnyNames ==   \* mutant: whatever is there is taken for the state to confirm
  /\ pc = "relook" /\ want' = {x.name : x \in AssetsOf(Page)} /\ Goto("look") /\ BeginLook
  /\ UNCHANGED <<pageVars, foreign, wire, answer, stage, opened, ledgerVars, action, prestate, known>>

(* Reconciliation: an inspection settles which prefix of the deletions is  *)
(* gone, a full readback of what must then be left follows.                *)
Inspect ==
  /\ pc = "relook"
  /\ LET names == {x.name : x \in AssetsOf(Page)}
         prefix == {n \in Planned : n > Retained /\ \A m \in Retained + 1..n : m \notin names}
     IN IF Cardinality({r \in releases : ~r.draft}) > 1 \/ WithId(Page) = {}
             \/ (prefix # {} /\ Checksum \notin names)
        THEN Goto("hold") /\ UNCHANGED <<look, disturbed, want>>
        ELSE /\ want' = (Planned \ prefix) \cup ({Checksum} \cap names)
             /\ Goto("look") /\ BeginLook
  /\ UNCHANGED <<pageVars, foreign, wire, answer, stage, opened, ledgerVars, action, prestate, known>>

LastIntent == IF action = "upload" THEN 2 ELSE Final
Deletes == action = "delete" /\ stage \in 2..Final - 1

ExpectNames ==
  CASE action = "reconcile" -> want
    [] action = "upload" -> IF stage = 1 THEN Planned ELSE Planned \cup {Checksum}
    [] pc = "post" -> Remaining(stage - 1)
    [] OTHER -> IF stage = 1 THEN Remaining(0) ELSE Remaining(stage - 2)

ReadPage ==
  /\ pc \in {"look", "post"}
  /\ ReadList \/ ReadFails \/ ReadDirect(Page, FALSE) \/ ReadAssets(Page, ExpectNames)
  /\ UNCHANGED <<pageVars, foreign, wire, answer, disturbed, runVars, ownVars>>

NextStage == stage' = stage + 1 /\ Goto("look") /\ BeginLook

Identified_AnyChecksum(found) ==   \* mutant: the checksum's identifier is not compared again
  /\ \A x \in found : x.name # Checksum => x \in OriginalAssets
  /\ (action # "reconcile" /\ stage = 1) => found = prestate

(* Originals under their planned identifiers; the checksum asset under the *)
(* one approved with the deletion.  The first readback must show exactly   *)
(* the approved snapshot.                                                  *)
Identified(found) ==
  /\ \A x \in found : x.name # Checksum => x \in OriginalAssets
  /\ (action = "delete" /\ stage > 1) => \A x \in found : x.name = Checksum => x \in prestate
  /\ (action # "reconcile" /\ stage = 1) => found = prestate

LookDone ==
  /\ pc \in {"look", "post"} /\ look.at \in {"done", "refused"}
  /\ LET good == look.at = "done" /\ Identified(look.found)
     IN \/ ~good /\ Goto("hold") /\ look' = NoLook /\ UNCHANGED <<stage, disturbed, known>>
        \/ /\ good /\ action = "reconcile" /\ Goto("verified") /\ look' = NoLook
           /\ known' = known \cup {look.found} /\ UNCHANGED <<stage, disturbed>>
        \/ /\ good /\ action # "reconcile" /\ pc = "look" /\ look' = NoLook
           /\ Goto(IF stage = 1 THEN "journal" ELSE "announce")
           /\ UNCHANGED <<stage, disturbed, known>>
        \/ /\ good /\ pc = "post" /\ stage < Final - 1 /\ NextStage /\ UNCHANGED known
        \/ /\ good /\ pc = "post" /\ stage = Final - 1 /\ Goto("public") /\ stage' = Final
           /\ look' = NoLook /\ UNCHANGED <<disturbed, known>>
  /\ UNCHANGED <<pageVars, foreign, wire, answer, opened, ledgerVars, action, prestate, want>>

Journal ==
  /\ OpenJournal(IF action = "upload" THEN "announce" ELSE "public")
  /\ UNCHANGED <<hostVars, ownVars>>

(* The retained assets and the checksum, downloaded without credentials. *)
PublicReadback ==
  /\ pc = "public"
  /\ LET there == PublicBytes(Keep)
     IN \/ there /\ stage = 1 /\ Goto("announce") /\ UNCHANGED <<look, disturbed>>
        \/ there /\ stage = Final /\ Goto("look") /\ BeginLook
        \/ ~there /\ Goto("hold") /\ UNCHANGED <<look, disturbed>>
  /\ UNCHANGED <<pageVars, foreign, wire, answer, stage, opened, ledgerVars, ownVars>>

AnnounceIntent ==
  /\ pc = "announce"
  /\ \/ /\ WriteIntent
        /\ \/ stage = LastIntent /\ Goto("verified") /\ UNCHANGED <<stage, look, disturbed>>
           \/ action = "delete" /\ stage = 1 /\ NextStage
           \/ ((action = "upload" /\ stage = 1) \/ Deletes) /\ Goto("send") /\ UNCHANGED <<stage, look, disturbed>>
        /\ UNCHANGED opened
     \/ IntentFails /\ UNCHANGED <<look, disturbed>>
  /\ UNCHANGED <<pageVars, foreign, wire, answer, ownVars>>

DeleteId_LastFirst == Assets + 1 - (stage - 2)   \* mutant: the other order

DeleteId == Retained + (stage - 1) + 1   \* the planned identifier of the next asset to go
IntentRequest ==
  IF action = "upload"
  THEN [act |-> "upload", rel |-> Page, name |-> Checksum, kind |-> "exact", live |-> TRUE]
  ELSE [act |-> "delete", rel |-> DeleteId, name |-> 0, kind |-> "exact", live |-> TRUE]

SendIntent == SendRequest(IntentRequest) /\ UNCHANGED ownVars

Confirmed ==
  /\ pc = "wait" /\ answer.is = "ok" /\ answer' = NoAnswer
  /\ \/ action = "upload" /\ NextStage
     \/ action = "delete" /\ Goto("post") /\ BeginLook /\ UNCHANGED stage
  /\ UNCHANGED <<pageVars, foreign, wire, opened, ledgerVars, ownVars>>

Unconfirmed_Retry ==   \* mutant: an unclear answer is tried again
  /\ pc = "wait" /\ answer.is # "ok" /\ Abandon /\ Goto("send")
  /\ UNCHANGED <<pageVars, foreign, look, disturbed, stage, opened, ledgerVars, ownVars>>
Unconfirmed_Waits == answer.is = "refused" /\ GiveUp /\ UNCHANGED ownVars   \* mutant: no timeout

Unconfirmed == GiveUp /\ UNCHANGED ownVars

StepFails ==
  /\ pc \in {"gate", "relook", "public"} /\ Goto("hold")
  /\ UNCHANGED <<hostVars, stage, opened, ledgerVars, ownVars>>

Stops == Crash /\ UNCHANGED ownVars

RunStep ==
  \/ Gate \/ Inspect \/ ReadPage \/ LookDone \/ Journal \/ PublicReadback
  \/ AnnounceIntent \/ SendIntent \/ Confirmed \/ Unconfirmed

Environment ==
  \/ (HostStep \/ ForeignStep) /\ UNCHANGED <<runVars, ownVars>>
  \/ \E a \in Approvals : DispatchRun(a) /\ UNCHANGED <<hostVars, ownVars>>
  \/ \E a \in Approvals, act \in {"upload", "delete", "reconcile"}, s \in known : Begin(a, act, s)
  \/ Rerun \/ Again \/ StepFails \/ Stops

Next == RunStep \/ Environment
Spec == Init /\ [][Next]_vars /\ WF_vars(RunStep)

(***************************************************************************)
(* Properties.                                                             *)
(***************************************************************************)

(* The one-shot promise, for every approval of an upload or a deletion. *)
ImplementsLedger == Ledger!LedgerSpec

(* The inductive invariant behind it: a run that is to change the page is  *)
(* past its gate the only one of its approval, past its journal it has     *)
(* opened it, and the intent it works on is the last written, or the next. *)
PastJournal == pc \in {"announce", "send", "wait", "public", "post"} \/ (pc = "look" /\ stage > 1)
PlaceInRun ==
  /\ pc \in {"gate", "relook", "journal"} => stage = 1
  /\ pc = "relook" => action = "reconcile"
  /\ (pc = "journal" \/ PastJournal) => action # "reconcile"
  /\ (pc = "journal" \/ PastJournal \/ (pc = "look" /\ action # "reconcile")) => OnlyRun
  /\ PastJournal => opened /\ (action = "upload" => stage <= 2)
  /\ (PastJournal /\ pc \notin {"send", "wait", "post"}) => written[appr] = stage - 1
  /\ pc \in {"send", "wait", "post"} => written[appr] = stage /\ stage < Final
  /\ pc \in {"send", "wait"} => ((action = "upload" /\ stage = 1) \/ Deletes)
  /\ pc = "send" => sent[appr][stage] = 0
  /\ pc = "post" => Deletes
  /\ pc = "public" => action = "delete" /\ stage \in {1, Final}

IndInv == TypeOK /\ HistorySound /\ PlaceInRun

(* Unless somebody else changes it, the page always is a state that        *)
(* reconcileNormalization recognises, or holds a half-uploaded checksum:   *)
(* originals vanish in the planned order only, under their identifiers,    *)
(* and never before the exact checksum asset is there.                     *)
PageRecognisable ==
  foreign = 0 =>
    \E k \in 0..Assets - Retained : \E sum \in SUBSET AssetsOf(Page) :
      /\ AssetsOf(Page) = {x \in OriginalAssets : x.name \notin Gone(k)} \cup sum
      /\ Cardinality(sum) <= 1 /\ \A x \in sum : x.name = Checksum
      /\ k > 0 => \E x \in sum : x.kind = "exact"

(* A deletion is sent only from the page the run has just read back, and   *)
(* that page is what the approval named less the deletions before it: the  *)
(* same identifiers, the approved checksum asset included.                 *)
DeletesFromApprovedPage ==
  [][ \A i \in 2..Final - 1 :
        (sent'[appr][i] # sent[appr][i] /\ ~disturbed)
          => /\ Exactly(Page, FALSE, Remaining(i - 2))
             /\ AssetsOf(Page) = {x \in prestate : x.name \notin Gone(i - 2)} ]_vars

(* A deletion that reports success left the retained assets and the        *)
(* checksum behind, as they were approved and nothing else.                *)
VerifiedIsNormalized ==
  (pc = "verified" /\ action = "delete" /\ ~disturbed) =>
     Exactly(Page, FALSE, Keep) /\ AssetsOf(Page) \subseteq prestate

(* What is deleted, and what is reported as deleted, is what was approved. *)
DeletesWhatWasApproved == DeletesFromApprovedPage /\ []VerifiedIsNormalized

(* Every run that begins comes to an end. *)
RunsEnd == pc = "gate" ~> pc \in Ended
==============================================================================
