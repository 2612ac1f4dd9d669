----------------------------- MODULE Publication -----------------------------
(***************************************************************************)
(* The one-shot publication of a prerelease (cmd/releaseaudit/             *)
(* publication*.go run by publish-prerelease.yml): a workflow run takes an *)
(* approval, fetches the evidence, verifies it, and then creates a draft   *)
(* (or continues an exact empty one), transfers the assets one by one,     *)
(* publishes and reads back, journaling each intent before its request.    *)
(* Any failure, and any answer that is missing or unclear, stops the run   *)
(* for good.  Runs, crashes, other people and late requests interleave.    *)
(*                                                                         *)
(* Intent 1 is the draft (or the continuation), 1+k the transfer of asset  *)
(* k, Publishing the publication and Final the verified end.               *)
(***************************************************************************)
EXTENDS OneShotRun

CONSTANTS Original   \* the approval the original plan was made under

ASSUME PublicationAssumption == Original \in Approvals /\ Final = Assets + 3

VARIABLES
  mode, target,  \* what the run was dispatched for: "create", or "continue" the release target
  id,            \* the release it has bound itself to
  bundle         \* the evidence directory on its runner

ownVars == <<mode, target, id, bundle>>
vars == <<hostVars, runVars, ownVars>>

Publishing == Assets + 2

TypeOK ==
  /\ HostTypeOK /\ RunTypeOK
  /\ mode \in {"create", "continue"} /\ target \in 0..MaxId /\ id \in 0..MaxId
  /\ bundle \in {"absent", "partial", "complete", "changed"}

Init ==
  /\ HostInit({}) /\ RunInit
  /\ mode = "create" /\ target = 0 /\ id = 0 /\ bundle = "absent"

Begin(a, m, t) ==
  /\ StartRun(a) /\ (m = "create" <=> t = 0)
  /\ mode' = m /\ target' = t /\ id' = 0 /\ bundle' = "absent" /\ UNCHANGED hostVars

Rerun == RerunAttempt /\ id' = 0 /\ bundle' = "absent" /\ UNCHANGED <<hostVars, mode, target>>

Again == (Reinvoke("gate") \/ Reinvoke("prepare")) /\ id' = 0 /\ UNCHANGED <<hostVars, mode, target, bundle>>

(* A continuation never runs under the approval of the plan it continues. *)
ValidRequest == mode = "continue" => appr # Original

Gate ==
  /\ pc = "gate" /\ Goto(IF ValidRequest /\ Admitted THEN "fetch" ELSE "hold")
  /\ UNCHANGED <<hostVars, stage, opened, ledgerVars, ownVars>>

(* download: the destination must be new; it is filled entry by entry and  *)
(* verified as a whole, and what a failure leaves there is kept.           *)
Fetch ==
  /\ pc = "fetch"
  /\ \/ bundle = "absent" /\ bundle' = "partial" /\ Goto("extract")
     \/ bundle # "absent" /\ UNCHANGED bundle /\ Goto("hold")
  /\ UNCHANGED <<hostVars, stage, opened, ledgerVars, mode, target, id>>

Extract ==
  /\ pc = "extract" /\ bundle' = "complete" /\ Goto("prepare")
  /\ UNCHANGED <<hostVars, stage, opened, ledgerVars, mode, target, id>>

(* publish: a second process passes the same gate and verifies source,     *)
(* evidence and origin again before it reads the page for the first time.  *)
Ready == ValidRequest /\ Admitted /\ bundle = "complete"
Prepare ==
  /\ pc = "prepare"
  /\ \/ Ready /\ Goto("look") /\ id' = target /\ BeginLook
     \/ ~Ready /\ Goto("hold") /\ UNCHANGED <<id, look, disturbed>>
  /\ UNCHANGED <<pageVars, foreign, wire, answer, stage, opened, ledgerVars, mode, target, bundle>>

ExpectDraft == stage # Final
ExpectNames == {n \in Planned : n + 1 < stage}

(* A create run only needs the list: nothing may carry the tag yet. *)
ReadPage ==
  /\ pc \in {"look", "relook"}
  /\ \/ ReadList \/ ReadFails
     \/ id # 0 /\ ReadDirect(id, ExpectDraft)
     \/ id # 0 /\ ReadAssets(id, ExpectNames)
     \/ /\ id = 0 /\ look.at = "direct"
        /\ look' = IF look.seen = {} THEN [look EXCEPT !.at = "done"] ELSE Refused
  /\ UNCHANGED <<pageVars, foreign, wire, answer, disturbed, runVars, ownVars>>

AfterLook_Unannounced ==   \* mutant: the request goes out before its intent
  IF stage = 1 THEN "journal"
  ELSE IF stage # Final THEN "send" ELSE IF pc = "look" THEN "public" ELSE "announce"

AfterLook ==
  IF stage = 1 THEN "journal" ELSE IF stage = Final /\ pc = "look" THEN "public" ELSE "announce"

LookDone ==
  /\ pc \in {"look", "relook"} /\ look.at \in {"done", "refused"}
  /\ Goto(IF look.at = "done" THEN AfterLook ELSE "hold") /\ look' = NoLook
  /\ UNCHANGED <<pageVars, foreign, wire, answer, disturbed, stage, opened, ledgerVars, ownVars>>

Journal == OpenJournal("announce") /\ UNCHANGED <<hostVars, ownVars>>

(* The next intent is preceded by a readback of its own. *)
NextStage == stage' = stage + 1 /\ Goto("look") /\ BeginLook

AnnounceIntent_PastEnd ==   \* mutant: the end is taken for one more transfer
  /\ pc = "announce" /\ WriteIntent /\ Goto("send")
  /\ UNCHANGED <<pageVars, foreign, wire, answer, look, disturbed, stage, opened, ownVars>>

AnnounceIntent ==
  /\ pc = "announce"
  /\ \/ /\ WriteIntent
        /\ \/ stage = Final /\ Goto("verified") /\ UNCHANGED <<stage, look, disturbed>>
           \/ stage = 1 /\ mode = "continue" /\ NextStage
           \/ /\ stage # Final /\ (stage = 1 => mode = "create")
              /\ Goto("send") /\ UNCHANGED <<stage, look, disturbed>>
        /\ UNCHANGED opened
     \/ IntentFails /\ UNCHANGED <<look, disturbed>>
  /\ UNCHANGED <<pageVars, foreign, wire, answer, ownVars>>

(* Asset 1 is the generated checksum list; the archives come from disk. *)
Content(n) == IF bundle = "complete" \/ n = 1 THEN "exact" ELSE "other"

IntentRequest ==
  CASE stage = 1 -> [act |-> "create", rel |-> 0, name |-> 0, kind |-> "exact", live |-> TRUE]
    [] stage = Publishing -> [act |-> "publish", rel |-> id, name |-> 0, kind |-> "exact", live |-> TRUE]
    [] OTHER -> [act |-> "upload", rel |-> id, name |-> stage - 1, kind |-> Content(stage - 1),
                 live |-> TRUE]

SendIntent == SendRequest(IntentRequest) /\ UNCHANGED ownVars

Confirmed ==
  /\ pc = "wait" /\ answer.is = "ok"
  /\ id' = (IF stage = 1 THEN answer.id ELSE id) /\ answer' = NoAnswer
  /\ NextStage
  /\ UNCHANGED <<pageVars, foreign, wire, opened, ledgerVars, mode, target, bundle>>

Unconfirmed_Retry ==   \* mutant: an unclear answer is tried again
  /\ pc = "wait" /\ answer.is # "ok" /\ Abandon /\ Goto("send")
  /\ UNCHANGED <<pageVars, foreign, look, disturbed, stage, opened, ledgerVars, ownVars>>
Unconfirmed_Waits == answer.is = "refused" /\ GiveUp /\ UNCHANGED ownVars   \* mutant: no timeout

Unconfirmed == GiveUp /\ UNCHANGED ownVars

(* Every asset once more by its public address, without credentials. *)
PublicDownload ==
  /\ pc = "public"
  /\ \/ PublicBytes(Planned) /\ Goto("relook") /\ BeginLook
     \/ ~PublicBytes(Planned) /\ Goto("hold") /\ UNCHANGED <<look, disturbed>>
  /\ UNCHANGED <<pageVars, foreign, wire, answer, stage, opened, ledgerVars, ownVars>>

(* A step may fail with nothing done: local error, timeout, API error. *)
StepFails ==
  /\ pc \in {"gate", "fetch", "extract", "prepare", "public"} /\ Goto("hold")
  /\ UNCHANGED <<hostVars, stage, opened, ledgerVars, ownVars>>

Stops == Crash /\ UNCHANGED ownVars

(* Somebody changes the evidence on the runner after it was verified. *)
Tamper ==
  /\ foreign < MaxForeign /\ foreign' = foreign + 1
  /\ bundle = "complete" /\ bundle' = "changed"
  /\ UNCHANGED <<pageVars, wire, answer, look, disturbed, runVars, mode, target, id>>

RunStep ==
  \/ Gate \/ Fetch \/ Extract \/ Prepare \/ ReadPage \/ LookDone \/ Journal
  \/ AnnounceIntent \/ SendIntent \/ Confirmed \/ Unconfirmed \/ PublicDownload

Environment ==
  \/ (HostStep \/ ForeignStep) /\ UNCHANGED <<runVars, ownVars>>
  \/ \E a \in Approvals : DispatchRun(a) /\ UNCHANGED <<hostVars, ownVars>>
  \/ \E a \in Approvals, m \in {"create", "continue"}, t \in {0} \cup {r.id : r \in releases} :
       Begin(a, m, t)
  \/ Rerun \/ Again \/ StepFails \/ Stops \/ Tamper

Next == RunStep \/ Environment
Spec == Init /\ [][Next]_vars /\ WF_vars(RunStep)

(***************************************************************************)
(* Properties.                                                             *)
(***************************************************************************)

(* Publishing keeps the one-shot promise for every approval: whatever      *)
(* crashes, re-runs, second dispatches and late answers do, a request      *)
(* follows its own durable intent, once, and never an older one.           *)
ImplementsLedger == Ledger!LedgerSpec

(* The inductive invariant behind it: past the gate a run is the only one  *)
(* of its approval, past the journal it has opened it, and the intent it   *)
(* works on is the last one written, or the next.                          *)
PastGate == pc \in {"fetch", "extract", "look", "journal", "announce", "send", "wait", "public", "relook"}
PastJournal == pc \in {"announce", "send", "wait", "public", "relook"} \/ (pc = "look" /\ stage > 1)
PlaceInRun ==
  /\ PastGate => OnlyRun
  /\ PastJournal => opened
  /\ pc \in {"gate", "fetch", "extract", "prepare", "journal"} => stage = 1
  /\ (PastJournal /\ pc \notin {"send", "wait"}) => written[appr] = stage - 1
  /\ pc \in {"send", "wait"} => written[appr] = stage /\ stage < Final
  /\ pc = "send" => sent[appr][stage] = 0
  /\ pc \in {"public", "relook"} => stage = Final

IndInv == TypeOK /\ HistorySound /\ PlaceInRun

(* With nobody else changing the page, the journals explain all of it: an  *)
(* intent followed by a later one took effect exactly, and nothing is on   *)
(* the page that no journal announced.  This is what lets a human settle a *)
(* held run by reading.                                                    *)
UploadedExactly(n) == \E r \in releases : \E x \in r.assets : x.name = n /\ x.kind = "exact"
JournalExplainsPage ==
  foreign = 0 =>
    /\ \A a \in Approvals : \A i \in 1..written[a] - 1 :
         /\ i = 1 => releases # {}
         /\ i \in 2..Assets + 1 => UploadedExactly(i - 1)
         /\ i = Publishing => \E r \in releases : ~r.draft
    /\ \A r \in releases :
         /\ \E a \in Approvals : written[a] >= 1
         /\ \A x \in r.assets : \E a \in Approvals : written[a] >= x.name + 1
         /\ ~r.draft => \E a \in Approvals : written[a] >= Publishing

(* A request is sent only from the page the run has just read back: unless *)
(* somebody interfered since that readback began, the bound release is a   *)
(* draft with exactly the assets transferred so far, so an incomplete or   *)
(* foreign draft is never made public and an asset never lands twice.      *)
SendsFromVerifiedPage ==
  [][ \A i \in 2..Publishing :
        (sent'[appr][i] # sent[appr][i] /\ ~disturbed) => Exactly(id, TRUE, {n \in Planned : n + 1 < i}) ]_vars

(* A run that reports success left the exact public release behind, unless *)
(* somebody changed it while the last readback was running or later.       *)
VerifiedIsExact == pc = "verified" /\ ~disturbed => Exactly(id, FALSE, Planned)

(* What a run does and what it reports rests on the page as it was read.   *)
ActsOnWhatItRead == SendsFromVerifiedPage /\ []VerifiedIsExact

(* Every run that begins comes to an end, also when the host never answers. *)
RunsEnd == pc = "gate" ~> pc \in Ended
==============================================================================
