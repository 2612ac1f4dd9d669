------------------------- MODULE NormalizationProofs -------------------------
(***************************************************************************)
(* Normalization keeps the one-shot promise for any number of assets, any  *)
(* split into retained and deleted ones, any approvals and dispatches: the *)
(* invariant IndInv of Normalization is inductive, and from any state that *)
(* satisfies it every step is a step of OneShotLedger or leaves the ledger *)
(* alone.  The argument is that of PublicationProofs; what differs is that *)
(* a run may also reconcile, which never writes anything.                  *)
(* And while nobody else changes the page, deletions keep to their order;  *)
(* and what is deleted is what was approved, as it was read.               *)
(***************************************************************************)
EXTENDS Normalization, OneShotProofs, FiniteSetTheorems

OwnTypeOK ==
  /\ action \in {"upload", "delete", "reconcile"}
  /\ prestate \in known /\ known \subseteq SUBSET Asset /\ want \subseteq 0..Assets

(* The place of the last intent, and room for the original assets. *)
LEMMA Stages ==
  /\ Final >= 3 /\ Final <= Assets + 2 /\ 1 \in Intents /\ 2 \in Intents /\ Original \in Approvals
  /\ Retained \in Nat /\ Retained < Assets /\ Final = Assets - Retained + 2 /\ Assets < MaxId
  BY NormalizationAssumption, Numbers DEF Intents

(* A run that is over, or before its first look, has no obligations. *)
LEMMA NoPlace == pc' \in Ended \/ (pc' = "gate" /\ stage' = 1) => PlaceInRun'
  BY DEF PlaceInRun, PastJournal, Ended

(* A step inside a run that leaves history and ledger alone: what remains  *)
(* to be shown of it.                                                      *)
LEMMA QuietStep ==
  ASSUME IndInv, UNCHANGED <<historyVars, appr, attempt, ledgerVars>>, pc # "idle",
         pc' \in Ended \cup Working, stage' \in Intents, opened' \in BOOLEAN, opened => opened',
         HostTypeOK', OwnTypeOK', PlaceInRun'
  PROVE  IndInv' /\ LedgerStep
<1>1. RunTypeOK'
  BY Zenon DEF IndInv, TypeOK, RunTypeOK, historyVars, ledgerVars
<1>2. HistorySound'
  BY HistoryStays, Zenon DEF IndInv
<1>3. TypeOK'
  BY <1>1, Zenon DEF TypeOK, OwnTypeOK
<1> QED
  BY <1>2, <1>3, Zenon DEF IndInv, LedgerStep

(* What IndInv says of the run at hand, in the form the steps use it. *)
LEMMA Facts ==
  ASSUME IndInv
  PROVE  /\ HostTypeOK /\ RunTypeOK /\ OwnTypeOK /\ HistorySound /\ PlaceInRun
         /\ appr \in Approvals /\ stage \in Intents /\ stage \in Nat /\ stage > 0 /\ stage <= Final
         /\ opened \in BOOLEAN
         /\ \A a \in Approvals : dispatched[a] \in Nat /\ started[a] \in Nat /\ written[a] \in Nat
         /\ \A a \in Approvals : \A i \in Intents : sent[a][i] \in Nat
<1>1. HostTypeOK /\ RunTypeOK /\ OwnTypeOK /\ HistorySound /\ PlaceInRun
  BY Zenon DEF IndInv, TypeOK, OwnTypeOK
<1> QED
  BY <1>1, Numbers DEF RunTypeOK, Intents

(* Past the gate (checkAttempt): the first attempt of the only run. *)
LEMMA Admission == IndInv /\ Admitted /\ pc # "idle" => OnlyRun
  BY Facts DEF Admitted, FirstAttempt, OnlyDispatch, OnlyRun, HistorySound

-----------------------------------------------------------------------------
(* The identifiers begin after those of the release and its assets. *)
LEMMA FirstId == Init => nextId = Assets + 2
<1> SUFFICES ASSUME Init PROVE nextId = Assets + 2
  OBVIOUS
<1> DEFINE page == [id |-> Page, draft |-> FALSE, text |-> "planned", assets |-> OriginalAssets]
<1>1. IsFiniteSet(Planned) /\ Cardinality(Planned) = Assets
  BY FS_Interval, Numbers DEF Planned
<1>2. Cardinality(OriginalAssets) = Assets
  <2> DEFINE f == [n \in Planned |-> [id |-> n + 1, name |-> n, kind |-> "exact"]]
  <2>1. f \in Bijection(Planned, OriginalAssets)
    BY DEF OriginalAssets, Bijection, Injection, Surjection, IsInjective
  <2>2. ExistsBijection(Planned, OriginalAssets)
    BY <2>1, Zenon DEF ExistsBijection
  <2> QED
    BY <1>1, <2>2, FS_Bijection, Zenon
<1>3. Cardinality({page}) = 1
  BY FS_Singleton, Zenon
<1>4. UNION {r.assets : r \in {page}} = OriginalAssets
  OBVIOUS
<1>5. nextId = 1 + Cardinality({page}) + Cardinality(UNION {r.assets : r \in {page}})
  BY Zenon DEF Init, HostInit
<1> HIDE DEF page
<1> QED
  BY <1>2, <1>3, <1>4, <1>5, Numbers

(* The public release as it was published, with an empty history,          *)
(* satisfies the invariant, and the ledger begins empty.                   *)
THEOREM InitInv == Init => IndInv /\ Ledger!LedgerInit
<1> SUFFICES ASSUME Init PROVE IndInv /\ Ledger!LedgerInit
  OBVIOUS
<1> DEFINE page == [id |-> Page, draft |-> FALSE, text |-> "planned", assets |-> OriginalAssets]
<1>0. OriginalAssets \in SUBSET Asset
  BY Stages, Numbers DEF OriginalAssets, Planned, Asset, Alien
<1>1. nextId = Assets + 2
  BY FirstId
<1>2. HostTypeOK
  <2>1. NoAnswer \in Answer /\ NoLook \in Look
    BY Numbers DEF NoAnswer, Answer, NoLook, Look
  <2>2. page \in Release
    BY <1>0, Stages, Numbers DEF Release, Page
  <2>3. Assets + 2 \in 1..MaxId + 1 /\ 0 \in 0..MaxForeign
    BY Stages, Numbers
  <2>4. releases = {page} /\ tagMoved = FALSE /\ foreign = 0 /\ wire = {} /\ answer = NoAnswer /\ look = NoLook /\ disturbed = FALSE
    BY Zenon DEF Init, HostInit
  <2> HIDE DEF page
  <2> QED
    BY <1>1, <2>1, <2>2, <2>3, <2>4 DEF HostTypeOK, Answer
<1>3. RunTypeOK
  <2>1. 1 \in Intents /\ 1 \in 1..2 /\ 0 \in Nat /\ 0 \in 0..Final
    BY Stages, Numbers
  <2>2. pc \in Ended /\ appr \in Approvals /\ opened \in BOOLEAN
    BY DEF Init, RunInit, Ended
  <2>3. /\ dispatched \in [Approvals -> Nat] /\ started \in [Approvals -> Nat]
        /\ written \in [Approvals -> 0..Final] /\ sent \in [Approvals -> [Intents -> Nat]]
    BY <2>1 DEF Init, RunInit
  <2> QED
    BY <2>1, <2>2, <2>3 DEF Init, RunInit, RunTypeOK
<1>4. OwnTypeOK
  BY <1>0 DEF Init, OwnTypeOK
<1>5. HistorySound
  BY Numbers DEF Init, RunInit, HistorySound
<1>6. PlaceInRun
  BY DEF Init, RunInit, PlaceInRun, PastJournal
<1>7. Ledger!LedgerInit
  BY DEF Init, RunInit, Ledger!LedgerInit, Intents
<1> QED
  BY <1>2, <1>3, <1>4, <1>5, <1>6, <1>7, Zenon DEF IndInv, TypeOK, OwnTypeOK

(* The gate, the inspection of a reconciliation, and local failures. *)
LEMMA EarlySteps ==
  ASSUME IndInv, Gate \/ Inspect \/ StepFails
  PROVE  IndInv' /\ LedgerStep
<1>1. /\ UNCHANGED <<historyVars, appr, attempt, ledgerVars, stage, opened, action>>
      /\ pc \in {"gate", "relook", "public"} /\ pc # "idle"
      /\ UNCHANGED <<pageVars, foreign, wire, answer>> /\ (BeginLook \/ UNCHANGED <<look, disturbed>>)
  <2>1. CASE Gate
    BY <2>1 DEF Gate, Goto, ownVars
  <2>2. CASE Inspect
    <3>1. pc = "relook" /\ UNCHANGED <<pageVars, foreign, wire, answer, stage, opened, ledgerVars, action>>
      BY <2>2, Zenon DEF Inspect
    <3>2. (Goto("hold") /\ UNCHANGED <<look, disturbed>>) \/ (Goto("look") /\ BeginLook)
      BY <2>2, Zenon DEF Inspect
    <3> QED
      BY <3>1, <3>2 DEF Goto
  <2>3. CASE StepFails
    BY <2>3 DEF StepFails, Goto, hostVars, pageVars, ownVars
  <2> QED
    BY <2>1, <2>2, <2>3
<1> USE Facts
<1>2. HostTypeOK'
  <2>1. look' \in Look
    BY <1>1, LookTypes DEF HostTypeOK
  <2>2. disturbed' \in BOOLEAN
    BY <1>1 DEF BeginLook, HostTypeOK
  <2> QED
    BY <1>1, <2>1, <2>2, LookMoves
<1>3. OwnTypeOK'
  <2>1. UNCHANGED <<action, prestate, known>>
    BY DEF Gate, Inspect, StepFails, ownVars
  <2>2. want' \subseteq 0..Assets
    <3>1. CASE Inspect /\ want' # want
      <4>1. PICK prefix, names : want' = (Planned \ prefix) \cup ({Checksum} \cap names)
        BY <3>1 DEF Inspect
      <4> QED
        BY <4>1, Numbers DEF Planned, Checksum
    <3>2. CASE want' = want
      BY <3>2 DEF OwnTypeOK
    <3>3. want' = want \/ Inspect
      BY DEF Gate, StepFails, ownVars
    <3> QED
      BY <3>1, <3>2, <3>3
  <2> QED
    BY <2>1, <2>2 DEF OwnTypeOK
<1>4. pc' \in {"look", "relook", "hold"}
  BY DEF Gate, Inspect, StepFails, Goto
<1>5. PlaceInRun'
  <2>1. CASE pc' = "hold"
    BY <2>1, NoPlace DEF Ended
  <2>2. CASE pc' # "hold" /\ Gate
    <3>1. stage = 1 /\ stage' = 1 /\ pc = "gate"
      BY <1>1, <2>2 DEF Gate, PlaceInRun
    <3>2. \/ pc' = "relook" /\ action = "reconcile"
          \/ pc' = "look" /\ Admitted
      BY <2>2 DEF Gate, Goto, Admitted
    <3>3. pc' = "look" => OnlyRun'
      BY <1>1, <3>1, <3>2, Admission DEF OnlyRun, historyVars
    <3> QED
      BY <1>1, <3>1, <3>2, <3>3 DEF PlaceInRun, PastJournal
  <2>3. CASE pc' # "hold" /\ Inspect
    <3>1. stage' = 1 /\ action' = "reconcile" /\ pc' = "look"
      BY <1>1, <1>4, <2>3 DEF Inspect, Goto, PlaceInRun
    <3> QED
      BY <3>1 DEF PlaceInRun, PastJournal
  <2> QED
    BY <2>1, <2>2, <2>3 DEF StepFails, Goto
<1> QED
  BY <1>1, <1>2, <1>3, <1>4, <1>5, QuietStep DEF Ended, Working

(* A readback, and the journal. *)
LEMMA ReadingSteps ==
  ASSUME IndInv, ReadPage \/ Journal
  PROVE  IndInv' /\ LedgerStep
<1>1. CASE ReadPage
  <2>1. UNCHANGED <<runVars, ownVars, pageVars, foreign, wire, answer, disturbed>> /\ pc # "idle"
    BY <1>1 DEF ReadPage
  <2>2. look' \in Look
    <3>1. ReadList \/ ReadFails \/ ReadDirect(Page, FALSE) \/ ReadAssets(Page, ExpectNames)
      BY <1>1, Zenon DEF ReadPage
    <3> QED
      BY <3>1, Facts, LookTypes
  <2>3. HostTypeOK'
    BY <2>1, <2>2, Facts, LookMoves, Zenon DEF HostTypeOK
  <2>4. OwnTypeOK' /\ RunTypeOK'
    BY <2>1, Facts, Zenon DEF OwnTypeOK, RunTypeOK, ownVars, runVars, historyVars, ledgerVars
  <2>5. HistorySound'
    BY <2>1, Facts, HistoryStays, Zenon DEF runVars
  <2>6. PlaceInRun'
    BY <2>1, Facts, Zenon
       DEF PlaceInRun, PastJournal, OnlyRun, Deletes, ownVars, runVars, historyVars, ledgerVars
  <2> QED
    BY <2>1, <2>3, <2>4, <2>5, <2>6, Zenon DEF IndInv, TypeOK, OwnTypeOK, LedgerStep, runVars
<1>2. CASE Journal
  <2> USE Facts
  <2>1. /\ pc = "journal" /\ UNCHANGED <<historyVars, appr, attempt, ledgerVars, stage>> /\ UNCHANGED <<hostVars, ownVars>>
        /\ \/ ~opened /\ opened' = TRUE /\ pc' = IF action = "upload" THEN "announce" ELSE "public"
           \/ opened' = opened /\ pc' = "hold"
    BY <1>2, Zenon DEF Journal, OpenJournal, Goto
  <2>2. OwnTypeOK' /\ HostTypeOK'
    BY <2>1, HostStays, Zenon DEF OwnTypeOK, ownVars
  <2>3. PlaceInRun'
    <3>1. CASE pc' = "hold"
      BY <3>1, NoPlace DEF Ended
    <3>2. CASE pc' # "hold"
      <4>1. /\ stage' = 1 /\ stage = 1 /\ action' = action /\ appr' = appr /\ written' = written
            /\ action \in {"upload", "delete"} /\ OnlyRun /\ OnlyRun'
        BY <2>1, <3>2 DEF PlaceInRun, OwnTypeOK, ownVars, OnlyRun, historyVars, ledgerVars
      <4>2. written[appr] = 0 /\ opened'
        BY <2>1, <3>2, <4>1 DEF HistorySound, OnlyRun
      <4>3. pc' = IF action' = "upload" THEN "announce" ELSE "public"
        BY <2>1, <3>2, <4>1
      <4> QED
        BY <4>1, <4>2, <4>3 DEF PlaceInRun, PastJournal
    <3> QED
      BY <3>1, <3>2
  <2> QED
    BY <2>1, <2>2, <2>3, QuietStep DEF Ended, Working
<1> QED
  BY <1>1, <1>2

(* What a readback leads to: the journal, the next intent, the next        *)
(* deletion, the public download, the end, or a hold.                      *)
LEMMA LookDoneStep ==
  ASSUME IndInv, LookDone
  PROVE  IndInv' /\ LedgerStep
<1>1. /\ UNCHANGED <<historyVars, appr, attempt, ledgerVars, opened>> /\ pc \in {"look", "post"} /\ pc # "idle"
      /\ UNCHANGED <<pageVars, foreign, wire, answer>> /\ UNCHANGED <<action, prestate, want>>
      /\ (BeginLook \/ (look' = NoLook /\ disturbed' = disturbed))
  BY DEF LookDone, Goto, NextStage
<1>2. \/ pc' \in {"hold", "verified"} /\ stage' = stage
      \/ /\ pc = "look" /\ action # "reconcile" /\ stage' = stage
         /\ pc' = IF stage = 1 THEN "journal" ELSE "announce"
      \/ pc = "post" /\ pc' = "look" /\ stage < Final - 1 /\ stage' = stage + 1
      \/ pc = "post" /\ pc' = "public" /\ stage = Final - 1 /\ stage' = Final
  BY DEF LookDone, Goto, NextStage
<1>3. known' \in {known, known \cup {look.found}}
  BY DEF LookDone
<1> USE Facts
<1>4. HostTypeOK'
  <2>1. look' \in Look
    BY <1>1, LookTypes
  <2>2. disturbed' \in BOOLEAN
    BY <1>1 DEF BeginLook, HostTypeOK
  <2> QED
    BY <1>1, <2>1, <2>2, LookMoves
<1>5. OwnTypeOK'
  <2>1. look.found \in SUBSET Asset
    BY DEF HostTypeOK, Look
  <2> QED
    BY <1>1, <1>3, <2>1 DEF OwnTypeOK
<1>6. stage' \in Intents /\ pc' \in Ended \cup Working
  <2>1. stage' \in Intents
    BY <1>2, Stages, Numbers DEF Intents
  <2>2. pc' \in {"hold", "verified", "journal", "announce", "look", "public"}
    BY <1>2
  <2> QED
    BY <2>1, <2>2 DEF Ended, Working
<1>7. PlaceInRun'
  <2>1. CASE pc' \in {"hold", "verified"}
    BY <2>1, NoPlace DEF Ended
  <2>2. CASE pc = "look" /\ action # "reconcile" /\ stage' = stage /\ pc' = IF stage = 1 THEN "journal" ELSE "announce"
    <3>1. OnlyRun'
      BY <1>1, <2>2 DEF PlaceInRun, OnlyRun, historyVars
    <3>2. stage # 1 => /\ opened' /\ written'[appr'] = stage' - 1
                       /\ (action' = "upload" => stage' <= 2)
      BY <1>1, <2>2 DEF PlaceInRun, PastJournal, ledgerVars
    <3> QED
      BY <1>1, <2>2, <3>1, <3>2 DEF PlaceInRun, PastJournal
  <2>3. CASE pc = "post" /\ pc' \in {"look", "public"} /\ stage' = stage + 1 /\ (pc' = "public" => stage' = Final)
    <3>1. OnlyRun /\ opened /\ written[appr] = stage /\ action = "delete"
      BY <2>3 DEF PlaceInRun, PastJournal, Deletes
    <3>2. OnlyRun' /\ opened' /\ written'[appr'] = stage' - 1 /\ action' = "delete" /\ stage' > 1
      BY <1>1, <2>3, <3>1 DEF OnlyRun, historyVars, ledgerVars
    <3> QED
      BY <2>3, <3>2 DEF PlaceInRun, PastJournal
  <2> QED
    BY <1>2, <2>1, <2>2, <2>3, Stages
<1> QED
  BY <1>1, <1>4, <1>5, <1>6, <1>7, QuietStep

(* An intent is written: the step "Announce" of the promise, if the record *)
(* got out at all.                                                         *)
LEMMA AnnounceSteps ==
  ASSUME IndInv, AnnounceIntent
  PROVE  IndInv' /\ LedgerStep
<1>1. /\ pc = "announce" /\ UNCHANGED <<historyVars, appr, attempt, opened>> /\ UNCHANGED ownVars
      /\ UNCHANGED <<pageVars, foreign, wire, answer>> /\ (BeginLook \/ UNCHANGED <<look, disturbed>>)
  BY DEF AnnounceIntent, IntentFails, Goto, NextStage
<1>2. \/ UNCHANGED ledgerVars /\ pc' = "hold" /\ stage' = stage
      \/ /\ WriteIntent
         /\ \/ pc' \in {"verified", "hold"} /\ stage' = stage
            \/ pc' = "look" /\ action = "delete" /\ stage = 1 /\ stage' = 2
            \/ pc' = "send" /\ ((action = "upload" /\ stage = 1) \/ Deletes) /\ stage' = stage
  BY DEF AnnounceIntent, IntentFails, Goto, NextStage
<1> USE Facts
<1>3. OnlyRun /\ opened /\ opened' /\ written[appr] = stage - 1 /\ action # "reconcile"
  BY <1>1 DEF PlaceInRun, PastJournal
<1>4. HostTypeOK'
  <2>1. look' \in Look
    BY <1>1, LookTypes DEF HostTypeOK
  <2>2. disturbed' \in BOOLEAN
    BY <1>1 DEF BeginLook, HostTypeOK
  <2> QED
    BY <1>1, <2>1, <2>2, LookMoves, Zenon
<1>5. OwnTypeOK' /\ action' = action
  BY <1>1 DEF OwnTypeOK, ownVars
<1>6. OnlyRun' /\ stage' \in Intents
  BY <1>1, <1>2, <1>3, Stages DEF OnlyRun, historyVars
<1>7. CASE UNCHANGED ledgerVars /\ pc' = "hold" /\ stage' = stage
  BY <1>1, <1>4, <1>5, <1>7, NoPlace, QuietStep DEF Ended
<1>8. CASE WriteIntent
  <2>1. /\ HistorySound' /\ written' \in [Approvals -> 0..Final] /\ written'[appr] = stage
        /\ Ledger!Announce(appr)
    BY <1>1, <1>3, <1>8, IntentWritten
  <2>2. RunTypeOK'
    <3>1. pc' \in Ended \cup Working
      BY <1>2 DEF Ended, Working
    <3> QED
      BY <1>1, <1>6, <1>8, <2>1, <3>1, Zenon DEF RunTypeOK, WriteIntent, historyVars
  <2>3. PlaceInRun'
    <3>1. CASE pc' \in {"verified", "hold"}
      BY <3>1, NoPlace DEF Ended
    <3>2. CASE pc' = "look" /\ action = "delete" /\ stage = 1 /\ stage' = 2
      <4>1. written'[appr'] = stage' - 1
        BY <1>1, <2>1, <3>2
      <4> QED
        BY <1>3, <1>5, <1>6, <3>2, <4>1 DEF PlaceInRun, PastJournal
    <3>3. CASE pc' = "send" /\ ((action = "upload" /\ stage = 1) \/ Deletes) /\ stage' = stage
      <4>1. sent'[appr'][stage'] = 0
        BY <1>1, <1>3, <1>8, <3>3 DEF HistorySound, WriteIntent
      <4>2. stage < Final /\ (action = "upload" => stage = 1)
        BY <3>3, Stages, Numbers DEF Deletes
      <4>3. /\ written'[appr'] = stage' /\ stage' < Final /\ (action' = "upload" => stage' <= 2)
            /\ ((action' = "upload" /\ stage' = 1) \/ Deletes')
        BY <1>1, <1>5, <2>1, <3>3, <4>2 DEF Deletes
      <4> QED
        BY <1>3, <1>5, <1>6, <3>3, <4>1, <4>3 DEF PlaceInRun, PastJournal
    <3> QED
      BY <1>1, <1>2, <1>8, <3>1, <3>2, <3>3
  <2> QED
    BY <1>4, <1>5, <2>1, <2>2, <2>3, Zenon DEF IndInv, TypeOK, OwnTypeOK, LedgerStep
<1> QED
  BY <1>2, <1>7, <1>8

(* The request is sent: the step "Send" of the promise. *)
LEMMA SendSteps ==
  ASSUME IndInv, SendIntent
  PROVE  IndInv' /\ LedgerStep
<1>1. /\ pc = "send" /\ pc' = "wait" /\ UNCHANGED <<historyVars, appr, attempt, stage, opened, written>>
      /\ UNCHANGED <<pageVars, foreign, look, disturbed>> /\ UNCHANGED ownVars /\ Dispatch(IntentRequest)
  BY DEF SendIntent, SendRequest, Goto
<1> USE Facts
<1>2. /\ OnlyRun /\ opened /\ written[appr] = stage /\ stage < Final /\ sent[appr][stage] = 0
      /\ action # "reconcile" /\ (action = "upload" => stage <= 2)
      /\ ((action = "upload" /\ stage = 1) \/ Deletes)
  BY <1>1 DEF PlaceInRun, PastJournal
<1>3. /\ HistorySound' /\ sent' \in [Approvals -> [Intents -> Nat]]
      /\ Ledger!Send(appr)
  BY <1>2, RequestSent DEF SendIntent
<1>4. IntentRequest \in Request
  <2>1. Page \in 0..MaxId /\ Checksum \in 0..Alien /\ 0 \in 0..Alien
    BY Stages, Numbers DEF Page, Checksum
  <2>2. action # "upload" => DeleteId \in 0..MaxId
    BY <1>2, Stages, Numbers DEF DeleteId, Deletes
  <2> QED
    BY <2>1, <2>2 DEF IntentRequest, Request
<1>5. HostTypeOK'
  BY <1>1, <1>4, DispatchTypes, WireMoves DEF HostTypeOK
<1>6. OwnTypeOK' /\ action' = action
  BY <1>1 DEF OwnTypeOK, ownVars
<1>7. RunTypeOK'
  <2>1. pc' \in Working
    BY <1>1 DEF Working
  <2> QED
    BY <1>1, <1>3, <2>1, Zenon DEF RunTypeOK, historyVars
<1>8. PlaceInRun'
  <2>1. OnlyRun' /\ opened' /\ appr' = appr /\ written' = written /\ stage' = stage
    BY <1>1, <1>2 DEF OnlyRun, historyVars
  <2> QED
    BY <1>1, <1>2, <1>6, <2>1 DEF PlaceInRun, PastJournal, Deletes
<1> QED
  BY <1>3, <1>5, <1>6, <1>7, <1>8, Zenon DEF IndInv, TypeOK, OwnTypeOK, LedgerStep

(* The answer, the end without one, and the public download. *)
LEMMA LateSteps ==
  ASSUME IndInv, Confirmed \/ Unconfirmed \/ PublicReadback \/ Stops
  PROVE  IndInv' /\ LedgerStep
<1>1. /\ UNCHANGED <<historyVars, appr, attempt, ledgerVars, opened>> /\ pc # "idle"
      /\ UNCHANGED <<pageVars, foreign>> /\ UNCHANGED ownVars
  BY DEF Confirmed, Unconfirmed, PublicReadback, Stops, GiveUp, Crash, NextStage, Goto, Working
<1> USE Facts
<1>2. OwnTypeOK' /\ action' = action
  BY <1>1 DEF OwnTypeOK, ownVars
<1>3. CASE Confirmed
  <2>1. /\ pc = "wait" /\ BeginLook /\ answer' = NoAnswer /\ wire' = wire
        /\ \/ action = "upload" /\ stage' = stage + 1 /\ pc' = "look"
           \/ action = "delete" /\ stage' = stage /\ pc' = "post"
    BY <1>3, Zenon DEF Confirmed, NextStage, Goto
  <2>2. /\ OnlyRun /\ opened /\ written[appr] = stage /\ stage < Final
        /\ (action = "upload" => stage = 1) /\ (action = "delete" => Deletes)
    BY <2>1 DEF PlaceInRun, PastJournal, Deletes
  <2>3. HostTypeOK'
    <3>1. look' \in Look
      BY <2>1, LookTypes
    <3>2. disturbed' \in BOOLEAN
      BY <2>1 DEF BeginLook
    <3>3. NoAnswer \in Answer
      BY Numbers DEF NoAnswer, Answer
    <3> QED
      BY <1>1, <2>1, <3>1, <3>2, <3>3, Zenon DEF HostTypeOK, Answer, pageVars
  <2>4. PlaceInRun'
    <3>1. /\ OnlyRun' /\ opened' /\ appr' = appr /\ written' = written
      BY <1>1, <2>2 DEF OnlyRun, historyVars, ledgerVars
    <3>2. CASE action = "upload"
      <4>1. stage' = 2 /\ pc' = "look" /\ written'[appr'] = stage' - 1 /\ action' = "upload"
        BY <1>2, <2>1, <2>2, <3>1, <3>2
      <4> QED
        BY <3>1, <4>1 DEF PlaceInRun, PastJournal
    <3>3. CASE action = "delete"
      <4>1. stage' = stage /\ pc' = "post" /\ written'[appr'] = stage' /\ stage' < Final /\ action' = "delete"
        BY <1>2, <2>1, <2>2, <3>1, <3>3
      <4>2. Deletes'
        BY <2>2, <3>3, <4>1 DEF Deletes
      <4> QED
        BY <3>1, <4>1, <4>2 DEF PlaceInRun, PastJournal
    <3> QED
      BY <2>1, <3>2, <3>3
  <2>5. stage' \in Intents
    BY <2>1, <2>2, Numbers DEF Intents
  <2> QED
    BY <1>1, <1>2, <2>1, <2>3, <2>4, <2>5, QuietStep DEF Working
<1>4. CASE Unconfirmed \/ Stops
  <2>1. /\ Abandon /\ pc' \in {"hold", "crashed"} /\ (look' = NoLook \/ look' = look)
        /\ UNCHANGED <<disturbed, stage>>
    BY <1>4 DEF Unconfirmed, Stops, GiveUp, Crash, Goto
  <2>2. HostTypeOK'
    <3>1. look' \in Look
      BY <2>1, LookTypes DEF HostTypeOK
    <3> QED
      BY <1>1, <2>1, <3>1, AbandonTypes, WireMoves
  <2>3. PlaceInRun'
    BY <2>1, NoPlace DEF Ended
  <2> QED
    BY <1>1, <1>2, <2>1, <2>2, <2>3, QuietStep DEF Ended
<1>5. CASE PublicReadback
  <2>1. /\ pc = "public" /\ UNCHANGED <<stage, wire, answer>> /\ (BeginLook \/ UNCHANGED <<look, disturbed>>)
        /\ \/ pc' = "announce" /\ stage = 1
           \/ pc' = "look" /\ stage = Final
           \/ pc' = "hold"
    BY <1>5 DEF PublicReadback, Goto
  <2>2. HostTypeOK'
    <3>1. look' \in Look
      BY <2>1, LookTypes DEF HostTypeOK
    <3>2. disturbed' \in BOOLEAN
      BY <2>1 DEF BeginLook, HostTypeOK
    <3> QED
      BY <1>1, <2>1, <3>1, <3>2, LookMoves
  <2>3. PlaceInRun'
    <3>1. CASE pc' = "hold"
      BY <3>1, NoPlace DEF Ended
    <3>2. CASE pc' \in {"announce", "look"}
      <4>1. /\ OnlyRun' /\ opened' /\ written'[appr'] = stage' - 1 /\ action' = "delete"
        BY <1>1, <1>2, <2>1 DEF PlaceInRun, PastJournal, OnlyRun, historyVars, ledgerVars
      <4> QED
        BY <3>2, <4>1 DEF PlaceInRun, PastJournal
    <3> QED
      BY <2>1, <3>1, <3>2
  <2> QED
    BY <1>1, <1>2, <2>1, <2>2, <2>3, QuietStep DEF Ended, Working
<1> QED
  BY <1>3, <1>4, <1>5

(* Runs begin, again and anew, the host moves, and so do other people. *)
LEMMA OutsideSteps ==
  ASSUME IndInv,
         \/ (HostStep \/ ForeignStep) /\ UNCHANGED <<runVars, ownVars>>
         \/ \E a \in Approvals : DispatchRun(a) /\ UNCHANGED <<hostVars, ownVars>>
         \/ \E a \in Approvals, act \in {"upload", "delete", "reconcile"}, s \in known : Begin(a, act, s)
         \/ Rerun \/ Again
  PROVE  IndInv' /\ LedgerStep
<1> USE Facts
<1>1. CASE (HostStep \/ ForeignStep) /\ UNCHANGED <<runVars, ownVars>>
  <2>1. HostTypeOK'
    BY <1>1, HostStepTypes, ForeignStepTypes
  <2>2. OwnTypeOK' /\ RunTypeOK'
    BY <1>1, Zenon DEF OwnTypeOK, ownVars, RunTypeOK, runVars, historyVars, ledgerVars
  <2>3. HistorySound'
    BY <1>1, HistoryStays, Zenon DEF runVars
  <2>4. PlaceInRun'
    BY <1>1, Zenon DEF PlaceInRun, PastJournal, OnlyRun, Deletes, ownVars, runVars, historyVars, ledgerVars
  <2> QED
    BY <1>1, <2>1, <2>2, <2>3, <2>4, Zenon DEF IndInv, TypeOK, OwnTypeOK, LedgerStep, runVars
<1>2. ASSUME NEW a \in Approvals, DispatchRun(a), UNCHANGED <<hostVars, ownVars>>
      PROVE  IndInv' /\ LedgerStep
  <2>1. RunTypeOK' /\ HistorySound'
    BY <1>2, HistoryGrows
  <2>2. HostTypeOK' /\ OwnTypeOK'
    BY <1>2, HostStays, Zenon DEF OwnTypeOK, ownVars
  <2>3. UNCHANGED <<started, pc, appr, attempt, stage, opened, ledgerVars>>
    BY <1>2 DEF DispatchRun
  <2>4. PlaceInRun'
    BY <1>2, <2>3, Zenon DEF PlaceInRun, PastJournal, OnlyRun, Deletes, ledgerVars, ownVars
  <2> QED
    BY <2>1, <2>2, <2>3, <2>4, Zenon DEF IndInv, TypeOK, OwnTypeOK, LedgerStep
<1>3. CASE \E a \in Approvals, act \in {"upload", "delete", "reconcile"}, s \in known : Begin(a, act, s)
  <2>1. PICK a \in Approvals, act \in {"upload", "delete", "reconcile"}, s \in known : Begin(a, act, s)
    BY <1>3
  <2>2. RunTypeOK' /\ HistorySound'
    BY <2>1, HistoryGrows DEF Begin
  <2>3. UNCHANGED ledgerVars /\ pc' = "gate" /\ stage' = 1 /\ UNCHANGED hostVars
    BY <2>1 DEF Begin, StartRun, FreshRunner
  <2>4. OwnTypeOK'
    BY <2>1 DEF Begin, OwnTypeOK
  <2> QED
    BY <2>2, <2>3, <2>4, HostStays, NoPlace, Zenon DEF IndInv, TypeOK, OwnTypeOK, LedgerStep
<1>4. CASE Rerun
  <2>1. RunTypeOK' /\ HistorySound'
    BY <1>4, HistoryGrows, Stages DEF Rerun
  <2>2. UNCHANGED ledgerVars /\ pc' = "gate" /\ stage' = 1 /\ UNCHANGED hostVars
    BY <1>4 DEF Rerun, RerunAttempt, FreshRunner
  <2>3. OwnTypeOK'
    BY <1>4 DEF Rerun, OwnTypeOK
  <2> QED
    BY <2>1, <2>2, <2>3, HostStays, NoPlace, Zenon DEF IndInv, TypeOK, OwnTypeOK, LedgerStep
<1>5. CASE Again
  <2>1. /\ UNCHANGED <<historyVars, appr, attempt, opened, ledgerVars>> /\ pc = "crashed" /\ UNCHANGED hostVars
        /\ pc' = "gate" /\ stage' = 1
    BY <1>5 DEF Again, Reinvoke
  <2>2. OwnTypeOK'
    BY <1>5 DEF Again, OwnTypeOK
  <2> QED
    BY <2>1, <2>2, HostStays, NoPlace, Stages, QuietStep DEF Working
<1> QED
  BY <1>1, <1>2, <1>3, <1>4, <1>5

-----------------------------------------------------------------------------
(* Every step keeps the invariant and is a step of the promise or none.    *)
THEOREM StepInv ==
  IndInv /\ [Next]_vars => IndInv' /\ [\E a \in Approvals : Ledger!Announce(a) \/ Ledger!Send(a)]_ledgerVars
<1> SUFFICES ASSUME IndInv, [Next]_vars PROVE IndInv' /\ LedgerStep
  BY Zenon DEF LedgerStep
<1>1. CASE RunStep
  BY <1>1, EarlySteps, ReadingSteps, LookDoneStep, AnnounceSteps, SendSteps, LateSteps, Zenon DEF RunStep
<1>2. CASE Environment
  BY <1>2, EarlySteps, LateSteps, OutsideSteps, Zenon DEF Environment
<1>3. CASE UNCHANGED vars
  <2>1. HostTypeOK' /\ OwnTypeOK'
    BY <1>3, Facts, HostStays, Zenon DEF vars, OwnTypeOK, ownVars
  <2>2. RunTypeOK'
    BY <1>3, Facts, Zenon DEF vars, RunTypeOK, runVars, historyVars, ledgerVars
  <2>3. HistorySound'
    BY <1>3, Facts, HistoryStays, Zenon DEF vars, runVars
  <2>4. PlaceInRun'
    BY <1>3, Facts, Zenon
       DEF vars, PlaceInRun, PastJournal, OnlyRun, Deletes, ownVars, runVars, historyVars, ledgerVars
  <2>5. UNCHANGED ledgerVars
    BY <1>3 DEF vars, runVars
  <2> QED
    BY <2>1, <2>2, <2>3, <2>4, <2>5, Zenon DEF IndInv, TypeOK, OwnTypeOK, LedgerStep
<1> QED
  BY <1>1, <1>2, <1>3, Zenon DEF Next

(* The types hold, and every run is where its journal says it is. *)
THEOREM Invariance == Spec => []IndInv
  BY InitInv, StepInv, PTL DEF Spec

(* No crash, re-run, second dispatch or late answer makes an upload or a   *)
(* deletion go out twice, without its intent, or for an older intent.      *)
THEOREM NormalizationOneShot == Spec => ImplementsLedger
<1>1. Init => Ledger!LedgerInit
  BY InitInv
<1>2. IndInv /\ [Next]_vars =>
        [\E a \in Approvals : Ledger!Announce(a) \/ Ledger!Send(a)]_(Ledger!ledgerVars)
  BY StepInv DEF Ledger!ledgerVars, ledgerVars
<1> QED
  BY <1>1, <1>2, Invariance, PTL DEF Spec, ImplementsLedger, Ledger!LedgerSpec

-----------------------------------------------------------------------------
(* The inductive invariant behind PageRecognisable, while nobody else      *)
(* changes the page.  The one release holds the originals that the first k *)
(* deletions leave, under their identifiers, and at most one checksum      *)
(* asset, under a later identifier than theirs; if k > 0 it is exact.  A   *)
(* request on the wire uploads the checksum, or deletes an asset whose     *)
(* predecessors in the order are gone already; and a run that is about to  *)
(* ask for a deletion has read so.                                         *)
HasSum(A) == \E x \in A : x.name = Checksum /\ x.kind = "exact"
Passed(A, j) == \A x \in A : x.name \notin Gone(j)
HoldsState(A, k) ==
  /\ A \cap OriginalAssets = {x \in OriginalAssets : x.name \notin Gone(k)}
  /\ \A x \in A \ OriginalAssets : x.name = Checksum /\ x.id > Assets + 1
  /\ \A x, y \in A \ OriginalAssets : x = y
  /\ k > 0 => HasSum(A)
States == 0..Assets - Retained

PageSound ==
  /\ nextId > Assets + 1
  /\ \E r \in releases : releases = {r} /\ r.id = Page /\ \E k \in States : HoldsState(r.assets, k)
Ready(j) == HasSum(AssetsOf(Page)) /\ Passed(AssetsOf(Page), j)
WirePlanned ==
  \A q \in wire : \/ q.act = "upload" /\ q.rel = Page /\ q.name = Checksum
                  \/ q.act = "delete" /\ \E s \in 2..Final - 1 : q.rel = Retained + s /\ Ready(s - 2)
DeletesInOrder ==
  (Deletes /\ (pc \in {"announce", "send", "wait"} \/ (pc = "look" /\ look.at = "done"))) => Ready(stage - 2)

OrderInv == PageSound /\ WirePlanned /\ DeletesInOrder
InOrder == foreign = 0 => OrderInv

(* The numbers of the plan. *)
LEMMA PlanNumbers ==
  /\ Retained \in Nat /\ Assets \in Nat /\ Final \in Nat /\ Retained < Assets /\ Final = Assets - Retained + 2
  /\ \A n \in Planned : n \in Nat /\ n > 0 /\ n <= Assets
  /\ \A x \in OriginalAssets : x.name \in Planned /\ x.id = x.name + 1 /\ x.kind = "exact"
  /\ \A x, y \in OriginalAssets : x.name = y.name => x = y
  /\ \A n \in Planned : \E x \in OriginalAssets : x.name = n
  /\ Checksum \notin Planned
<1>1. Retained \in Nat /\ Assets \in Nat /\ Final \in Nat /\ Retained < Assets /\ Final = Assets - Retained + 2
  BY Stages, Numbers
<1>2. \A n \in Planned : n \in Nat /\ n > 0 /\ n <= Assets
  BY <1>1 DEF Planned
<1>3. /\ \A x \in OriginalAssets : x.name \in Planned /\ x.id = x.name + 1 /\ x.kind = "exact"
      /\ \A x, y \in OriginalAssets : x.name = y.name => x = y
  BY DEF OriginalAssets
<1>4. ASSUME NEW n \in Planned PROVE \E x \in OriginalAssets : x.name = n
  <2> DEFINE x == [id |-> n + 1, name |-> n, kind |-> "exact"]
  <2>1. x \in OriginalAssets /\ x.name = n
    BY DEF OriginalAssets
  <2> QED BY <2>1
<1>5. Checksum \notin Planned
  BY <1>2 DEF Checksum
<1> QED BY <1>1, <1>2, <1>3, <1>4, <1>5

(* The checksum arrives on a page that has none. *)
LEMMA SumArrives ==
  ASSUME NEW A, NEW k \in States, HoldsState(A, k), NEW x, x.name = Checksum, x.id > Assets + 1,
         \A y \in A : y.name # Checksum
  PROVE  HoldsState(A \cup {x}, k) /\ \A j : Passed(A, j) => Passed(A \cup {x}, j)
<1>1. x \notin OriginalAssets
  BY PlanNumbers
<1>2. A \ OriginalAssets = {} /\ ~(k > 0)
  BY DEF HoldsState, HasSum
<1>3. HoldsState(A \cup {x}, k)
  <2>1. (A \cup {x}) \ OriginalAssets = {x} /\ (A \cup {x}) \cap OriginalAssets = A \cap OriginalAssets
    BY <1>1, <1>2
  <2> QED BY <1>2, <2>1 DEF HoldsState
<1>4. ASSUME NEW j, Passed(A, j) PROVE Passed(A \cup {x}, j)
  BY <1>4, PlanNumbers DEF Passed, Gone
<1> QED BY <1>3, <1>4

(* The next original goes. *)
LEMMA AssetGoes ==
  ASSUME NEW A, NEW k \in States, HoldsState(A, k), NEW s \in 2..Final - 1, HasSum(A), Passed(A, s - 2),
         NEW x \in A, x.id = Retained + s
  PROVE  /\ s - 1 \in States /\ HoldsState(A \ {x}, s - 1) /\ HasSum(A \ {x})
         /\ \A j : Passed(A, j) => Passed(A \ {x}, j)
<1> DEFINE n == Retained + s - 1
<1>0. /\ k \in Nat /\ s \in Nat /\ s >= 2 /\ s <= Assets - Retained + 1 /\ s - 1 \in States
      /\ n \in Nat /\ n > Retained /\ n <= Assets
  BY PlanNumbers DEF States
<1>1. x \in OriginalAssets /\ x.name = n
  <2>1. ~(x.id > Assets + 1)
    BY <1>0, PlanNumbers
  <2>2. x \in OriginalAssets
    BY <2>1 DEF HoldsState
  <2>3. x.name \in Nat /\ x.id = x.name + 1
    BY <2>2, PlanNumbers
  <2> QED BY <1>0, <2>2, <2>3, PlanNumbers
<1>2. n \in Planned /\ n \notin Gone(k)
  BY <1>1, PlanNumbers DEF HoldsState
<1>3. k < s - 1
  BY <1>0, <1>2, PlanNumbers DEF Gone
<1>4. k >= s - 2
  <2> SUFFICES ASSUME s > 2 PROVE k >= s - 2
    BY <1>0
  <2> DEFINE m == Retained + s - 2
  <2>1. m \in Planned /\ m \in Gone(s - 2) /\ m \in Nat
    BY <1>0, PlanNumbers DEF Planned, Gone
  <2>2. PICK y \in OriginalAssets : y.name = m
    BY <2>1, PlanNumbers
  <2>3. y \notin A
    BY <2>1, <2>2 DEF Passed
  <2>4. m \in Gone(k)
    BY <2>2, <2>3 DEF HoldsState
  <2> QED BY <1>0, <2>4, PlanNumbers DEF Gone
<1>5. k = s - 2
  BY <1>0, <1>3, <1>4
<1>6. \A y \in OriginalAssets : y.name \notin Gone(s - 1) <=> y.name \notin Gone(k) /\ y # x
  <2> SUFFICES ASSUME NEW y \in OriginalAssets
               PROVE y.name \notin Gone(s - 1) <=> y.name \notin Gone(k) /\ y # x
    OBVIOUS
  <2>1. y.name \in Planned /\ y.name \in Nat /\ (y = x <=> y.name = n)
    BY <1>1, PlanNumbers
  <2>2. y.name \in Gone(s - 1) <=> y.name \in Gone(k) \/ y.name = n
    BY <1>0, <1>5, <2>1, PlanNumbers DEF Gone
  <2> QED BY <2>1, <2>2
<1>7. (A \ {x}) \cap OriginalAssets = {y \in OriginalAssets : y.name \notin Gone(s - 1)}
  BY <1>6 DEF HoldsState
<1>8. HasSum(A \ {x})
  <2>1. x.name # Checksum
    BY <1>1, PlanNumbers
  <2> QED BY <2>1 DEF HasSum
<1>9. HoldsState(A \ {x}, s - 1)
  <2>1. (A \ {x}) \ OriginalAssets = A \ OriginalAssets
    BY <1>1
  <2> QED BY <1>7, <1>8, <2>1 DEF HoldsState
<1> QED BY <1>0, <1>8, <1>9 DEF Passed

(* The assets of a page with one release. *)
LEMMA OneRelease ==
  ASSUME NEW page, NEW r, page = {r}, r.id = Page
  PROVE  UNION {t.assets : t \in {u \in page : u.id = Page}} = r.assets /\ {u \in page : u.id = Page} = {r}
  OBVIOUS

(* Whatever the host does to a request of the plan, the page is one of the *)
(* states again, and what was read of it for a deletion stays true.        *)
LEMMA HostKeepsOrder ==
  ASSUME IndInv, OrderInv, HostStep, UNCHANGED <<runVars, ownVars>>
  PROVE  PageSound' /\ \A j \in Nat : Ready(j) => Ready(j)'
<1>1. PICK q \in wire : LandCreate(q) \/ LandUpload(q) \/ LandPublish(q) \/ LandDelete(q) \/ Refuse(q)
  BY DEF HostStep
<1>2. PICK r \in releases : releases = {r} /\ r.id = Page /\ \E k \in States : HoldsState(r.assets, k)
  BY DEF OrderInv, PageSound
<1>3. PICK k \in States : HoldsState(r.assets, k)
  BY <1>2
<1>4. AssetsOf(Page) = r.assets /\ WithId(Page) = {r} /\ r \in Release
  BY <1>2, OneRelease, Facts DEF AssetsOf, WithId, HostTypeOK
<1>5. nextId \in Nat /\ nextId > Assets + 1 /\ Assets \in Nat
  BY Facts, Numbers DEF OrderInv, PageSound, HostTypeOK
<1>6. ASSUME NEW s, releases' = {s}, s.id = Page, NEW l \in States, HoldsState(s.assets, l),
             nextId' = nextId \/ nextId' = nextId + 1, HasSum(r.assets) => HasSum(s.assets),
             \A j : Passed(r.assets, j) => Passed(s.assets, j)
      PROVE  PageSound' /\ \A j \in Nat : Ready(j) => Ready(j)'
  <2>1. AssetsOf(Page)' = s.assets
    BY <1>6 DEF AssetsOf, WithId
  <2>2. nextId' > Assets + 1
    BY <1>5, <1>6
  <2>3. PageSound'
    BY <1>6, <2>2 DEF PageSound
  <2>4. \A j \in Nat : HasSum(r.assets) /\ Passed(r.assets, j) => HasSum(s.assets) /\ Passed(s.assets, j)
    BY <1>6
  <2> QED BY <1>4, <2>1, <2>3, <2>4 DEF Ready
<1>7. ~LandCreate(q) /\ ~LandPublish(q)
  BY DEF LandCreate, LandPublish, OrderInv, WirePlanned
<1>8. CASE LandUpload(q)
  <2>0. q.rel = Page /\ q.name = Checksum
    BY <1>8 DEF LandUpload, OrderInv, WirePlanned
  <2>1. PICK kind, reply : StoreAsset(q, kind, reply)
    BY <1>8 DEF LandUpload
  <2> DEFINE x == [id |-> nextId, name |-> Checksum, kind |-> kind]
             s == [r EXCEPT !.assets = @ \cup {x}]
  <2>2. /\ releases' = (releases \ {r}) \cup {s} /\ nextId' = nextId + 1
        /\ \A y \in r.assets : y.name # Checksum
    BY <1>4, <2>0, <2>1 DEF StoreAsset, Settle
  <2>3. s.id = Page /\ s.assets = r.assets \cup {x}
    BY <1>2, <1>4 DEF Release
  <2>4. x.name = Checksum /\ x.id > Assets + 1
    BY <1>5
  <2> HIDE DEF x, s
  <2>5. HoldsState(s.assets, k) /\ \A j : Passed(r.assets, j) => Passed(s.assets, j)
    BY <1>3, <2>2, <2>3, <2>4, SumArrives
  <2>6. HasSum(r.assets) => HasSum(s.assets)
    BY <2>2 DEF HasSum
  <2>7. releases' = {s}
    BY <1>2, <2>2
  <2> QED BY <1>6, <2>2, <2>3, <2>5, <2>6, <2>7
<1>9. CASE LandDelete(q)
  <2>1. PICK n \in 2..Final - 1 : q.rel = Retained + n /\ Ready(n - 2)
    BY <1>9 DEF LandDelete, OrderInv, WirePlanned
  <2>2. PICK x \in r.assets :
          /\ x.id = q.rel
          /\ Settle(q, (releases \ {r}) \cup {[r EXCEPT !.assets = @ \ {x}]}, 0, [is |-> "ok", id |-> q.rel])
    BY <1>2, <1>9 DEF LandDelete
  <2> DEFINE s == [r EXCEPT !.assets = @ \ {x}]
  <2>3. s.id = Page /\ s.assets = r.assets \ {x}
    BY <1>2, <1>4 DEF Release
  <2>4. releases' = (releases \ {r}) \cup {s} /\ nextId' = nextId
    BY <1>5, <2>2 DEF Settle
  <2> HIDE DEF s
  <2>5. HasSum(r.assets) /\ Passed(r.assets, n - 2) /\ x.id = Retained + n
    BY <1>4, <2>1, <2>2 DEF Ready
  <2>6. /\ n - 1 \in States /\ HoldsState(r.assets \ {x}, n - 1) /\ HasSum(r.assets \ {x})
        /\ \A j : Passed(r.assets, j) => Passed(r.assets \ {x}, j)
    BY <1>3, <2>5, AssetGoes
  <2>7. releases' = {s}
    BY <1>2, <2>4
  <2> QED BY <1>6, <2>3, <2>4, <2>6, <2>7
<1>10. CASE Refuse(q)
  <2>1. releases' = releases /\ nextId' = nextId
    BY <1>5, <1>10 DEF Refuse, Settle
  <2> QED BY <1>2, <1>3, <1>6, <2>1
<1> QED BY <1>1, <1>7, <1>8, <1>9, <1>10

(* A readback before a deletion has seen that its predecessors are gone. *)
LEMMA ReadsOrder ==
  ASSUME IndInv, Deletes, pc = "look", ReadAssets(Page, ExpectNames), look'.at = "done"
  PROVE  Ready(stage - 2)
<1>1. ExpectNames = Remaining(stage - 2)
  <2>1. stage # 1
    BY Numbers DEF Deletes
  <2> QED BY <2>1 DEF Deletes, ExpectNames
<1>2. HoldsExactly(AssetsOf(Page), Remaining(stage - 2))
  BY <1>1 DEF ReadAssets, Refused
<1> DEFINE A == AssetsOf(Page)
<1>3. {x.name : x \in A} = Remaining(stage - 2) /\ \A x \in A : x.kind = "exact"
  BY <1>2 DEF HoldsExactly
<1> HIDE DEF A
<1>4. HasSum(A)
  <2>1. Checksum \in {x.name : x \in A}
    BY <1>3 DEF Remaining
  <2> QED BY <1>3, <2>1 DEF HasSum
<1>5. Passed(A, stage - 2)
  <2> SUFFICES ASSUME NEW x \in A, x.name \in Gone(stage - 2) PROVE FALSE
    BY DEF Passed
  <2>1. x.name \in Remaining(stage - 2)
    BY <1>3
  <2>2. x.name \in Planned /\ x.name # Checksum
    BY PlanNumbers DEF Gone
  <2> QED BY <2>1, <2>2 DEF Remaining
<1> QED BY <1>4, <1>5 DEF A, Ready

(* Steps that leave the page alone and put nothing new on the wire. *)
LEMMA PageKeepsOrder ==
  ASSUME IndInv, OrderInv, UNCHANGED <<releases, nextId>>, wire' \subseteq wire \/ Abandon
  PROVE  PageSound' /\ WirePlanned' /\ \A j \in Nat : Ready(j) => Ready(j)'
<1>1. PageSound'
  BY DEF OrderInv, PageSound
<1>2. AssetsOf(Page)' = AssetsOf(Page)
  BY DEF AssetsOf, WithId
<1>3. \A j : Ready(j) <=> HasSum(AssetsOf(Page)) /\ Passed(AssetsOf(Page), j)
  BY DEF Ready
<1>4. \A j \in Nat : Ready(j) => Ready(j)'
  BY <1>2 DEF Ready
<1>5. WirePlanned'
  <2> SUFFICES ASSUME NEW q \in wire'
               PROVE \/ q.act = "upload" /\ q.rel = Page /\ q.name = Checksum
                     \/ q.act = "delete" /\ \E s \in 2..Final - 1 : q.rel = Retained + s /\ Ready(s - 2)'
    BY DEF WirePlanned
  <2>1. PICK p \in wire : p.act = q.act /\ p.rel = q.rel /\ p.name = q.name
    <3>1. CASE wire' \subseteq wire
      BY <3>1
    <3>2. CASE Abandon
      <4>1. PICK p \in wire : q = [p EXCEPT !.live = FALSE]
        BY <3>2 DEF Abandon
      <4>2. p \in Request
        BY Facts DEF HostTypeOK
      <4> QED BY <4>1, <4>2 DEF Request
    <3> QED BY <3>1, <3>2
  <2>2. \A s \in 2..Final - 1 : s - 2 \in Nat
    BY Stages, Numbers
  <2> QED BY <1>4, <2>1, <2>2 DEF OrderInv, WirePlanned
<1> QED BY <1>1, <1>4, <1>5

(* The steps of a run and of its workflow. *)
LEMMA RunKeepsOrder ==
  ASSUME IndInv, OrderInv,
         \/ Gate \/ Inspect \/ ReadPage \/ LookDone \/ Journal \/ PublicReadback
         \/ AnnounceIntent \/ SendIntent \/ Confirmed \/ Unconfirmed \/ StepFails \/ Stops
         \/ \E a \in Approvals : DispatchRun(a) /\ UNCHANGED <<hostVars, ownVars>>
         \/ \E a \in Approvals, act \in {"upload", "delete", "reconcile"}, s \in known : Begin(a, act, s)
         \/ Rerun \/ Again \/ UNCHANGED vars
  PROVE  OrderInv'
<1>1. UNCHANGED <<releases, nextId>>
  BY DEF Gate, Inspect, ReadPage, LookDone, Journal, PublicReadback, AnnounceIntent, SendIntent, SendRequest,
         Confirmed, Unconfirmed, GiveUp, StepFails, Stops, Crash, Begin, Rerun, Again, vars, hostVars, pageVars
<1>2. wire' \subseteq wire \/ Abandon \/ SendIntent
  BY DEF Gate, Inspect, ReadPage, LookDone, Journal, PublicReadback, AnnounceIntent,
         Confirmed, Unconfirmed, GiveUp, StepFails, Stops, Crash, Begin, Rerun, Again, vars, hostVars
<1>3. stage \in Nat
  BY Facts
<1>4. \A j \in Nat : Ready(j) => Ready(j)'
  <2>1. AssetsOf(Page)' = AssetsOf(Page)
    BY <1>1 DEF AssetsOf, WithId
  <2> QED BY <2>1 DEF Ready
<1>5. PageSound'
  BY <1>1 DEF OrderInv, PageSound
<1>6. WirePlanned'
  <2>1. CASE SendIntent
    <3>1. /\ wire' = wire \cup {IntentRequest} /\ pc = "send"
          /\ (action = "upload" /\ stage = 1) \/ Deletes
      BY <2>1, Facts DEF SendIntent, SendRequest, Dispatch, PlaceInRun
    <3>2. CASE action = "upload"
      <4>1. IntentRequest.act = "upload" /\ IntentRequest.rel = Page /\ IntentRequest.name = Checksum
        BY <3>2 DEF IntentRequest
      <4>2. \A q \in wire' : q \in wire \/ q = IntentRequest
        BY <3>1
      <4>3. \A s \in 2..Final - 1 : s - 2 \in Nat
        BY Stages, Numbers
      <4> QED BY <1>4, <4>1, <4>2, <4>3 DEF OrderInv, WirePlanned
    <3>3. CASE Deletes
      <4>1. IntentRequest.act = "delete" /\ IntentRequest.rel = Retained + stage
        <5>1. DeleteId = Retained + stage
          BY <1>3, Stages DEF DeleteId
        <5>2. action # "upload"
          BY <3>3 DEF Deletes
        <5> QED BY <5>1, <5>2 DEF IntentRequest
      <4>2. stage \in 2..Final - 1 /\ Ready(stage - 2) /\ stage - 2 \in Nat
        BY <1>3, <3>1, <3>3, Stages, Numbers DEF OrderInv, DeletesInOrder, Deletes
      <4>3. \A s \in 2..Final - 1 : s - 2 \in Nat
        BY Stages, Numbers
      <4>4. \A q \in wire' : q \in wire \/ q = IntentRequest
        BY <3>1
      <4>5. \A q \in wire' : \/ q.act = "upload" /\ q.rel = Page /\ q.name = Checksum
                             \/ q.act = "delete" /\ \E s \in 2..Final - 1 : q.rel = Retained + s /\ Ready(s - 2)
        BY <4>1, <4>2, <4>4 DEF OrderInv, WirePlanned
      <4> QED BY <1>4, <4>3, <4>5 DEF WirePlanned
    <3> QED BY <3>1, <3>2, <3>3
  <2>2. CASE ~SendIntent
    BY <1>1, <1>2, <2>2, PageKeepsOrder
  <2> QED BY <2>1, <2>2
<1>7. DeletesInOrder'
  <2> SUFFICES ASSUME Deletes', pc' \in {"announce", "send", "wait"} \/ (pc' = "look" /\ look'.at = "done")
               PROVE  Ready(stage - 2)'
    BY DEF DeletesInOrder
  <2>1. CASE ReadPage
    <3>1. stage' = stage /\ pc' = pc /\ Deletes
      BY <2>1 DEF ReadPage, runVars, ownVars, Deletes
    <3>2. CASE pc = "look" /\ look'.at = "done"
      <4>1. ReadAssets(Page, ExpectNames)
        <5>1. look \in Look
          BY Facts DEF HostTypeOK
        <5>2. Refused.at # "done" /\ \A s : [look EXCEPT !.at = "direct", !.seen = s].at # "done"
          BY <5>1 DEF Look, Refused
        <5>3. [look EXCEPT !.at = "assets"].at # "done"
          BY <5>1 DEF Look
        <5>4. ~ReadList
          BY <3>2, <5>2 DEF ReadList
        <5>5. ~ReadFails /\ ~ReadDirect(Page, FALSE)
          BY <3>2, <5>2, <5>3 DEF ReadFails, ReadDirect
        <5> QED BY <2>1, <5>4, <5>5 DEF ReadPage
      <4>2. Ready(stage - 2)
        BY <3>1, <3>2, <4>1, ReadsOrder
      <4> QED BY <1>3, <1>4, <3>1, <4>2, Stages DEF Deletes
    <3>3. CASE pc \in {"announce", "send", "wait"}
      BY <2>1, <3>3 DEF ReadPage
    <3> QED BY <3>1, <3>2, <3>3
  <2>2. CASE ~ReadPage
    <3>1. stage' = stage /\ action' = action /\ (pc \in {"announce", "send", "wait"} \/ (pc = "look" /\ look.at = "done"))
      <4>1. stage' # 1
        BY Numbers DEF Deletes
      <4> QED BY <2>2, <4>1 DEF Gate, Inspect, LookDone, Journal, OpenJournal, PublicReadback, AnnounceIntent,
                 IntentFails, NextStage, BeginLook, NoLook, SendIntent, SendRequest, Confirmed, Unconfirmed, GiveUp,
                 StepFails, Stops, Crash, DispatchRun, Begin, StartRun, Rerun, RerunAttempt, FreshRunner, Again,
                 Reinvoke, Goto, vars, hostVars, runVars, ownVars, Deletes
    <3>2. Ready(stage - 2) /\ stage - 2 \in Nat
      BY <1>3, <3>1, Stages DEF Deletes, OrderInv, DeletesInOrder
    <3> QED BY <1>4, <3>1, <3>2
  <2> QED BY <2>1, <2>2
<1> QED BY <1>5, <1>6, <1>7 DEF OrderInv

(* Nothing leaves the order, *)
LEMMA OrderStep == IndInv /\ InOrder /\ [Next]_vars => InOrder'
<1> SUFFICES ASSUME IndInv, InOrder, [Next]_vars, foreign' = 0 PROVE OrderInv'
  BY DEF InOrder
<1>0. foreign \in Nat
  BY Facts DEF HostTypeOK
<1>1. ~ForeignStep
  BY <1>0 DEF ForeignStep
<1>2. OrderInv
  <2>1. foreign' = foreign
    BY <1>1 DEF Next, RunStep, Environment, Gate, Inspect, ReadPage, LookDone, Journal, PublicReadback,
         AnnounceIntent, SendIntent, SendRequest, Confirmed, Unconfirmed, GiveUp, StepFails, Stops, Crash, Begin,
         Rerun, Again, HostStep, LandCreate, LandUpload, StoreAsset, LandPublish, LandDelete, Refuse, Settle,
         vars, hostVars
  <2> QED BY <2>1 DEF InOrder
<1>3. CASE HostStep /\ UNCHANGED <<runVars, ownVars>>
  <2>1. PageSound' /\ \A j \in Nat : Ready(j) => Ready(j)'
    BY <1>2, <1>3, HostKeepsOrder
  <2>2. wire' \subseteq wire /\ look' = look
    BY <1>3 DEF HostStep, LandCreate, LandUpload, StoreAsset, LandPublish, LandDelete, Refuse, Settle
  <2>3. \A s \in 2..Final - 1 : s - 2 \in Nat
    BY Stages, Numbers
  <2>4. WirePlanned'
    BY <1>2, <2>1, <2>2, <2>3 DEF OrderInv, WirePlanned
  <2>5. DeletesInOrder'
    <3>1. UNCHANGED <<pc, stage, action>> /\ stage \in Nat
      BY <1>3, Facts DEF runVars, ownVars
    <3>2. Deletes => stage \in 2..Final - 1
      BY DEF Deletes
    <3> QED BY <1>2, <2>1, <2>2, <2>3, <3>1, <3>2 DEF OrderInv, DeletesInOrder, Deletes
  <2> QED BY <2>1, <2>4, <2>5 DEF OrderInv
<1>4. CASE ~(HostStep /\ UNCHANGED <<runVars, ownVars>>)
  BY <1>1, <1>2, <1>4, RunKeepsOrder DEF Next, RunStep, Environment
<1> QED BY <1>3, <1>4

(* and the page as it was published is in it. *)
LEMMA OrderInit == Init => InOrder
<1> SUFFICES ASSUME Init PROVE OrderInv
  BY DEF InOrder
<1> DEFINE page == [id |-> Page, draft |-> FALSE, text |-> "planned", assets |-> OriginalAssets]
<1>1. releases = {page} /\ wire = {} /\ pc = "idle"
  BY DEF Init, HostInit, RunInit
<1>2. page.id = Page /\ page.assets = OriginalAssets
  OBVIOUS
<1> HIDE DEF page
<1>3. HoldsState(OriginalAssets, 0) /\ 0 \in States
  <2>1. \A x \in OriginalAssets : x.name \notin Gone(0)
    BY PlanNumbers DEF Gone
  <2>2. 0 \in States
    BY PlanNumbers DEF States
  <2> QED BY <2>1, <2>2 DEF HoldsState
<1>4. PageSound
  <2>1. nextId > Assets + 1
    BY FirstId, Numbers
  <2> QED BY <1>1, <1>2, <1>3, <2>1 DEF PageSound
<1> QED BY <1>1, <1>4 DEF OrderInv, WirePlanned, DeletesInOrder

(* A sound page is one that reconcileNormalization recognises. *)
LEMMA SoundIsRecognised == PageSound => PageRecognisable
<1> SUFFICES ASSUME PageSound
             PROVE \E k \in States : \E sum \in SUBSET AssetsOf(Page) :
                     /\ AssetsOf(Page) = {x \in OriginalAssets : x.name \notin Gone(k)} \cup sum
                     /\ Cardinality(sum) <= 1 /\ \A x \in sum : x.name = Checksum
                     /\ k > 0 => \E x \in sum : x.kind = "exact"
  BY DEF PageRecognisable, States
<1>1. PICK r \in releases : releases = {r} /\ r.id = Page /\ \E k \in States : HoldsState(r.assets, k)
  BY DEF PageSound
<1> DEFINE A == AssetsOf(Page)
           sum == A \ OriginalAssets
<1>2. A = r.assets
  BY <1>1, OneRelease DEF AssetsOf, WithId
<1> HIDE DEF A
<1>3. PICK k \in States : HoldsState(A, k)
  BY <1>1, <1>2
<1>4. A = {x \in OriginalAssets : x.name \notin Gone(k)} \cup sum
  BY <1>3 DEF HoldsState
<1>5. \A x \in sum : x.name = Checksum
  BY <1>3 DEF HoldsState
<1>6. Cardinality(sum) <= 1
  <2>1. CASE sum = {}
    BY <2>1, FS_EmptySet
  <2>2. CASE sum # {}
    <3>1. PICK x \in sum : TRUE
      BY <2>2
    <3>2. sum = {x}
      BY <1>3, <3>1 DEF HoldsState
    <3>3. Cardinality({x}) = 1
      BY FS_Singleton
    <3> QED BY <3>2, <3>3
  <2> QED BY <2>1, <2>2
<1>7. k > 0 => \E x \in sum : x.kind = "exact"
  BY <1>3, PlanNumbers DEF HoldsState, HasSum
<1> QED BY <1>4, <1>5, <1>6, <1>7 DEF A

(* Unless somebody else changes it, the page is always a state from which  *)
(* a reconciliation can tell how far the procedure came: the originals go  *)
(* in the planned order, each once, and none before the exact checksum is  *)
(* there, through crashes, re-runs and late requests.                      *)
THEOREM NormalizationRecognisable == Spec => []PageRecognisable
<1>1. InOrder => PageRecognisable
  BY SoundIsRecognised DEF InOrder, OrderInv, PageRecognisable
<1>2. Init => InOrder
  BY OrderInit
<1>3. IndInv /\ InOrder /\ [Next]_vars => InOrder'
  BY OrderStep
<1> QED BY <1>1, <1>2, <1>3, Invariance, PTL DEF Spec

-----------------------------------------------------------------------------
(* A run deletes what was approved: the inductive invariant behind         *)
(* DeletesWhatWasApproved.  Past its first readback the run's snapshot is  *)
(* known to be a full page; what a readback has compared so far is so on   *)
(* the page; and a later readback, which compares names and identifiers    *)
(* only, leaves no page but the snapshot less the deletions before it.     *)
(* That holds until the request it was made for is sent, or the run ended. *)
Approved(s) ==
  /\ HoldsExactly(s, Remaining(0)) /\ \A x \in s : x.name # Checksum => x \in OriginalAssets
PastFirstLook == pc \in {"journal", "public", "announce", "send", "wait", "post"} \/ (pc = "look" /\ stage > 1)
SnapshotApproved == (action = "delete" /\ PastFirstLook) => Approved(prestate)
FoundExpected == (pc \in {"look", "post"} /\ look.at = "done") => HoldsExactly(look.found, ExpectNames)
AsApproved(j) ==
  /\ Exactly(Page, FALSE, Remaining(j))
  /\ AssetsOf(Page) = {x \in prestate : x.name \notin Gone(j)}
AsRead ==
  /\ pc \in {"look", "post"} =>
       /\ look.at \in {"direct", "assets", "done"} => ~tagMoved
       /\ look.at = "assets" => \E r \in releases : Meta(r) = [id |-> Page, draft |-> FALSE, text |-> "planned"]
       /\ look.at = "done" => Exactly(Page, FALSE, ExpectNames) /\ AssetsOf(Page) = look.found
  /\ (action = "delete" /\ stage > 1 /\ pc \in {"announce", "send", "verified"}) => AsApproved(stage - 2)
ReadInv ==
  /\ IdsOwned /\ OneWaited /\ SnapshotApproved /\ FoundExpected
  /\ (action = "delete" /\ pc = "verified") => stage = Final
  /\ ~disturbed => AsRead

(* Exact assets of the plan's names are finitely many. *)
LEMMA AssetsFinite ==
  ASSUME NEW s \in SUBSET Asset, Approved(s)
  PROVE  IsFiniteSet(s)
<1> DEFINE sums == {[id |-> n, name |-> Checksum, kind |-> "exact"] : n \in 1..MaxId}
           f == [n \in Planned |-> [id |-> n + 1, name |-> n, kind |-> "exact"]]
           g == [n \in 1..MaxId |-> [id |-> n, name |-> Checksum, kind |-> "exact"]]
<1>1. IsFiniteSet(Planned) /\ IsFiniteSet(1..MaxId)
  BY FS_Interval, Numbers DEF Planned
<1>2. f \in Surjection(Planned, OriginalAssets)
  BY DEF OriginalAssets, Surjection
<1>3. IsFiniteSet(OriginalAssets)
  BY <1>1, <1>2, FS_Surjection
<1>4. g \in Surjection(1..MaxId, sums)
  BY DEF Surjection
<1>5. IsFiniteSet(sums)
  BY <1>1, <1>4, FS_Surjection
<1>6. s \subseteq OriginalAssets \cup sums
  <2> SUFFICES ASSUME NEW x \in s, x \notin OriginalAssets PROVE x \in sums
    OBVIOUS
  <2>1. x.name = Checksum /\ x.kind = "exact"
    BY DEF Approved, HoldsExactly
  <2>2. x \in Asset
    OBVIOUS
  <2>3. x.id \in 1..MaxId /\ x = [id |-> x.id, name |-> Checksum, kind |-> "exact"]
    BY <2>1, <2>2 DEF Asset
  <2> QED BY <2>3
<1> HIDE DEF sums
<1> QED BY <1>3, <1>5, <1>6, FS_Union, FS_Subset

(* A full page has one asset of each name. *)
LEMMA OneOfEachName ==
  ASSUME NEW s \in SUBSET Asset, Approved(s), NEW x \in s, NEW y \in s, x.name = y.name
  PROVE  x = y
<1> DEFINE names == {z.name : z \in s}
           f == [z \in s |-> z.name]
<1>1. f \in Surjection(s, names)
  BY DEF Surjection
<1>2. Cardinality(s) = Cardinality(names)
  BY DEF Approved, HoldsExactly
<1>3. IsFiniteSet(s)
  BY AssetsFinite
<1>4. f \in Injection(s, names)
  <2> HIDE DEF f, names
  <2> QED BY <1>1, <1>2, <1>3, FS_SurjSameCardinalityImpliesInj
<1>5. f[x] = f[y]
  OBVIOUS
<1> HIDE DEF f, names
<1> QED BY <1>4, <1>5 DEF Injection, IsInjective

(* Exact assets with the names that j deletions leave, originals under     *)
(* their identifiers, the checksum under its approved one, are what the    *)
(* snapshot has left.                                                      *)
LEMMA SnapshotLess ==
  ASSUME NEW s \in SUBSET Asset, Approved(s), NEW A, NEW j, HoldsExactly(A, Remaining(j)),
         \A x \in A : x.name # Checksum => x \in OriginalAssets,
         \A x \in A : x.name = Checksum => x \in s
  PROVE  A = {x \in s : x.name \notin Gone(j)}
<1>1. {x.name : x \in A} = Remaining(j) /\ {x.name : x \in s} = Remaining(0)
  BY DEF HoldsExactly, Approved
<1>2. Remaining(j) = Remaining(0) \ Gone(j)
  <2>1. Gone(0) = {} /\ Gone(j) \subseteq Planned
    BY PlanNumbers DEF Gone
  <2> QED BY <2>1, PlanNumbers DEF Remaining
<1>3. ASSUME NEW x \in A, NEW y \in s, x.name = y.name PROVE x = y
  <2>1. CASE x.name = Checksum
    BY <1>3, <2>1, OneOfEachName
  <2>2. CASE x.name # Checksum
    BY <1>3, <2>2, PlanNumbers DEF Approved
  <2> QED BY <2>1, <2>2
<1>4. ASSUME NEW x \in A PROVE x \in s /\ x.name \notin Gone(j)
  <2>1. x.name \in Remaining(0) \ Gone(j)
    BY <1>1, <1>2
  <2>2. PICK y \in s : y.name = x.name
    BY <1>1, <2>1
  <2> QED BY <1>3, <2>1, <2>2
<1>5. ASSUME NEW y \in s, y.name \notin Gone(j) PROVE y \in A
  <2>1. y.name \in Remaining(j)
    BY <1>1, <1>2, <1>5
  <2>2. PICK x \in A : x.name = y.name
    BY <1>1, <2>1
  <2> QED BY <1>3, <2>2
<1> QED BY <1>4, <1>5

(* The page a run compares is the same after a step that changes neither   *)
(* the page nor what the run expects of it.                                *)
LEMMA PageStays ==
  ASSUME UNCHANGED <<releases, tagMoved>>
  PROVE  /\ AssetsOf(Page)' = AssetsOf(Page)
         /\ \A names : Exactly(Page, FALSE, names)' <=> Exactly(Page, FALSE, names)
         /\ prestate' = prestate => \A j : AsApproved(j)' <=> AsApproved(j)
<1>1. AssetsOf(Page)' = AssetsOf(Page)
  BY DEF AssetsOf, WithId
<1>2. \A names : Exactly(Page, FALSE, names)' <=> Exactly(Page, FALSE, names)
  BY DEF Exactly, Meta, HoldsExactly
<1> QED BY <1>1, <1>2 DEF AsApproved

(* The types and the place these steps read. *)
LEMMA ReadFacts ==
  ASSUME IndInv
  PROVE  /\ stage \in Nat /\ stage > 0 /\ PlaceInRun /\ HostTypeOK /\ look \in Look /\ releases \in SUBSET Release
         /\ prestate \in SUBSET Asset /\ Final \in Nat /\ Final >= 3
  BY Facts, Stages, Numbers DEF HostTypeOK, OwnTypeOK

(* Steps of a run that has not begun to read, or begins to.                *)
LEMMA EarlyReads ==
  ASSUME IndInv, ReadInv,
         \/ Gate \/ Inspect \/ PublicReadback \/ StepFails \/ Rerun \/ Again
         \/ \E a \in Approvals, act \in {"upload", "delete", "reconcile"}, s \in known : Begin(a, act, s)
  PROVE  ReadInv'
<1>1. /\ UNCHANGED <<releases, tagMoved, nextId, wire, answer>>
      /\ pc \in {"gate", "relook", "public"} \cup Ended
      /\ pc' \in {"gate", "relook", "hold", "look", "announce"}
  BY DEF Gate, Inspect, PublicReadback, StepFails, Rerun, RerunAttempt, Again, Reinvoke, Begin,
         StartRun, FreshRunner, Goto, hostVars, pageVars, Ended
<1>2. /\ pc' = "look" => BeginLook /\ stage' = stage /\ (pc = "public" \/ stage = 1)
      /\ pc' = "announce" => pc = "public" /\ stage' = 1
      /\ pc' \in {"look", "announce"} => UNCHANGED <<action, prestate>>
  <2>1. pc \in {"gate", "relook"} => stage = 1
    BY ReadFacts DEF PlaceInRun
  <2>2. CASE Gate
    BY <2>1, <2>2 DEF Gate, Goto, ownVars
  <2>3. CASE Inspect
    BY <2>1, <2>3 DEF Inspect, Goto
  <2>4. CASE PublicReadback
    <3>1. PublicReadback => pc = "public" /\ UNCHANGED <<stage, action, prestate>>
      BY DEF PublicReadback, ownVars
    <3>2. pc' = "look" => BeginLook
      BY <2>4 DEF PublicReadback, Goto
    <3>3. pc' = "announce" => stage = 1
      BY <2>4 DEF PublicReadback, Goto
    <3> QED BY <2>4, <3>1, <3>2, <3>3
  <2>5. CASE ~(Gate \/ Inspect \/ PublicReadback)
    <3>1. pc' \notin {"look", "announce"}
      BY <2>5 DEF StepFails, Rerun, RerunAttempt, Again, Reinvoke, Begin, StartRun, FreshRunner, Goto
    <3> QED BY <3>1
  <2> QED BY <2>2, <2>3, <2>4, <2>5
<1>3. IdsOwned' /\ OneWaited'
  BY <1>1 DEF ReadInv, IdsOwned, OneWaited, Ended
<1>4. SnapshotApproved'
  BY <1>1, <1>2 DEF ReadInv, SnapshotApproved, PastFirstLook, Approved
<1>5. FoundExpected' /\ AsRead'
  <2>1. pc' = "look" => look'.at = "list"
    BY <1>2 DEF BeginLook, NoLook
  <2>2. pc' = "announce" => ~(stage' > 1)
    BY <1>2
  <2> QED BY <1>1, <2>1, <2>2 DEF FoundExpected, AsRead
<1> QED
  BY <1>1, <1>3, <1>4, <1>5 DEF ReadInv

(* The list refuses, or leads to the direct read. *)
LEMMA ListReads ==
  ASSUME IndInv, ReadList
  PROVE  look' = Refused \/ (~tagMoved /\ look'.at = "direct")
<1>1. look' = Refused \/ (~tagMoved /\ \E seen : look' = [look EXCEPT !.at = "direct", !.seen = seen])
  BY DEF ReadList
<1> QED BY <1>1, ReadFacts DEF Look

(* One call of the readback: what it compares is on the page.              *)
LEMMA PageReads == ASSUME IndInv, ReadInv, ReadPage PROVE ReadInv'
<1>0. /\ UNCHANGED <<releases, tagMoved, nextId, wire, answer, disturbed, pc, stage, action, prestate, want>>
      /\ pc \in {"look", "post"} /\ ExpectNames' = ExpectNames
  BY DEF ReadPage, pageVars, runVars, ownVars, ExpectNames
<1>1. IdsOwned' /\ OneWaited' /\ SnapshotApproved'
  BY <1>0 DEF ReadInv, IdsOwned, OneWaited, SnapshotApproved, PastFirstLook, Approved
<1>2. ASSUME look'.at = "done"
      PROVE  \/ /\ look'.found = AssetsOf(Page) /\ HoldsExactly(AssetsOf(Page), ExpectNames)
                /\ look.at = "assets"
             \/ look' = look
  <2>1. ~ReadFails
    BY <1>2 DEF ReadFails, Refused
  <2>2. ~ReadList
    BY <1>2, ListReads DEF Refused
  <2>3. ~ReadDirect(Page, FALSE)
    BY <1>2, ReadFacts DEF ReadDirect, Refused, Look
  <2>4. ReadAssets(Page, ExpectNames)
    BY <2>1, <2>2, <2>3 DEF ReadPage
  <2>5. /\ look' = [look EXCEPT !.at = "done", !.found = AssetsOf(Page)] /\ look.at = "assets"
        /\ HoldsExactly(AssetsOf(Page), ExpectNames)
    BY <1>2, <2>4 DEF ReadAssets, Refused
  <2> QED BY <2>5, ReadFacts DEF Look
<1>3. FoundExpected'
  BY <1>0, <1>2 DEF ReadInv, FoundExpected, HoldsExactly
<1>4. ASSUME ~disturbed PROVE AsRead'
  <2>1. /\ look.at \in {"direct", "assets", "done"} => ~tagMoved
        /\ look.at = "assets" => \E r \in releases : Meta(r) = [id |-> Page, draft |-> FALSE, text |-> "planned"]
        /\ look.at = "done" => Exactly(Page, FALSE, ExpectNames) /\ AssetsOf(Page) = look.found
    BY <1>0, <1>4 DEF ReadInv, AsRead
  <2>2. look'.at \in {"direct", "assets", "done"} => ~tagMoved
    <3>1. ReadList => look' = Refused \/ ~tagMoved
      BY ListReads
    <3> QED BY <1>0, <2>1, <3>1 DEF ReadPage, ReadFails, ReadDirect, ReadAssets, Refused
  <2>3. look'.at = "assets" => \E r \in releases : Meta(r) = [id |-> Page, draft |-> FALSE, text |-> "planned"]
    <3> SUFFICES ASSUME look'.at = "assets"
                 PROVE \E r \in releases : Meta(r) = [id |-> Page, draft |-> FALSE, text |-> "planned"]
      OBVIOUS
    <3>1. ~ReadFails
      BY DEF ReadFails, Refused
    <3>2. ~ReadList
      BY ListReads DEF Refused
    <3>3. ~ReadAssets(Page, ExpectNames)
      <4>1. ReadAssets(Page, ExpectNames) => look' \in {Refused, [look EXCEPT !.at = "done", !.found = AssetsOf(Page)]}
        BY Zenon DEF ReadAssets
      <4>2. \A s : [look EXCEPT !.at = "done", !.found = s].at # "assets"
        BY ReadFacts DEF Look
      <4>3. Refused.at # "assets"
        BY DEF Refused
      <4> QED BY <4>1, <4>2, <4>3, Zenon
    <3>4. ReadDirect(Page, FALSE)
      BY <3>1, <3>2, <3>3 DEF ReadPage
    <3>5. {Meta(r) : r \in WithId(Page)} = {[id |-> Page, draft |-> FALSE, text |-> "planned"]}
      BY <3>4 DEF ReadDirect, Refused
    <3> QED BY <3>5 DEF WithId
  <2>4. look'.at = "done" => Exactly(Page, FALSE, ExpectNames) /\ AssetsOf(Page) = look'.found
    <3> SUFFICES ASSUME look'.at = "done", look' # look
                 PROVE Exactly(Page, FALSE, ExpectNames) /\ AssetsOf(Page) = look'.found
      BY <2>1
    <3>1. look'.found = AssetsOf(Page) /\ HoldsExactly(AssetsOf(Page), ExpectNames) /\ look.at = "assets"
      BY <1>2
    <3>2. PICK r \in releases : Meta(r) = [id |-> Page, draft |-> FALSE, text |-> "planned"]
      BY <2>1, <3>1
    <3>3. r.id = Page
      BY <3>2 DEF Meta
    <3>4. WithId(Page) = {r}
      BY <3>3 DEF WithId, ReadInv, IdsOwned
    <3>5. AssetsOf(Page) = r.assets
      BY <3>4 DEF AssetsOf
    <3> QED BY <2>1, <3>1, <3>2, <3>5 DEF Exactly
  <2> QED BY <1>0, <2>2, <2>3, <2>4, PageStays DEF AsRead
<1> QED
  BY <1>0, <1>1, <1>3, <1>4 DEF ReadInv

(* What a deletion expects to read. *)
LEMMA ExpectsRemaining ==
  ASSUME IndInv, action = "delete", pc = "look"
  PROVE  ExpectNames = (IF stage = 1 THEN Remaining(0) ELSE Remaining(stage - 2))
  BY DEF ExpectNames

(* The end of a readback: the first one settles that the snapshot is a     *)
(* full page, a later one that the page is what the snapshot has left.     *)
LEMMA DoneReads == ASSUME IndInv, ReadInv, LookDone PROVE ReadInv'
<1>0. /\ UNCHANGED <<releases, tagMoved, nextId, wire, answer, action, prestate>>
      /\ pc \in {"look", "post"} /\ pc' # "wait"
  BY DEF LookDone, Goto, NextStage, pageVars
<1> DEFINE good == look.at = "done" /\ Identified(look.found)
<1>1. \/ pc' = "hold"
      \/ pc' = "verified" /\ action = "reconcile"
      \/ pc = "look" /\ good /\ stage = 1 /\ pc' = "journal" /\ stage' = stage
      \/ pc = "look" /\ good /\ stage # 1 /\ pc' = "announce" /\ stage' = stage /\ disturbed' = disturbed
      \/ pc = "post" /\ pc' = "look" /\ BeginLook
      \/ pc = "post" /\ pc' = "public"
  BY DEF LookDone, Goto, NextStage
<1>2. IdsOwned' /\ OneWaited'
  BY <1>0 DEF ReadInv, IdsOwned, OneWaited
<1>3. SnapshotApproved'
  <2> SUFFICES ASSUME action = "delete", PastFirstLook' PROVE Approved(prestate)
    BY <1>0 DEF SnapshotApproved, Approved, HoldsExactly
  <2>1. CASE PastFirstLook
    BY <2>1 DEF ReadInv, SnapshotApproved
  <2>2. CASE ~PastFirstLook
    <3>1. pc = "look" /\ stage = 1 /\ good
      BY <1>0, <1>1, <2>2, ReadFacts DEF PastFirstLook
    <3>2. HoldsExactly(look.found, Remaining(0))
      BY <3>1, ExpectsRemaining DEF ReadInv, FoundExpected
    <3>3. look.found = prestate /\ \A x \in look.found : x.name # Checksum => x \in OriginalAssets
      BY <3>1 DEF Identified
    <3> QED BY <3>2, <3>3 DEF Approved
  <2> QED BY <2>1, <2>2
<1>4. FoundExpected'
  BY <1>1 DEF FoundExpected, BeginLook, NoLook
<1>5. ASSUME ~disturbed' PROVE AsRead'
  <2>1. ASSUME pc' = "announce", action = "delete", stage > 1, stage' = stage PROVE AsApproved(stage - 2)
    <3>1. pc = "look" /\ good /\ ~disturbed
      BY <1>0, <1>1, <1>5, <2>1
    <3>2. ExpectNames = Remaining(stage - 2)
      BY <2>1, <3>1, ExpectsRemaining
    <3>3. Exactly(Page, FALSE, Remaining(stage - 2)) /\ AssetsOf(Page) = look.found
      BY <3>1, <3>2 DEF ReadInv, AsRead
    <3>4. HoldsExactly(look.found, Remaining(stage - 2))
      BY <3>1, <3>2 DEF ReadInv, FoundExpected
    <3>5. Approved(prestate)
      BY <2>1, <3>1 DEF ReadInv, SnapshotApproved, PastFirstLook
    <3>6. look.found = {x \in prestate : x.name \notin Gone(stage - 2)}
      BY <2>1, <3>1, <3>4, <3>5, SnapshotLess, ReadFacts DEF Identified
    <3> QED BY <3>3, <3>6 DEF AsApproved
  <2>2. pc' = "look" => look'.at = "list"
    BY <1>0, <1>1 DEF BeginLook, NoLook
  <2> QED BY <1>0, <1>1, <2>1, <2>2, PageStays DEF AsRead
<1> QED
  BY <1>0, <1>1, <1>2, <1>3, <1>4, <1>5 DEF ReadInv

(* The journal is opened, and the intent written from the page that was    *)
(* read; the next one is read for anew.                                    *)
LEMMA AnnounceReads == ASSUME IndInv, ReadInv, Journal \/ AnnounceIntent PROVE ReadInv'
<1>0. /\ UNCHANGED <<releases, tagMoved, nextId, wire, answer, action, prestate>> /\ pc \in {"journal", "announce"}
      /\ pc = "journal" => stage = 1
  BY ReadFacts DEF Journal, OpenJournal, AnnounceIntent, hostVars, pageVars, ownVars, PlaceInRun
<1>1. \/ pc' = "hold"
      \/ pc = "journal" /\ pc' \in {"announce", "public"} /\ stage' = stage
      \/ pc = "announce" /\ pc' = "verified" /\ stage' = stage /\ stage = LastIntent /\ UNCHANGED disturbed
      \/ pc = "announce" /\ pc' = "look" /\ BeginLook
      \/ pc = "announce" /\ pc' = "send" /\ stage' = stage /\ UNCHANGED disturbed
  BY DEF Journal, OpenJournal, AnnounceIntent, IntentFails, Goto, NextStage
<1>2. IdsOwned' /\ OneWaited'
  BY <1>0 DEF ReadInv, IdsOwned, OneWaited
<1>3. SnapshotApproved'
  <2>1. PastFirstLook
    BY <1>0 DEF PastFirstLook
  <2> QED BY <1>0, <2>1 DEF ReadInv, SnapshotApproved, Approved, HoldsExactly
<1>4. FoundExpected'
  BY <1>0, <1>1 DEF FoundExpected, BeginLook, NoLook
<1>5. ASSUME ~disturbed' PROVE AsRead'
  <2>1. pc' = "look" => look'.at = "list"
    BY <1>0, <1>1 DEF BeginLook, NoLook
  <2>2. ASSUME action = "delete", stage' > 1, pc' \in {"announce", "send", "verified"} PROVE AsApproved(stage - 2) /\ stage' = stage
    <3>1. pc = "announce" /\ pc' \in {"verified", "send"} /\ stage' = stage /\ UNCHANGED disturbed
      <4>1. ~(1 > 1)
        OBVIOUS
      <4> QED BY <1>0, <1>1, <2>2, <4>1
    <3> QED BY <1>5, <2>2, <3>1 DEF ReadInv, AsRead
  <2>3. pc' # "post"
    BY <1>1
  <2> QED BY <1>0, <2>1, <2>2, <2>3, PageStays DEF AsRead
<1>6. (action' = "delete" /\ pc' = "verified") => stage' = Final
  BY <1>0, <1>1 DEF LastIntent
<1> QED
  BY <1>2, <1>3, <1>4, <1>5, <1>6 DEF ReadInv

(* A request is sent and waited for; a clear answer begins a readback.     *)
LEMMA SendReads == ASSUME IndInv, ReadInv, SendIntent \/ Confirmed PROVE ReadInv'
<1>0. /\ UNCHANGED <<releases, tagMoved, nextId, action, prestate>>
      /\ answer' = NoAnswer
      /\ \/ /\ pc = "send" /\ pc' = "wait" /\ wire' = wire \cup {IntentRequest}
            /\ UNCHANGED <<stage, disturbed>>
         \/ /\ pc = "wait" /\ answer.is = "ok" /\ pc' \in {"look", "post"} /\ wire' = wire /\ BeginLook
  BY DEF SendIntent, SendRequest, Dispatch, Confirmed, NextStage, Goto, pageVars, ownVars
<1>1. IdsOwned'
  BY <1>0 DEF ReadInv, IdsOwned
<1>2. OneWaited'
  <2>1. \A q \in wire : ~q.live
    BY <1>0 DEF ReadInv, OneWaited
  <2> QED BY <1>0, <2>1, Zenon DEF OneWaited, NoAnswer
<1>3. SnapshotApproved'
  <2>1. PastFirstLook
    BY <1>0 DEF PastFirstLook
  <2> QED BY <1>0, <2>1 DEF ReadInv, SnapshotApproved, Approved, HoldsExactly
<1>4. FoundExpected' /\ AsRead'
  BY <1>0 DEF FoundExpected, AsRead, BeginLook, NoLook
<1> QED
  BY <1>0, <1>1, <1>2, <1>3, <1>4 DEF ReadInv

(* The run is over; nobody waits for its request any more. *)
LEMMA StopReads == ASSUME IndInv, ReadInv, Unconfirmed \/ Stops PROVE ReadInv'
<1>0. /\ Abandon /\ pc' \in {"hold", "crashed"} /\ UNCHANGED <<releases, tagMoved, nextId>>
  BY DEF Unconfirmed, GiveUp, Stops, Crash, Goto, pageVars
<1>1. OneWaited'
  BY <1>0, NobodyWaits, ReadFacts
<1>2. IdsOwned' /\ SnapshotApproved' /\ FoundExpected' /\ AsRead'
  BY <1>0 DEF ReadInv, IdsOwned, SnapshotApproved, PastFirstLook, FoundExpected, AsRead
<1> QED
  BY <1>0, <1>1, <1>2 DEF ReadInv

(* What the host or other people change while a run reads, or later,       *)
(* disturbs it; what they do elsewhere does not touch it.                  *)
LEMMA OutsideReads ==
  ASSUME IndInv, ReadInv,
         \/ (HostStep \/ ForeignStep) /\ UNCHANGED <<runVars, ownVars>>
         \/ \E a \in Approvals : DispatchRun(a) /\ UNCHANGED <<hostVars, ownVars>>
         \/ UNCHANGED vars
  PROVE  ReadInv'
<1>0. UNCHANGED <<pc, stage, action, prestate, want, look>> /\ ExpectNames' = ExpectNames
  <2>1. UNCHANGED <<pc, stage, action, prestate, want>>
    BY DEF runVars, ownVars, DispatchRun, vars
  <2>2. UNCHANGED look
    BY HostSettles DEF ForeignStep, hostVars, vars
  <2> QED BY <2>1, <2>2 DEF ExpectNames
<1>1. SnapshotApproved' /\ FoundExpected'
  BY <1>0 DEF ReadInv, SnapshotApproved, PastFirstLook, Approved, FoundExpected, HoldsExactly
<1>2. CASE HostStep
  <2>1. PICK q \in wire : /\ wire' = wire \ {q} /\ disturbed' = (disturbed \/ ~q.live)
                         /\ (~q.live => answer' = answer)
    BY <1>2, HostSettles
  <2>2. IdsOwned'
    BY <1>2, ReadFacts, IdsStay DEF ReadInv
  <2>3. OneWaited'
    BY <1>0, <2>1 DEF ReadInv, OneWaited
  <2>4. ASSUME ~disturbed' PROVE AsRead'
    <3>1. pc' = "wait"
      BY <1>0, <2>1, <2>4 DEF ReadInv, OneWaited
    <3> QED BY <3>1 DEF AsRead
  <2> QED BY <1>0, <1>1, <2>2, <2>3, <2>4 DEF ReadInv
<1>3. CASE ForeignStep
  <2>1. disturbed' /\ UNCHANGED <<wire, answer>>
    BY <1>3 DEF ForeignStep
  <2>2. IdsOwned'
    BY <1>3, ReadFacts, IdsStay DEF ReadInv
  <2>3. OneWaited'
    BY <1>0, <2>1 DEF ReadInv, OneWaited
  <2> QED BY <1>0, <1>1, <2>1, <2>2, <2>3 DEF ReadInv
<1>4. CASE ~(HostStep \/ ForeignStep)
  <2>1. UNCHANGED <<releases, tagMoved, nextId, disturbed, wire, answer>>
    BY <1>4 DEF DispatchRun, hostVars, pageVars, vars
  <2>2. IdsOwned' /\ OneWaited'
    BY <1>0, <2>1 DEF ReadInv, IdsOwned, OneWaited
  <2>3. ~disturbed' => AsRead'
    BY <1>0, <2>1, PageStays DEF ReadInv, AsRead, Meta
  <2> QED BY <1>0, <1>1, <2>2, <2>3 DEF ReadInv
<1> QED
  BY <1>2, <1>3, <1>4

(* Every step keeps what was read true, or disturbs the readback. *)
LEMMA StepReads == IndInv /\ ReadInv /\ [Next]_vars => ReadInv'
<1> SUFFICES ASSUME IndInv, ReadInv, [Next]_vars PROVE ReadInv'
  OBVIOUS
<1>1. CASE RunStep
  BY <1>1, EarlyReads, PageReads, DoneReads, AnnounceReads, SendReads, StopReads, Zenon DEF RunStep
<1>2. CASE Environment
  BY <1>2, EarlyReads, OutsideReads, StopReads, Zenon DEF Environment
<1> QED
  BY <1>1, <1>2, OutsideReads, Zenon DEF Next

(* No run has begun on the page as it was published. *)
LEMMA InitReads == Init => ReadInv
<1> SUFFICES ASSUME Init PROVE ReadInv
  OBVIOUS
<1> DEFINE page == [id |-> Page, draft |-> FALSE, text |-> "planned", assets |-> OriginalAssets]
<1>1. releases = {page} /\ wire = {} /\ answer = NoAnswer /\ pc = "idle" /\ action = "reconcile"
  BY DEF Init, HostInit, RunInit
<1>2. page.id = Page /\ nextId > Page
  BY FirstId, Numbers DEF Page
<1> HIDE DEF page
<1>3. IdsOwned
  BY <1>1, <1>2 DEF IdsOwned
<1> QED BY <1>1, <1>3 DEF ReadInv, OneWaited, SnapshotApproved, FoundExpected, AsRead, NoAnswer

(* A deletion goes out on the page just read.                              *)
LEMMA SentAsRead ==
  ASSUME IndInv, ReadInv, [Next]_vars, NEW i \in 2..Final - 1, sent'[appr][i] # sent[appr][i], ~disturbed
  PROVE  AsApproved(i - 2)
<1>1. SendIntent
  <2>1. sent' # sent
    OBVIOUS
  <2> QED
    BY <2>1 DEF Next, RunStep, Environment, Gate, Inspect, ReadPage, LookDone, Journal, OpenJournal,
                PublicReadback, AnnounceIntent, WriteIntent, IntentFails, Confirmed, Unconfirmed, GiveUp,
                DispatchRun, Begin, StartRun, FreshRunner, Rerun, RerunAttempt, Again, Reinvoke, StepFails, Stops,
                Crash, vars, runVars, ledgerVars
<1>2. pc = "send" /\ sent' = [sent EXCEPT ![appr][stage] = @ + 1]
  BY <1>1 DEF SendIntent, SendRequest
<1>3. i = stage
  BY <1>2, Facts DEF RunTypeOK
<1>4. action = "delete" /\ stage > 1
  <2>1. i > 1
    BY Stages
  <2> QED BY <1>2, <1>3, <2>1, ReadFacts DEF PlaceInRun, Deletes
<1> QED BY <1>2, <1>3, <1>4 DEF ReadInv, AsRead

(* What is deleted is, asset by asset, what the approval named and the run *)
(* has just read back, and a deletion reported as done left the approved   *)
(* rest, for any number of assets, any split, any runs, late requests and  *)
(* foreign changes (publication_normalization.go: every deletion is        *)
(* preceded by an exact readback of what must be left).                    *)
THEOREM NormalizationDeletesApproved == Spec => DeletesWhatWasApproved
<1>1. IndInv /\ ReadInv => VerifiedIsNormalized
  <2> SUFFICES ASSUME IndInv, ReadInv, pc = "verified", action = "delete", ~disturbed
               PROVE Exactly(Page, FALSE, Keep) /\ AssetsOf(Page) \subseteq prestate
    BY DEF VerifiedIsNormalized
  <2>1. stage = Final /\ AsApproved(Final - 2)
    BY ReadFacts DEF ReadInv, AsRead
  <2>2. Remaining(Final - 2) = Keep
    <3>1. Gone(Final - 2) = Gone(Assets)
      <4>1. \A n \in Planned : n <= Retained + (Final - 2) /\ n <= Retained + Assets
        BY PlanNumbers
      <4> QED BY <4>1 DEF Gone
    <3> QED BY <3>1 DEF Keep, Remaining
  <2> QED BY <2>1, <2>2 DEF AsApproved
<1>2. IndInv /\ ReadInv /\ [Next]_vars =>
        [\A i \in 2..Final - 1 :
           (sent'[appr][i] # sent[appr][i] /\ ~disturbed)
             => /\ Exactly(Page, FALSE, Remaining(i - 2))
                /\ AssetsOf(Page) = {x \in prestate : x.name \notin Gone(i - 2)}]_vars
  BY SentAsRead DEF AsApproved
<1>3. Spec => [](IndInv /\ ReadInv)
  BY InitReads, StepReads, Invariance, PTL DEF Spec
<1> QED BY <1>1, <1>2, <1>3, PTL DEF Spec, DeletesWhatWasApproved, DeletesFromApprovedPage
=============================================================================
