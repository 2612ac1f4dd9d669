-------------------------- MODULE PublicationProofs --------------------------
(***************************************************************************)
(* Publication keeps the one-shot promise for any number of assets,        *)
(* approvals, dispatches, foreign changes and identifiers: the invariant   *)
(* IndInv of Publication is inductive, and from any state that satisfies   *)
(* it every step is a step of OneShotLedger or leaves the ledger alone.    *)
(* And while nobody else changes the page, the journals explain it; and    *)
(* nothing is sent or reported but on the page as it was read.             *)
(***************************************************************************)
EXTENDS Publication, OneShotProofs, FiniteSetTheorems

OwnTypeOK ==
  /\ mode \in {"create", "continue"} /\ target \in 0..MaxId /\ id \in 0..MaxId
  /\ bundle \in {"absent", "partial", "complete", "changed"}

(* The place of the last intent. *)
LEMMA Stages == Final = Assets + 3 /\ 1 \in Intents /\ Original \in Approvals
  BY PublicationAssumption, Numbers DEF Intents

(* A run that is over, or outside the steps that need a place, has no      *)
(* obligations.                                                            *)
LEMMA NoPlace == pc' \in Ended \/ (pc' \in {"gate", "prepare"} /\ stage' = 1) => PlaceInRun'
  BY DEF PlaceInRun, PastGate, PastJournal, Ended

(* A step inside a run that leaves history and ledger alone: what remains  *)
(* to be shown of it.                                                      *)
LEMMA QuietStep ==
  ASSUME IndInv, UNCHANGED <<historyVars, appr, attempt, ledgerVars>>, pc # "idle",
         pc' \in Ended \cup Working, stage' \in Intents, opened' \in BOOLEAN, opened => opened',
         HostTypeOK', OwnTypeOK', PlaceInRun'
  PROVE  IndInv' /\ LedgerStep
<1>1. RunTypeOK'
  BY Zenon DEF IndInv, TypeOK, RunTypeOK, historyVars, ledgerVars
<1>2. HistorySound'
  BY HistoryStays, Zenon DEF IndInv
<1>3. TypeOK'
  BY <1>1, Zenon DEF TypeOK, OwnTypeOK
<1> QED
  BY <1>2, <1>3, Zenon DEF IndInv, LedgerStep

(* What IndInv says of the run at hand, in the form the steps use it. *)
LEMMA Facts ==
  ASSUME IndInv
  PROVE  /\ HostTypeOK /\ RunTypeOK /\ OwnTypeOK /\ HistorySound /\ PlaceInRun
         /\ appr \in Approvals /\ stage \in Intents /\ stage \in Nat /\ stage > 0 /\ stage <= Final
         /\ opened \in BOOLEAN
         /\ \A a \in Approvals : dispatched[a] \in Nat /\ started[a] \in Nat /\ written[a] \in Nat
         /\ \A a \in Approvals : \A i \in Intents : sent[a][i] \in Nat
<1>1. HostTypeOK /\ RunTypeOK /\ OwnTypeOK /\ HistorySound /\ PlaceInRun
  BY Zenon DEF IndInv, TypeOK, OwnTypeOK
<1> QED
  BY <1>1, Numbers DEF RunTypeOK, Intents

(* Past the gate (checkAttempt): the first attempt of the only run. *)
LEMMA Admission == IndInv /\ Admitted /\ pc # "idle" => OnlyRun
  BY Facts DEF Admitted, FirstAttempt, OnlyDispatch, OnlyRun, HistorySound

-----------------------------------------------------------------------------
(* An empty page and an empty history satisfy the invariant, and the ledger *)
(* begins empty.                                                            *)
THEOREM InitInv == Init => IndInv /\ Ledger!LedgerInit
<1> SUFFICES ASSUME Init PROVE IndInv /\ Ledger!LedgerInit
  OBVIOUS
<1>1. nextId = 1
  <2>1. Cardinality({}) = 0
    BY FS_EmptySet
  <2>2. UNION {r.assets : r \in {}} = {}
    OBVIOUS
  <2> QED
    BY <2>1, <2>2 DEF Init, HostInit
<1>2. HostTypeOK
  <2>1. NoAnswer \in Answer /\ NoLook \in Look
    BY Numbers DEF NoAnswer, Answer, NoLook, Look
  <2>2. 1 \in 1..MaxId + 1 /\ 0 \in 0..MaxForeign
    BY Numbers
  <2> QED
    BY <1>1, <2>1, <2>2 DEF Init, HostInit, HostTypeOK, Answer
<1>3. RunTypeOK
  <2>1. 1 \in Intents /\ 1 \in 1..2 /\ 0 \in Nat /\ 0 \in 0..Final
    BY Stages, Numbers
  <2>2. pc \in Ended /\ appr \in Approvals /\ opened \in BOOLEAN
    BY DEF Init, RunInit, Ended
  <2>3. /\ dispatched \in [Approvals -> Nat] /\ started \in [Approvals -> Nat]
        /\ written \in [Approvals -> 0..Final] /\ sent \in [Approvals -> [Intents -> Nat]]
    BY <2>1 DEF Init, RunInit
  <2> QED
    BY <2>1, <2>2, <2>3 DEF Init, RunInit, RunTypeOK
<1>4. OwnTypeOK
  BY Numbers DEF Init, OwnTypeOK
<1>5. HistorySound
  BY Numbers DEF Init, RunInit, HistorySound
<1>6. PlaceInRun
  BY DEF Init, RunInit, PlaceInRun, PastGate, PastJournal
<1>7. Ledger!LedgerInit
  BY DEF Init, RunInit, Ledger!LedgerInit, Intents
<1> QED
  BY <1>2, <1>3, <1>4, <1>5, <1>6, <1>7, Zenon DEF IndInv, TypeOK, OwnTypeOK

(* The workflow and the runner before the journal. *)
LEMMA EarlySteps ==
  ASSUME IndInv, Gate \/ Fetch \/ Extract \/ Prepare \/ StepFails
  PROVE  IndInv' /\ LedgerStep
<1> USE Facts
<1>1. /\ UNCHANGED <<historyVars, appr, attempt, ledgerVars, stage, opened>>
      /\ pc \in {"gate", "fetch", "extract", "prepare", "public"}
  BY DEF Gate, Fetch, Extract, Prepare, StepFails, Goto
<1>2. HostTypeOK'
  <2>1. CASE Gate \/ Fetch \/ Extract \/ StepFails
    BY <2>1, HostStays, Zenon DEF Gate, Fetch, Extract, StepFails
  <2>2. CASE Prepare
    <3>1. UNCHANGED <<pageVars, foreign, wire, answer>> /\ (BeginLook \/ UNCHANGED <<look, disturbed>>)
      BY <2>2, Zenon DEF Prepare
    <3>2. look' \in Look /\ disturbed' \in BOOLEAN
      BY <3>1, LookTypes DEF BeginLook, HostTypeOK
    <3> QED
      BY <3>1, <3>2, LookMoves, Zenon
  <2> QED
    BY <2>1, <2>2
<1>3. OwnTypeOK'
  BY DEF OwnTypeOK, ownVars, Gate, Fetch, Extract, Prepare, StepFails
<1>4. pc' \in {"fetch", "extract", "prepare", "look", "hold"}
  BY DEF Gate, Fetch, Extract, Prepare, StepFails, Goto
<1>5. PlaceInRun'
  <2>1. CASE pc' = "hold"
    BY <2>1, NoPlace DEF Ended
  <2>2. CASE pc' = "prepare"
    <3>1. stage' = 1
      BY <1>1, <2>2 DEF Gate, Fetch, Extract, Prepare, StepFails, Goto, PlaceInRun
    <3> QED
      BY <2>2, <3>1, NoPlace
  <2>3. CASE pc' \in {"fetch", "extract", "look"}
    <3>1. stage = 1
      BY <2>3 DEF Gate, Fetch, Extract, Prepare, StepFails, Goto, PlaceInRun
    <3>2. OnlyRun
      BY <2>3, Admission DEF Gate, Fetch, Extract, Prepare, StepFails, Goto, PlaceInRun, PastGate, Ready
    <3>3. OnlyRun'
      BY <1>1, <3>2 DEF OnlyRun, historyVars
    <3> QED
      BY <1>1, <2>3, <3>1, <3>3 DEF PlaceInRun, PastJournal
  <2> QED
    BY <1>4, <2>1, <2>2, <2>3
<1> QED
  BY <1>1, <1>2, <1>3, <1>4, <1>5, QuietStep DEF Ended, Working

(* A readback, its end, and the journal. *)
LEMMA ReadingSteps ==
  ASSUME IndInv, ReadPage \/ LookDone \/ Journal
  PROVE  IndInv' /\ LedgerStep
<1> USE Facts
<1>1. /\ UNCHANGED <<historyVars, appr, attempt, ledgerVars, stage>>
      /\ pc \in {"look", "relook", "journal"} /\ UNCHANGED ownVars
  BY DEF ReadPage, LookDone, Journal, OpenJournal, Goto, runVars
<1>2. HostTypeOK'
  <2>1. CASE ReadPage
    <3>1. look' \in Look
      <4>1. \/ ReadList \/ ReadFails \/ ReadDirect(id, ExpectDraft) \/ ReadAssets(id, ExpectNames)
            \/ look' = Refused \/ look' = [look EXCEPT !.at = "done"]
        BY <2>1, Zenon DEF ReadPage
      <4> QED
        BY <4>1, LookTypes
    <3> QED
      BY <2>1, <3>1, LookMoves, Zenon DEF ReadPage, HostTypeOK
  <2>2. CASE LookDone
    BY <2>2, LookTypes, LookMoves, Zenon DEF LookDone, HostTypeOK
  <2>3. CASE Journal
    BY <2>3, HostStays, Zenon DEF Journal
  <2> QED
    BY <2>1, <2>2, <2>3
<1>3. OwnTypeOK'
  BY <1>1 DEF OwnTypeOK, ownVars
<1>4. opened' \in BOOLEAN /\ (opened => opened') /\ pc' \in Ended \cup Working
  <2>1. CASE ReadPage
    BY <2>1 DEF ReadPage, runVars, RunTypeOK
  <2>2. CASE LookDone
    <3>1. opened' = opened
      BY <2>2 DEF LookDone
    <3>2. pc' \in {AfterLook, "hold"}
      BY <2>2, Zenon DEF LookDone, Goto
    <3> QED
      BY <3>1, <3>2 DEF AfterLook, Ended, Working
  <2>3. CASE Journal
    BY <2>3 DEF Journal, OpenJournal, Goto, Ended, Working
  <2> QED
    BY <2>1, <2>2, <2>3
<1>5. PlaceInRun'
  <2>1. CASE pc' = "hold"
    BY <2>1, NoPlace DEF Ended
  <2>2. OnlyRun /\ OnlyRun'
    <3>1. OnlyRun
      BY <1>1 DEF PlaceInRun, PastGate
    <3> QED
      BY <1>1, <3>1 DEF OnlyRun, historyVars
  <2>3. CASE ReadPage
    BY <2>2, <2>3 DEF ReadPage, runVars, historyVars, ledgerVars, PlaceInRun, PastGate, PastJournal
  <2>4. CASE LookDone /\ pc' # "hold"
    <3>1. pc' = AfterLook /\ UNCHANGED <<opened, written, sent>>
      BY <2>4 DEF LookDone, Goto, ledgerVars
    <3>2. stage > 1 => opened /\ written[appr] = stage - 1
      BY <1>1, <2>4 DEF LookDone, PlaceInRun, PastJournal
    <3>3. pc = "relook" => stage = Final
      BY DEF PlaceInRun
    <3> QED
      BY <1>1, <2>2, <3>1, <3>2, <3>3, Stages, Numbers DEF AfterLook, PlaceInRun, PastGate, PastJournal
  <2>5. CASE Journal /\ pc' # "hold"
    <3>1. pc = "journal" /\ pc' = "announce" /\ opened' /\ ~opened /\ UNCHANGED <<written, sent, stage>>
      BY <2>5 DEF Journal, OpenJournal, Goto, ledgerVars
    <3>2. stage = 1 /\ written[appr] = 0
      BY <2>2, <3>1 DEF PlaceInRun, HistorySound, OnlyRun
    <3> QED
      BY <1>1, <2>2, <3>1, <3>2 DEF PlaceInRun, PastGate, PastJournal
  <2> QED
    BY <2>1, <2>3, <2>4, <2>5
<1> QED
  BY <1>1, <1>2, <1>3, <1>4, <1>5, QuietStep

(* An intent is written: the step "Announce" of the promise, if the record *)
(* got out at all.                                                         *)
LEMMA AnnounceSteps ==
  ASSUME IndInv, AnnounceIntent
  PROVE  IndInv' /\ LedgerStep
<1> USE Facts
<1>1. /\ pc = "announce" /\ UNCHANGED <<historyVars, appr, attempt, opened>> /\ UNCHANGED ownVars
      /\ UNCHANGED <<pageVars, foreign, wire, answer>> /\ (BeginLook \/ UNCHANGED <<look, disturbed>>)
  BY DEF AnnounceIntent, IntentFails, Goto, NextStage
<1>2. OnlyRun /\ opened /\ opened' /\ written[appr] = stage - 1
  BY <1>1 DEF PlaceInRun, PastGate, PastJournal
<1>3. HostTypeOK'
  <2>1. look' \in Look /\ disturbed' \in BOOLEAN
    BY <1>1, LookTypes DEF BeginLook, HostTypeOK
  <2> QED
    BY <1>1, <2>1, LookMoves, Zenon
<1>4. OwnTypeOK'
  BY <1>1 DEF OwnTypeOK, ownVars
<1>5. OnlyRun'
  BY <1>1, <1>2 DEF OnlyRun, historyVars
<1>6. \/ UNCHANGED ledgerVars /\ pc' = "hold" /\ stage' = stage
      \/ /\ WriteIntent
         /\ \/ pc' \in {"verified", "hold"} /\ stage' = stage
            \/ pc' = "look" /\ stage = 1 /\ stage' = 2
            \/ pc' = "send" /\ stage # Final /\ stage' = stage
  BY DEF AnnounceIntent, IntentFails, Goto, NextStage
<1>7. CASE UNCHANGED ledgerVars /\ pc' = "hold" /\ stage' = stage
  BY <1>1, <1>3, <1>4, <1>7, NoPlace, QuietStep DEF Ended
<1>8. CASE WriteIntent /\ pc' # "announce" /\ stage' \in Intents
  <2>1. /\ HistorySound' /\ written' \in [Approvals -> 0..Final] /\ written'[appr] = stage
        /\ Ledger!Announce(appr)
    BY <1>1, <1>2, <1>8, IntentWritten
  <2>2. RunTypeOK'
    BY <1>1, <1>6, <1>8, <2>1 DEF RunTypeOK, WriteIntent, historyVars, Ended, Working
  <2>3. PlaceInRun'
    <3>1. CASE pc' \in {"verified", "hold"}
      BY <3>1, NoPlace DEF Ended
    <3>2. CASE pc' = "look" /\ stage' = 2
      <4>1. stage = 1 /\ appr' = appr /\ written'[appr'] = stage' - 1
        BY <1>1, <1>6, <2>1, <3>2
      <4> QED
        BY <1>2, <1>5, <3>2, <4>1 DEF PlaceInRun, PastGate, PastJournal
    <3>3. CASE pc' = "send" /\ stage # Final /\ stage' = stage
      <4>1. sent'[appr'][stage'] = 0
        BY <1>1, <1>2, <1>8, <3>3 DEF HistorySound, WriteIntent
      <4>2. written'[appr'] = stage' /\ stage' < Final
        BY <1>1, <2>1, <3>3, Numbers
      <4> QED
        BY <1>2, <1>5, <3>3, <4>1, <4>2 DEF PlaceInRun, PastGate, PastJournal
    <3> QED
      BY <1>1, <1>6, <1>8, <3>1, <3>2, <3>3
  <2> QED
    BY <1>3, <1>4, <2>1, <2>2, <2>3, Zenon DEF IndInv, TypeOK, OwnTypeOK, LedgerStep
<1>9. stage' \in Intents
  BY <1>6, Stages, Numbers DEF Intents
<1> QED
  BY <1>6, <1>7, <1>8, <1>9

(* The request is sent: the step "Send" of the promise. *)
LEMMA SendSteps ==
  ASSUME IndInv, SendIntent
  PROVE  IndInv' /\ LedgerStep
<1> USE Facts
<1>1. /\ pc = "send" /\ pc' = "wait" /\ UNCHANGED <<historyVars, appr, attempt, stage, opened, written>>
      /\ UNCHANGED <<pageVars, foreign, look, disturbed>> /\ UNCHANGED ownVars /\ Dispatch(IntentRequest)
  BY DEF SendIntent, SendRequest, Goto
<1>2. OnlyRun /\ opened /\ written[appr] = stage /\ stage < Final /\ sent[appr][stage] = 0
  BY <1>1 DEF PlaceInRun, PastGate, PastJournal
<1>3. /\ HistorySound' /\ sent' \in [Approvals -> [Intents -> Nat]]
      /\ Ledger!Send(appr)
  BY <1>2, RequestSent DEF SendIntent
<1>4. IntentRequest \in Request
  <2>1. id \in 0..MaxId /\ 0 \in 0..MaxId /\ 0 \in 0..Alien /\ stage - 1 \in 0..Alien
    BY <1>2, Stages, Numbers DEF OwnTypeOK, Alien
  <2>2. Content(stage - 1) \in {"exact", "other"}
    BY DEF Content
  <2> QED
    BY <2>1, <2>2 DEF IntentRequest, Request
<1>5. HostTypeOK'
  BY <1>1, <1>4, DispatchTypes, WireMoves DEF HostTypeOK
<1>6. OwnTypeOK'
  BY <1>1 DEF OwnTypeOK, ownVars
<1>7. RunTypeOK'
  BY <1>1, <1>3 DEF RunTypeOK, historyVars, Ended, Working
<1>8. PlaceInRun'
  BY <1>1, <1>2 DEF PlaceInRun, PastGate, PastJournal, OnlyRun, historyVars
<1> QED
  BY <1>3, <1>5, <1>6, <1>7, <1>8, Zenon DEF IndInv, TypeOK, OwnTypeOK, LedgerStep

(* The answer, the end without one, and the public download. *)
LEMMA LateSteps ==
  ASSUME IndInv, Confirmed \/ Unconfirmed \/ PublicDownload \/ Stops
  PROVE  IndInv' /\ LedgerStep
<1> USE Facts
<1>1. /\ UNCHANGED <<historyVars, appr, attempt, ledgerVars, opened>> /\ pc # "idle"
      /\ UNCHANGED <<pageVars, foreign, mode, target, bundle>>
  BY DEF Confirmed, Unconfirmed, PublicDownload, Stops, GiveUp, Crash, NextStage, Goto, ownVars, Working
<1>2. CASE Confirmed
  <2>1. pc = "wait" /\ stage' = stage + 1 /\ pc' = "look" /\ BeginLook /\ answer' = NoAnswer /\ wire' = wire
    BY <1>2, Zenon DEF Confirmed, NextStage, Goto
  <2>2. OnlyRun /\ opened /\ written[appr] = stage /\ stage < Final
    BY <2>1 DEF PlaceInRun, PastGate, PastJournal
  <2>3. HostTypeOK'
    <3>1. look' \in Look
      BY <2>1, LookTypes
    <3>2. disturbed' \in BOOLEAN
      BY <2>1 DEF BeginLook
    <3>3. NoAnswer \in Answer
      BY Numbers DEF NoAnswer, Answer
    <3> QED
      BY <1>1, <2>1, <3>1, <3>2, <3>3, Zenon DEF HostTypeOK, Answer, pageVars
  <2>4. OwnTypeOK'
    BY <1>1, <1>2 DEF OwnTypeOK, Confirmed, HostTypeOK
  <2>5. PlaceInRun'
    BY <1>1, <2>1, <2>2 DEF PlaceInRun, PastGate, PastJournal, OnlyRun, historyVars, ledgerVars
  <2>6. stage' \in Intents
    BY <2>1, <2>2, Numbers DEF Intents
  <2> QED
    BY <1>1, <2>1, <2>3, <2>4, <2>5, <2>6, QuietStep DEF Working
<1>3. CASE Unconfirmed \/ Stops
  <2>1. /\ Abandon /\ pc' \in {"hold", "crashed"} /\ (look' = NoLook \/ look' = look)
        /\ UNCHANGED <<disturbed, stage>> /\ UNCHANGED ownVars
    BY <1>3 DEF Unconfirmed, Stops, GiveUp, Crash, Goto
  <2>2. HostTypeOK'
    <3>1. look' \in Look
      BY <2>1, LookTypes DEF HostTypeOK
    <3> QED
      BY <1>1, <2>1, <3>1, AbandonTypes, WireMoves
  <2>3. OwnTypeOK'
    BY <2>1 DEF OwnTypeOK, ownVars
  <2>4. PlaceInRun'
    BY <2>1, NoPlace DEF Ended
  <2> QED
    BY <1>1, <2>1, <2>2, <2>3, <2>4, QuietStep DEF Ended
<1>4. CASE PublicDownload
  <2>1. /\ pc = "public" /\ pc' \in {"relook", "hold"} /\ UNCHANGED <<stage, wire, answer>> /\ UNCHANGED ownVars
        /\ BeginLook \/ UNCHANGED <<look, disturbed>>
    BY <1>4 DEF PublicDownload, Goto
  <2>2. HostTypeOK'
    <3>1. look' \in Look /\ disturbed' \in BOOLEAN
      BY <2>1, LookTypes DEF BeginLook, HostTypeOK
    <3> QED
      BY <1>1, <2>1, <3>1, LookMoves
  <2>3. OwnTypeOK'
    BY <2>1 DEF OwnTypeOK, ownVars
  <2>4. PlaceInRun'
    BY <1>1, <2>1 DEF PlaceInRun, PastGate, PastJournal, OnlyRun, historyVars, ledgerVars
  <2> QED
    BY <1>1, <2>1, <2>2, <2>3, <2>4, QuietStep DEF Ended, Working
<1> QED
  BY <1>2, <1>3, <1>4

(* Runs begin, again and anew, the host moves, and so do other people. *)
LEMMA OutsideSteps ==
  ASSUME IndInv,
         \/ (HostStep \/ ForeignStep) /\ UNCHANGED <<runVars, ownVars>>
         \/ \E a \in Approvals : DispatchRun(a) /\ UNCHANGED <<hostVars, ownVars>>
         \/ \E a \in Approvals, m \in {"create", "continue"}, t \in {0} \cup {r.id : r \in releases} :
              Begin(a, m, t)
         \/ Rerun \/ Again \/ Tamper
  PROVE  IndInv' /\ LedgerStep
<1> USE Facts
<1>1. CASE ((HostStep \/ ForeignStep) /\ UNCHANGED <<runVars, ownVars>>) \/ Tamper
  <2>1. UNCHANGED runVars
    BY <1>1 DEF Tamper
  <2>2. HostTypeOK'
    BY <1>1, HostStepTypes, ForeignStepTypes, Numbers DEF Tamper, HostTypeOK, pageVars
  <2>3. OwnTypeOK'
    BY <1>1 DEF Tamper, OwnTypeOK, ownVars
  <2>4. RunTypeOK'
    BY <2>1, Zenon DEF RunTypeOK, runVars, historyVars, ledgerVars
  <2>5. HistorySound'
    BY <2>1, HistoryStays, Zenon DEF runVars
  <2>6. PlaceInRun'
    BY <2>1, Zenon DEF PlaceInRun, PastGate, PastJournal, OnlyRun, runVars, historyVars, ledgerVars
  <2> QED
    BY <2>1, <2>2, <2>3, <2>4, <2>5, <2>6, Zenon DEF IndInv, TypeOK, OwnTypeOK, LedgerStep, runVars
<1>2. ASSUME NEW a \in Approvals, DispatchRun(a), UNCHANGED <<hostVars, ownVars>>
      PROVE  IndInv' /\ LedgerStep
  <2>1. RunTypeOK' /\ HistorySound'
    BY <1>2, HistoryGrows
  <2>2. HostTypeOK' /\ OwnTypeOK'
    BY <1>2, HostStays, Zenon DEF OwnTypeOK, ownVars
  <2>3. UNCHANGED <<started, pc, appr, attempt, stage, opened, ledgerVars>>
    BY <1>2 DEF DispatchRun
  <2>4. PlaceInRun'
    BY <2>3, Zenon DEF PlaceInRun, PastGate, PastJournal, OnlyRun, ledgerVars
  <2> QED
    BY <2>1, <2>2, <2>3, <2>4, Zenon DEF IndInv, TypeOK, OwnTypeOK, LedgerStep
<1>3. CASE \E a \in Approvals, m \in {"create", "continue"}, t \in {0} \cup {r.id : r \in releases} :
              Begin(a, m, t)
  <2>1. PICK a \in Approvals, m \in {"create", "continue"}, t \in {0} \cup {r.id : r \in releases} :
          Begin(a, m, t)
    BY <1>3
  <2>2. RunTypeOK' /\ HistorySound'
    BY <2>1, HistoryGrows DEF Begin
  <2>3. UNCHANGED ledgerVars /\ pc' = "gate" /\ stage' = 1 /\ UNCHANGED hostVars
    BY <2>1 DEF Begin, StartRun, FreshRunner
  <2>4. OwnTypeOK'
    <3>1. 0 \in 0..MaxId /\ \A r \in releases : r.id \in 0..MaxId
      BY Numbers DEF HostTypeOK, Release
    <3> QED
      BY <2>1, <3>1 DEF Begin, OwnTypeOK
  <2> QED
    BY <2>2, <2>3, <2>4, HostStays, NoPlace, Zenon DEF IndInv, TypeOK, OwnTypeOK, LedgerStep
<1>4. CASE Rerun
  <2>1. RunTypeOK' /\ HistorySound'
    BY <1>4, HistoryGrows, Stages DEF Rerun
  <2>2. UNCHANGED ledgerVars /\ pc' = "gate" /\ stage' = 1 /\ UNCHANGED hostVars
    BY <1>4 DEF Rerun, RerunAttempt, FreshRunner
  <2>3. OwnTypeOK'
    BY <1>4, Numbers DEF Rerun, OwnTypeOK
  <2> QED
    BY <2>1, <2>2, <2>3, HostStays, NoPlace, Zenon DEF IndInv, TypeOK, OwnTypeOK, LedgerStep
<1>5. CASE Again
  <2>1. /\ UNCHANGED <<historyVars, appr, attempt, opened, ledgerVars>> /\ pc = "crashed" /\ UNCHANGED hostVars
        /\ pc' \in {"gate", "prepare"} /\ stage' = 1
    BY <1>5 DEF Again, Reinvoke
  <2>2. OwnTypeOK'
    BY <1>5, Numbers DEF Again, OwnTypeOK
  <2> QED
    BY <2>1, <2>2, HostStays, NoPlace, Stages, QuietStep DEF Working
<1> QED
  BY <1>1, <1>2, <1>3, <1>4, <1>5

-----------------------------------------------------------------------------
(* Every step keeps the invariant and is a step of the promise or none.    *)
THEOREM StepInv == IndInv /\ [Next]_vars => IndInv' /\ [\E a \in Approvals : Ledger!Announce(a) \/ Ledger!Send(a)]_ledgerVars
<1> SUFFICES ASSUME IndInv, [Next]_vars PROVE IndInv' /\ LedgerStep
  BY Zenon DEF LedgerStep
<1>1. CASE RunStep
  BY <1>1, EarlySteps, ReadingSteps, AnnounceSteps, SendSteps, LateSteps, Zenon DEF RunStep
<1>2. CASE Environment
  BY <1>2, EarlySteps, LateSteps, OutsideSteps, Zenon DEF Environment
<1>3. CASE UNCHANGED vars
  <2>1. HostTypeOK' /\ OwnTypeOK'
    BY <1>3, Facts, HostStays, Zenon DEF vars, OwnTypeOK, ownVars
  <2>2. RunTypeOK'
    BY <1>3, Facts, Zenon DEF vars, RunTypeOK, runVars, historyVars, ledgerVars
  <2>3. HistorySound'
    BY <1>3, Facts, HistoryStays, Zenon DEF vars, runVars
  <2>4. PlaceInRun'
    BY <1>3, Facts, Zenon DEF vars, PlaceInRun, PastGate, PastJournal, OnlyRun, runVars, historyVars, ledgerVars
  <2>5. UNCHANGED ledgerVars
    BY <1>3 DEF vars, runVars
  <2> QED
    BY <2>1, <2>2, <2>3, <2>4, <2>5, Zenon DEF IndInv, TypeOK, OwnTypeOK, LedgerStep
<1> QED
  BY <1>1, <1>2, <1>3, Zenon DEF Next

(* The types hold, and every run is where its journal says it is. *)
THEOREM Invariance == Spec => []IndInv
  BY InitInv, StepInv, PTL DEF Spec

(* No crash, re-run, second dispatch or late answer makes a publication    *)
(* send a request twice, without its intent, or for an older intent.       *)
THEOREM PublicationOneShot == Spec => ImplementsLedger
<1>1. Init => Ledger!LedgerInit
  BY InitInv
<1>2. IndInv /\ [Next]_vars =>
        [\E a \in Approvals : Ledger!Announce(a) \/ Ledger!Send(a)]_(Ledger!ledgerVars)
  BY StepInv DEF Ledger!ledgerVars, ledgerVars
<1> QED
  BY <1>1, <1>2, Invariance, PTL DEF Spec, ImplementsLedger, Ledger!LedgerSpec

-----------------------------------------------------------------------------
(* The journals explain the page: the inductive invariant behind           *)
(* JournalExplainsPage.  An intent took effect when the page shows its     *)
(* request done; what is on the page, and what is still on the wire, was   *)
(* announced; a live request is the one the run waits for, and a clear     *)
(* answer to it means that it landed; past a confirmation the intent       *)
(* before the run's stage took effect.  The evidence of a run that has     *)
(* passed its second gate is whole, so what it sends is exact, and a       *)
(* continued release is on the page.                                       *)
TookEffect(i) ==
  /\ i = 1 => releases # {}
  /\ i \in 2..Assets + 1 => UploadedExactly(i - 1)
  /\ i = Publishing => \E r \in releases : ~r.draft
Announced(i) == \E a \in Approvals : written[a] >= i
PageAnnounced ==
  \A r \in releases : /\ Announced(1) /\ (~r.draft => Announced(Publishing))
                      /\ \A x \in r.assets : Announced(x.name + 1)
WireAnnounced ==
  \A q \in wire : \/ q.act = "create" /\ Announced(1)
                  \/ q.act = "upload" /\ Announced(q.name + 1)
                  \/ q.act = "publish" /\ Announced(Publishing)
LiveIsWaitedFor == \A q \in wire : q.live => pc = "wait" /\ q = IntentRequest
OkMeansLanded ==
  answer.is = "ok" => pc = "wait" /\ TookEffect(stage) /\ \A q \in wire : ~q.live
PastTookEffect == \A a \in Approvals : \A i \in 1..written[a] - 1 : TookEffect(i)
StageFollows == (PastJournal /\ pc \notin {"send", "wait"} /\ stage > 1) => TookEffect(stage - 1)
EvidenceWhole ==
  pc \in {"look", "journal", "announce", "send", "wait", "public", "relook"} => bundle = "complete"
ContinuesRelease == mode = "continue" => releases # {}

ExplainInv ==
  /\ PageAnnounced /\ WireAnnounced /\ LiveIsWaitedFor /\ OkMeansLanded
  /\ PastTookEffect /\ StageFollows /\ EvidenceWhole /\ ContinuesRelease
Explained == foreign = 0 => ExplainInv

(* The types IndInv gives to what these steps read. *)
LEMMA PageTypes ==
  ASSUME IndInv
  PROVE  /\ releases \in SUBSET Release /\ wire \in SUBSET Request /\ foreign \in Nat
         /\ stage \in Nat /\ stage > 0 /\ stage <= Final /\ appr \in Approvals
         /\ written \in [Approvals -> 0..Final] /\ PlaceInRun /\ Assets \in Nat \ {0}
  BY Facts, Numbers DEF HostTypeOK, RunTypeOK

(* An effect stays as long as the page only grows. *)
PageGrows ==
  \A r \in releases : \E s \in releases' : r.assets \subseteq s.assets /\ (~r.draft => ~s.draft)
LEMMA EffectStays == ASSUME PageGrows PROVE \A i \in Nat : TookEffect(i) => TookEffect(i)'
<1> SUFFICES ASSUME NEW i \in Nat, TookEffect(i) PROVE TookEffect(i)'
  OBVIOUS
<1>1. i = 1 => releases' # {}
  BY DEF TookEffect, PageGrows
<1>2. ASSUME i \in 2..Assets + 1 PROVE UploadedExactly(i - 1)'
  <2>1. PICK r \in releases : \E x \in r.assets : x.name = i - 1 /\ x.kind = "exact"
    BY <1>2 DEF TookEffect, UploadedExactly
  <2>2. PICK s \in releases' : r.assets \subseteq s.assets
    BY DEF PageGrows
  <2> QED BY <2>1, <2>2 DEF UploadedExactly
<1>3. ASSUME i = Publishing PROVE \E r \in releases' : ~r.draft
  BY <1>3 DEF TookEffect, PageGrows
<1> QED BY <1>1, <1>2, <1>3 DEF TookEffect, Publishing

(* What was announced stays announced while the journals only grow. *)
JournalsGrow == \A a \in Approvals : written'[a] >= written[a]
LEMMA AnnouncedStays ==
  ASSUME IndInv, IndInv', JournalsGrow PROVE \A i \in Nat : Announced(i) => Announced(i)'
<1> SUFFICES ASSUME NEW i \in Nat, NEW a \in Approvals, written[a] >= i PROVE written'[a] >= i
  BY DEF Announced
<1>1. written[a] \in Nat /\ written'[a] \in Nat /\ written'[a] >= written[a]
  BY PageTypes, Facts, Numbers DEF JournalsGrow, IndInv, TypeOK, RunTypeOK
<1> QED BY <1>1

(* A step that leaves the page alone keeps it announced. *)
LEMMA PageStays ==
  ASSUME IndInv, IndInv', PageAnnounced, JournalsGrow, releases' = releases
  PROVE  PageAnnounced' /\ \A i \in Nat : TookEffect(i) => TookEffect(i)'
<1>1. PageGrows
  BY DEF PageGrows
<1>2. Publishing \in Nat /\ \A r \in releases : \A x \in r.assets : x.name + 1 \in Nat
  BY PageTypes, Numbers DEF Release, Asset, Publishing, Alien
<1>3. 1 \in Nat /\ \A i \in Nat : Announced(i) => Announced(i)'
  BY AnnouncedStays
<1>4. \A r \in releases' : /\ Announced(1)' /\ (~r.draft => Announced(Publishing)')
                           /\ \A x \in r.assets : Announced(x.name + 1)'
  BY <1>2, <1>3 DEF PageAnnounced, Publishing
<1> QED BY <1>1, <1>4, EffectStays DEF PageAnnounced

(* Nor does a step that adds nothing to the wire disturb it. *)
LEMMA WireStays ==
  ASSUME IndInv, IndInv', WireAnnounced, JournalsGrow, wire' \subseteq wire \/ Abandon
  PROVE  WireAnnounced'
<1> SUFFICES ASSUME NEW q \in wire'
             PROVE \/ q.act = "create" /\ Announced(1)'
                   \/ q.act = "upload" /\ Announced(q.name + 1)'
                   \/ q.act = "publish" /\ Announced(Publishing)'
  BY DEF WireAnnounced
<1>1. PICK p \in wire : p.act = q.act /\ p.name = q.name
  <2>1. CASE wire' \subseteq wire
    BY <2>1
  <2>2. CASE Abandon
    <3>1. PICK p \in wire : q = [p EXCEPT !.live = FALSE]
      BY <2>2 DEF Abandon
    <3>2. p \in Request
      BY PageTypes
    <3> QED BY <3>1, <3>2 DEF Request
  <2> QED BY <2>1, <2>2
<1>2. Publishing \in Nat /\ 1 \in Nat /\ p.name + 1 \in Nat
  BY PageTypes, Numbers DEF Request, Publishing, Alien
<1>3. \A i \in Nat : Announced(i) => Announced(i)'
  BY AnnouncedStays
<1> QED BY <1>1, <1>2, <1>3 DEF WireAnnounced, Publishing

(* A step of a run that waits for nothing, and touches neither the page    *)
(* nor a journal.                                                          *)
LEMMA QuietExplained ==
  ASSUME IndInv, IndInv', ExplainInv, pc # "wait", pc' # "wait",
         UNCHANGED <<releases, wire, answer, written>>, stage' = stage \/ stage' = 1,
         EvidenceWhole', ContinuesRelease',
         (pc' \in {"look", "announce", "public", "relook"} /\ stage' > 1)
           => pc \in {"look", "announce", "public", "relook"}
  PROVE  ExplainInv'
<1>1. JournalsGrow
  BY PageTypes, Numbers DEF JournalsGrow
<1>2. PageAnnounced' /\ WireAnnounced' /\ \A i \in Nat : TookEffect(i) => TookEffect(i)'
  BY <1>1, PageStays, WireStays DEF ExplainInv
<1>3. LiveIsWaitedFor'
  BY DEF ExplainInv, LiveIsWaitedFor
<1>4. OkMeansLanded'
  BY DEF ExplainInv, OkMeansLanded
<1>5. PastTookEffect'
  BY <1>2, PageTypes, Numbers DEF ExplainInv, PastTookEffect
<1>6. StageFollows'
  <2> SUFFICES ASSUME PastJournal', pc' \notin {"send", "wait"}, stage' > 1 PROVE TookEffect(stage - 1)' /\ stage' = stage
    BY DEF StageFollows
  <2>1. stage' = stage /\ stage - 1 \in Nat
    BY PageTypes, Numbers
  <2>2. TookEffect(stage - 1)
    BY <2>1 DEF ExplainInv, StageFollows, PastJournal
  <2> QED BY <1>2, <2>1, <2>2
<1> QED BY <1>2, <1>3, <1>4, <1>5, <1>6 DEF ExplainInv

(* The workflow, the readbacks and the journal's opening. *)
LEMMA EarlyExplained ==
  ASSUME IndInv, IndInv', ExplainInv,
         Gate \/ Fetch \/ Extract \/ Prepare \/ StepFails \/ ReadPage \/ LookDone \/ Journal \/ PublicDownload
  PROVE  ExplainInv'
<1>1. /\ pc \in {"gate", "fetch", "extract", "prepare", "look", "relook", "journal", "public"}
      /\ UNCHANGED <<releases, wire, answer, written, stage, mode>>
  BY DEF Gate, Fetch, Extract, Prepare, StepFails, ReadPage, LookDone, Journal, PublicDownload,
         OpenJournal, Goto, hostVars, pageVars, runVars, ownVars, ledgerVars
<1>2. /\ pc' # "wait"
      /\ pc' \in {"look", "announce", "public", "relook"} =>
           \/ pc \in {"look", "announce", "public", "relook"}
           \/ pc \in {"prepare", "journal"}
  BY DEF Gate, Fetch, Extract, Prepare, StepFails, ReadPage, LookDone, Journal, PublicDownload,
         OpenJournal, Goto, runVars, AfterLook
<1>3. pc \in {"prepare", "journal"} => stage = 1
  BY PageTypes DEF PlaceInRun
<1>4. EvidenceWhole'
  <2>1. CASE Prepare
    BY <2>1 DEF Prepare, Ready, Goto, EvidenceWhole
  <2>2. CASE Gate \/ Fetch \/ Extract \/ StepFails
    BY <2>2 DEF Gate, Fetch, Extract, StepFails, Goto, EvidenceWhole
  <2>3. CASE ReadPage \/ LookDone \/ Journal \/ PublicDownload
    <3>1. bundle' = bundle /\ pc \in {"look", "relook", "journal", "public"}
      BY <2>3 DEF ReadPage, LookDone, Journal, PublicDownload, OpenJournal, ownVars
    <3> QED BY <3>1 DEF ExplainInv, EvidenceWhole
  <2> QED BY <2>1, <2>2, <2>3
<1>5. ContinuesRelease'
  BY <1>1 DEF ExplainInv, ContinuesRelease
<1> QED BY <1>1, <1>2, <1>3, <1>4, <1>5, QuietExplained, Numbers

(* A run begins, or begins again. *)
LEMMA BeginExplained ==
  ASSUME IndInv, IndInv', ExplainInv,
         \/ \E a \in Approvals, m \in {"create", "continue"}, t \in {0} \cup {r.id : r \in releases} :
              Begin(a, m, t)
         \/ Rerun \/ Again
  PROVE  ExplainInv'
<1>1. /\ pc \in Ended /\ pc' \in {"gate", "prepare"} /\ stage' = 1
      /\ UNCHANGED <<releases, wire, answer, written>>
  BY DEF Begin, StartRun, Rerun, RerunAttempt, FreshRunner, Again, Reinvoke, Ended, hostVars, pageVars, ledgerVars
<1>2. EvidenceWhole' /\ pc # "wait" /\ pc' \notin {"wait", "look", "announce", "public", "relook"}
  BY <1>1 DEF EvidenceWhole, Ended
<1>3. ContinuesRelease'
  <2>1. CASE Rerun \/ Again
    BY <1>1, <2>1 DEF Rerun, Again, ExplainInv, ContinuesRelease
  <2>2. ASSUME NEW a \in Approvals, NEW m \in {"create", "continue"},
               NEW t \in {0} \cup {r.id : r \in releases}, Begin(a, m, t)
        PROVE  ContinuesRelease'
    BY <1>1, <2>2 DEF Begin, ContinuesRelease
  <2> QED BY <2>1, <2>2
<1> QED BY <1>1, <1>2, <1>3, QuietExplained

(* An intent is journaled: the one before it took effect. *)
LEMMA AnnounceExplained ==
  ASSUME IndInv, IndInv', ExplainInv, AnnounceIntent PROVE ExplainInv'
<1>1. /\ pc = "announce" /\ UNCHANGED <<releases, wire, answer, appr, mode, bundle>>
      /\ written' = written \/ WriteIntent
  BY DEF AnnounceIntent, IntentFails, Goto, NextStage, pageVars, ownVars, ledgerVars
<1>2. written[appr] = stage - 1
  BY <1>1, PageTypes DEF PlaceInRun, PastJournal
<1>3. JournalsGrow
  BY <1>1, <1>2, PageTypes, Numbers DEF JournalsGrow, WriteIntent
<1>4. PageAnnounced' /\ WireAnnounced' /\ \A i \in Nat : TookEffect(i) => TookEffect(i)'
  BY <1>1, <1>3, PageStays, WireStays DEF ExplainInv
<1>5. LiveIsWaitedFor' /\ OkMeansLanded'
  BY <1>1 DEF ExplainInv, LiveIsWaitedFor, OkMeansLanded
<1>6. stage > 1 => TookEffect(stage - 1)
  BY <1>1, Numbers DEF ExplainInv, StageFollows, PastJournal
<1>7. PastTookEffect'
  <2> SUFFICES ASSUME NEW a \in Approvals, NEW i \in 1..written'[a] - 1 PROVE TookEffect(i)'
    BY DEF PastTookEffect
  <2>0. written[a] \in Nat /\ written[appr] \in Nat /\ stage \in Nat /\ stage > 0
    BY PageTypes, Numbers
  <2>1. i \in Nat
    BY <1>1, <2>0, PageTypes DEF WriteIntent
  <2>2. CASE i \in 1..written[a] - 1
    BY <1>4, <2>1, <2>2 DEF ExplainInv, PastTookEffect
  <2>3. CASE i \notin 1..written[a] - 1
    <3>1. a = appr /\ written'[a] = stage
      BY <1>1, <2>3, PageTypes DEF WriteIntent
    <3>2. i = stage - 1 /\ stage > 1
      BY <1>2, <2>0, <2>1, <2>3, <3>1
    <3> QED BY <1>4, <1>6, <2>1, <3>2
  <2> QED BY <2>2, <2>3
<1>8. /\ stage' = stage \/ (stage' = 2 /\ mode = "continue")
      /\ pc' \in {"verified", "hold", "send", "look"} /\ (pc' = "look" => stage' = 2 /\ mode = "continue")
  BY Numbers DEF AnnounceIntent, IntentFails, Goto, NextStage
<1>9. StageFollows'
  <2> SUFFICES ASSUME pc' = "look" PROVE TookEffect(stage - 1)'
    BY <1>8 DEF StageFollows, PastJournal
  <2>1. stage' = 2 /\ releases' # {}
    BY <1>1, <1>8 DEF ExplainInv, ContinuesRelease
  <2>2. stage' - 1 = 1 /\ 1 \notin 2..Assets + 1 /\ 1 # Assets + 2
    BY <2>1, PageTypes
  <2> QED BY <2>1, <2>2 DEF TookEffect, Publishing
<1>10. EvidenceWhole' /\ ContinuesRelease'
  BY <1>1 DEF ExplainInv, EvidenceWhole, ContinuesRelease
<1> QED BY <1>4, <1>5, <1>7, <1>9, <1>10 DEF ExplainInv

(* What a run asks for at each stage. *)
LEMMA RequestActs ==
  ASSUME IndInv
  PROVE  /\ stage = 1 => IntentRequest.act = "create"
         /\ stage = Publishing => stage # 1 /\ IntentRequest.act = "publish"
         /\ (stage # 1 /\ stage # Publishing)
              => /\ IntentRequest.act = "upload" /\ IntentRequest.name = stage - 1
                 /\ IntentRequest.kind = Content(stage - 1)
<1>1. Publishing # 1
  BY PageTypes DEF Publishing
<1>2. CASE stage = 1
  BY <1>1, <1>2 DEF IntentRequest
<1>3. CASE stage = Publishing
  BY <1>1, <1>3 DEF IntentRequest
<1>4. CASE stage # 1 /\ stage # Publishing
  <2> DEFINE e == [act |-> "upload", rel |-> id, name |-> stage - 1, kind |-> Content(stage - 1), live |-> TRUE]
  <2>1. IntentRequest = e
    BY <1>4 DEF IntentRequest
  <2>2. e.act = "upload" /\ e.name = stage - 1 /\ e.kind = Content(stage - 1)
    OBVIOUS
  <2> QED BY <1>4, <2>1, <2>2
<1> QED BY <1>1, <1>2, <1>3, <1>4

(* The request goes out: it is the announced one, and the bytes are exact. *)
LEMMA SendExplained ==
  ASSUME IndInv, IndInv', ExplainInv, SendIntent PROVE ExplainInv'
<1>1. /\ pc = "send" /\ pc' = "wait" /\ wire' = wire \cup {IntentRequest} /\ answer' = NoAnswer
      /\ UNCHANGED <<releases, written, appr, stage, mode, id, target, bundle>>
  BY DEF SendIntent, SendRequest, Dispatch, Goto, pageVars, ownVars
<1>2. written[appr] = stage /\ stage < Final
  BY <1>1, PageTypes DEF PlaceInRun
<1>3. JournalsGrow /\ \A i \in Nat : Announced(i) => Announced(i)'
  <2>1. JournalsGrow
    BY <1>1, PageTypes, Numbers DEF JournalsGrow
  <2> QED BY <2>1, AnnouncedStays
<1>4. PageAnnounced' /\ \A i \in Nat : TookEffect(i) => TookEffect(i)'
  BY <1>1, <1>3, PageStays DEF ExplainInv
<1>5. WireAnnounced'
  <2> SUFFICES ASSUME NEW q \in wire'
               PROVE \/ q.act = "create" /\ Announced(1)'
                     \/ q.act = "upload" /\ Announced(q.name + 1)'
                     \/ q.act = "publish" /\ Announced(Publishing)'
    BY DEF WireAnnounced
  <2>1. Announced(stage)'
    <3>1. appr \in Approvals /\ written'[appr] >= stage'
      BY <1>1, <1>2, PageTypes, Numbers
    <3> QED BY <1>1, <3>1 DEF Announced
  <2>2. CASE q = IntentRequest
    <3>1. CASE stage = 1
      <4>1. q.act = "create"
        BY <2>2, <3>1, RequestActs
      <4> QED BY <1>1, <2>1, <3>1, <4>1
    <3>2. CASE stage = Publishing
      <4>1. q.act = "publish"
        BY <2>2, <3>2, RequestActs
      <4> QED BY <1>1, <2>1, <3>2, <4>1 DEF Publishing
    <3>3. CASE stage # 1 /\ stage # Publishing
      <4>1. q.act = "upload" /\ q.name = stage - 1
        BY <2>2, <3>3, RequestActs
      <4>2. q.name + 1 = stage
        BY <4>1, PageTypes
      <4> QED BY <1>1, <2>1, <4>1, <4>2
    <3> QED BY <3>1, <3>2, <3>3
  <2>3. CASE q \in wire
    <3>1. Publishing \in Nat /\ 1 \in Nat /\ q.name + 1 \in Nat
      BY <2>3, PageTypes, Numbers DEF Request, Publishing, Alien
    <3> QED BY <1>3, <2>3, <3>1 DEF ExplainInv, WireAnnounced, Publishing
  <2> QED BY <1>1, <2>2, <2>3
<1>6. LiveIsWaitedFor' /\ OkMeansLanded'
  <2>1. \A q \in wire : ~q.live
    BY <1>1 DEF ExplainInv, LiveIsWaitedFor
  <2>2. IntentRequest' = IntentRequest
    BY <1>1 DEF IntentRequest, Content, Publishing
  <2>3. LiveIsWaitedFor'
    BY <1>1, <2>1, <2>2 DEF LiveIsWaitedFor
  <2> QED BY <1>1, <2>3 DEF OkMeansLanded, NoAnswer
<1>7. PastTookEffect'
  BY <1>1, <1>4, PageTypes, Numbers DEF ExplainInv, PastTookEffect
<1>8. StageFollows' /\ EvidenceWhole' /\ ContinuesRelease'
  BY <1>1 DEF ExplainInv, StageFollows, EvidenceWhole, ContinuesRelease
<1> QED BY <1>4, <1>5, <1>6, <1>7, <1>8 DEF ExplainInv

(* A clear answer: its intent took effect, and the run goes on from it. *)
LEMMA ConfirmedExplained ==
  ASSUME IndInv, IndInv', ExplainInv, Confirmed PROVE ExplainInv'
<1>1. /\ pc = "wait" /\ pc' = "look" /\ answer.is = "ok" /\ answer' = NoAnswer /\ stage' = stage + 1
      /\ UNCHANGED <<releases, written, wire, mode, bundle>>
  BY DEF Confirmed, NextStage, Goto, pageVars, ledgerVars
<1>2. JournalsGrow
  BY <1>1, PageTypes, Numbers DEF JournalsGrow
<1>3. PageAnnounced' /\ WireAnnounced' /\ \A i \in Nat : TookEffect(i) => TookEffect(i)'
  BY <1>1, <1>2, PageStays, WireStays DEF ExplainInv
<1>4. PastTookEffect'
  BY <1>1, <1>3, PageTypes, Numbers DEF ExplainInv, PastTookEffect
<1>5. LiveIsWaitedFor' /\ OkMeansLanded'
  BY <1>1 DEF ExplainInv, LiveIsWaitedFor, OkMeansLanded, NoAnswer
<1>6. StageFollows'
  <2>1. stage' - 1 = stage /\ stage \in Nat
    BY <1>1, PageTypes
  <2>2. TookEffect(stage)
    BY <1>1 DEF ExplainInv, OkMeansLanded
  <2>3. TookEffect(stage - 1)'
    BY <1>1, <1>3, <2>1, <2>2 DEF TookEffect, UploadedExactly
  <2> QED BY <2>3 DEF StageFollows
<1>7. EvidenceWhole' /\ ContinuesRelease'
  BY <1>1 DEF ExplainInv, EvidenceWhole, ContinuesRelease
<1> QED BY <1>3, <1>4, <1>5, <1>6, <1>7 DEF ExplainInv

(* The run stops waiting: its request is on its own from now on. *)
LEMMA StopExplained ==
  ASSUME IndInv, IndInv', ExplainInv, Unconfirmed \/ Stops PROVE ExplainInv'
<1>1. /\ Abandon /\ pc' \in {"hold", "crashed"}
      /\ UNCHANGED <<releases, written, mode>>
  BY DEF Unconfirmed, GiveUp, Stops, Crash, Goto, pageVars, ownVars, ledgerVars
<1>2. JournalsGrow
  BY <1>1, PageTypes, Numbers DEF JournalsGrow
<1>3. PageAnnounced' /\ WireAnnounced' /\ \A i \in Nat : TookEffect(i) => TookEffect(i)'
  BY <1>1, <1>2, PageStays, WireStays DEF ExplainInv
<1>4. PastTookEffect'
  BY <1>1, <1>3, PageTypes, Numbers DEF ExplainInv, PastTookEffect
<1>5. LiveIsWaitedFor' /\ OkMeansLanded'
  <2>1. ASSUME NEW q \in wire' PROVE ~q.live
    <3>1. PICK p \in wire : q = [p EXCEPT !.live = FALSE]
      BY <1>1 DEF Abandon
    <3>2. p \in Request
      BY PageTypes
    <3> QED BY <3>1, <3>2 DEF Request
  <2>2. answer'.is # "ok"
    BY <1>1 DEF Abandon, NoAnswer
  <2> QED BY <2>1, <2>2 DEF LiveIsWaitedFor, OkMeansLanded
<1>6. StageFollows' /\ EvidenceWhole' /\ ContinuesRelease'
  BY <1>1 DEF ExplainInv, StageFollows, PastJournal, EvidenceWhole, ContinuesRelease
<1> QED BY <1>3, <1>4, <1>5, <1>6 DEF ExplainInv

(* What a request of the run, live or late, does to the page when it lands: *)
(* the page grows by what was announced, and if the client is still there   *)
(* and hears "ok", its intent took effect.                                  *)
Landed(q) ==
  /\ PageGrows /\ PageAnnounced'
  /\ (answer'.is = "ok" /\ q.live) => TookEffect(stage)'

(* A draft is created: *)
LEMMA CreateLands ==
  ASSUME IndInv, IndInv', ExplainInv, UNCHANGED <<runVars, ownVars>>, NEW q \in wire, LandCreate(q)
  PROVE  Landed(q)
<1> DEFINE new == [id |-> nextId, draft |-> TRUE, text |-> "planned", assets |-> {}]
<1>1. releases' = releases \cup {new} /\ q.act = "create" /\ written' = written /\ stage' = stage
  BY DEF LandCreate, Settle, runVars, ledgerVars
<1>2. Announced(1) /\ new.draft /\ new.assets = {}
  BY <1>1 DEF ExplainInv, WireAnnounced
<1> HIDE DEF new
<1>3. PageGrows
  BY <1>1 DEF PageGrows
<1>4. PageAnnounced'
  BY <1>1, <1>2 DEF ExplainInv, PageAnnounced, Announced, Publishing
<1>5. q.live => TookEffect(stage)'
  <2> SUFFICES ASSUME q.live PROVE TookEffect(stage)'
    OBVIOUS
  <2>1. q = IntentRequest
    BY DEF ExplainInv, LiveIsWaitedFor
  <2>2. stage = 1
    BY <1>1, <2>1 DEF IntentRequest
  <2>3. 1 \notin 2..Assets + 1 /\ 1 # Assets + 2 /\ releases' # {}
    BY <1>1, PageTypes
  <2> QED BY <1>1, <2>2, <2>3 DEF TookEffect, Publishing
<1> QED BY <1>3, <1>4, <1>5 DEF Landed

(* an asset arrives, whole or, with a refusal, in part: *)
LEMMA UploadLands ==
  ASSUME IndInv, IndInv', ExplainInv, UNCHANGED <<runVars, ownVars>>, NEW q \in wire, LandUpload(q)
  PROVE  Landed(q)
<1>1. PICK kind, reply : StoreAsset(q, kind, reply) /\ (reply = "ok" => kind = q.kind)
  BY DEF LandUpload
<1>2. PICK r \in WithId(q.rel) :
        Settle(q, (releases \ {r}) \cup
                    {[r EXCEPT !.assets = @ \cup {[id |-> nextId, name |-> q.name, kind |-> kind]}]},
               1, [is |-> reply, id |-> q.rel])
  BY <1>1 DEF StoreAsset
<1> DEFINE x == [id |-> nextId, name |-> q.name, kind |-> kind]
           s == [r EXCEPT !.assets = @ \cup {x}]
<1>3. /\ releases' = (releases \ {r}) \cup {s} /\ q.act = "upload" /\ written' = written /\ stage' = stage
      /\ q.live => answer' = [is |-> reply, id |-> q.rel]
      /\ UNCHANGED <<appr, pc, bundle>>
  BY <1>2 DEF LandUpload, Settle, runVars, ledgerVars, ownVars
<1>4. r \in releases /\ s.assets = r.assets \cup {x} /\ s.draft = r.draft
  <2>1. r \in releases /\ r \in Release
    BY <1>2, PageTypes DEF WithId
  <2> QED BY <2>1 DEF Release
<1>5. x.name = q.name /\ x.kind = kind
  OBVIOUS
<1> HIDE DEF x, s
<1>6. PageGrows
  BY <1>3, <1>4 DEF PageGrows
<1>7. PageAnnounced'
  <2>1. Announced(q.name + 1)
    BY <1>3 DEF ExplainInv, WireAnnounced
  <2>2. /\ Announced(1) /\ (~s.draft => Announced(Publishing))
        /\ \A y \in s.assets : Announced(y.name + 1)
    BY <1>4, <1>5, <2>1 DEF ExplainInv, PageAnnounced
  <2>3. \A t \in releases' : /\ Announced(1) /\ (~t.draft => Announced(Publishing))
                             /\ \A y \in t.assets : Announced(y.name + 1)
    BY <1>3, <2>2 DEF ExplainInv, PageAnnounced
  <2> QED BY <1>3, <2>3 DEF PageAnnounced, Announced, Publishing
<1>8. (answer'.is = "ok" /\ q.live) => TookEffect(stage)'
  <2> SUFFICES ASSUME answer'.is = "ok", q.live PROVE TookEffect(stage)'
    OBVIOUS
  <2>1. kind = q.kind
    BY <1>1, <1>3
  <2>2. q = IntentRequest /\ bundle = "complete"
    BY DEF ExplainInv, LiveIsWaitedFor, EvidenceWhole
  <2>3. stage # 1 /\ stage # Publishing /\ q.name = stage - 1 /\ q.kind = "exact"
    BY <1>3, <2>2 DEF IntentRequest, Content
  <2>4. stage' # 1 /\ stage' # Publishing'
    BY <1>3, <2>3 DEF Publishing
  <2>5. UploadedExactly(stage - 1)'
    BY <1>3, <1>4, <1>5, <2>1, <2>3 DEF UploadedExactly
  <2> QED BY <2>4, <2>5 DEF TookEffect
<1> QED BY <1>6, <1>7, <1>8 DEF Landed

(* the draft is made public. *)
LEMMA PublishLands ==
  ASSUME IndInv, IndInv', ExplainInv, UNCHANGED <<runVars, ownVars>>, NEW q \in wire, LandPublish(q)
  PROVE  Landed(q)
<1>1. PICK r \in WithId(q.rel) :
        Settle(q, (releases \ {r}) \cup {[r EXCEPT !.draft = FALSE, !.text = "planned"]},
               0, [is |-> "ok", id |-> q.rel])
  BY DEF LandPublish
<1> DEFINE s == [r EXCEPT !.draft = FALSE, !.text = "planned"]
<1>2. releases' = (releases \ {r}) \cup {s} /\ q.act = "publish" /\ written' = written /\ stage' = stage
  BY <1>1 DEF LandPublish, Settle, runVars, ledgerVars
<1>3. r \in releases /\ s.assets = r.assets /\ ~s.draft
  <2>1. r \in releases /\ r \in Release
    BY <1>1, PageTypes DEF WithId
  <2> QED BY <2>1 DEF Release
<1> HIDE DEF s
<1>4. PageGrows
  BY <1>2, <1>3 DEF PageGrows
<1>5. PageAnnounced'
  <2>1. Announced(Publishing)
    BY <1>2 DEF ExplainInv, WireAnnounced
  <2>2. \A t \in releases' : /\ Announced(1) /\ (~t.draft => Announced(Publishing))
                             /\ \A y \in t.assets : Announced(y.name + 1)
    BY <1>2, <1>3, <2>1 DEF ExplainInv, PageAnnounced
  <2> QED BY <1>2, <2>2 DEF PageAnnounced, Announced, Publishing
<1>6. q.live => TookEffect(stage)'
  <2> SUFFICES ASSUME q.live PROVE TookEffect(stage)'
    OBVIOUS
  <2>1. q = IntentRequest
    BY DEF ExplainInv, LiveIsWaitedFor
  <2>2. stage # 1 /\ stage = Publishing
    BY <1>2, <2>1, RequestActs
  <2>3. Assets + 2 \notin 2..Assets + 1 /\ stage' = Assets + 2 /\ stage' # 1
    BY <1>2, <2>2, PageTypes DEF Publishing
  <2> QED BY <1>2, <1>3, <2>3 DEF TookEffect, Publishing
<1> QED BY <1>4, <1>5, <1>6 DEF Landed

(* A step of the host. *)
LEMMA HostExplained ==
  ASSUME IndInv, IndInv', ExplainInv, HostStep, UNCHANGED <<runVars, ownVars>> PROVE ExplainInv'
<1>1. PICK q \in wire : LandCreate(q) \/ LandUpload(q) \/ LandPublish(q) \/ LandDelete(q) \/ Refuse(q)
  BY DEF HostStep
<1>2. /\ UNCHANGED <<written, pc, stage, mode, id, target, bundle, appr>>
      /\ wire' = wire \ {q} /\ (~q.live => answer' = answer)
  <2>1. UNCHANGED <<written, pc, stage, mode, id, target, bundle, appr>>
    BY DEF runVars, ledgerVars, ownVars
  <2> QED BY <1>1, <2>1 DEF LandCreate, LandUpload, StoreAsset, LandPublish, LandDelete, Refuse, Settle
<1>3. Landed(q)
  <2>1. ~LandDelete(q)
    BY DEF LandDelete, ExplainInv, WireAnnounced
  <2>2. CASE Refuse(q)
    <3>1. releases' = releases /\ (q.live => answer'.is # "ok")
      BY <2>2 DEF Refuse, Settle
    <3>2. PageGrows
      BY <3>1 DEF PageGrows
    <3>3. PageAnnounced'
      BY <1>2, <3>1 DEF ExplainInv, PageAnnounced, Announced, Publishing
    <3> QED BY <3>1, <3>2, <3>3 DEF Landed
  <2> QED BY <1>1, <2>1, <2>2, CreateLands, UploadLands, PublishLands
<1>4. PageAnnounced' /\ \A i \in Nat : TookEffect(i) => TookEffect(i)'
  BY <1>3, EffectStays DEF Landed
<1>5. JournalsGrow
  BY <1>2, PageTypes, Numbers DEF JournalsGrow
<1>6. WireAnnounced'
  BY <1>2, <1>5, WireStays DEF ExplainInv
<1>7. IntentRequest' = IntentRequest
  BY <1>2 DEF IntentRequest, Content, Publishing
<1>8. LiveIsWaitedFor'
  BY <1>2, <1>7 DEF ExplainInv, LiveIsWaitedFor
<1>9. OkMeansLanded'
  <2> SUFFICES ASSUME answer'.is = "ok"
               PROVE pc' = "wait" /\ TookEffect(stage)' /\ \A p \in wire' : ~p.live
    BY DEF OkMeansLanded
  <2>1. CASE q.live
    BY <1>2, <1>3, <2>1 DEF Landed, ExplainInv, LiveIsWaitedFor
  <2>2. CASE ~q.live
    <3>1. pc = "wait" /\ TookEffect(stage) /\ \A p \in wire : ~p.live
      BY <1>2, <2>2 DEF ExplainInv, OkMeansLanded
    <3>2. TookEffect(stage)'
      BY <1>2, <1>4, <3>1, PageTypes
    <3> QED BY <1>2, <3>1, <3>2
  <2> QED BY <2>1, <2>2
<1>10. PastTookEffect'
  BY <1>2, <1>4, PageTypes, Numbers DEF ExplainInv, PastTookEffect
<1>11. StageFollows'
  <2> SUFFICES ASSUME PastJournal', pc' \notin {"send", "wait"}, stage' > 1 PROVE TookEffect(stage - 1)'
    BY DEF StageFollows
  <2>1. stage - 1 \in Nat
    BY <1>2, PageTypes
  <2>2. TookEffect(stage - 1)
    <3>1. PastJournal
      BY <1>2 DEF PastJournal
    <3> QED BY <1>2, <3>1 DEF ExplainInv, StageFollows
  <2> QED BY <1>2, <1>4, <2>1, <2>2
<1>12. EvidenceWhole' /\ ContinuesRelease'
  <2>1. releases # {} => releases' # {}
    BY <1>3 DEF Landed, PageGrows
  <2> QED BY <1>2, <2>1 DEF ExplainInv, EvidenceWhole, ContinuesRelease
<1> QED BY <1>4, <1>6, <1>8, <1>9, <1>10, <1>11, <1>12 DEF ExplainInv

(* A step that leaves the page, the journals and the run alone. *)
LEMMA SameExplained ==
  ASSUME ExplainInv, UNCHANGED <<releases, wire, answer, written, pc, stage, appr, id, target, mode, bundle>>
  PROVE  ExplainInv'
  BY DEF ExplainInv, PageAnnounced, WireAnnounced, LiveIsWaitedFor, OkMeansLanded, PastTookEffect, StageFollows,
         EvidenceWhole, ContinuesRelease, Announced, TookEffect, UploadedExactly, IntentRequest, Content,
         PastJournal, Publishing

(* Nothing happens that the journals do not explain, *)
LEMMA ExplainedStep == IndInv /\ IndInv' /\ Explained /\ [Next]_vars => Explained'
<1> SUFFICES ASSUME IndInv, IndInv', Explained, [Next]_vars, foreign' = 0 PROVE ExplainInv'
  BY DEF Explained
<1>1. ~Tamper /\ ~ForeignStep
  BY PageTypes DEF Tamper, ForeignStep
<1>2. ExplainInv
  <2>1. foreign' = foreign
    <3>1. CASE Next
      <4>1. CASE RunStep
        BY <4>1 DEF RunStep, Gate, Fetch, Extract, Prepare, ReadPage, LookDone, Journal, AnnounceIntent,
                    SendIntent, SendRequest, Confirmed, Unconfirmed, GiveUp, PublicDownload, hostVars
      <4>2. CASE Environment
        BY <1>1, <4>2 DEF Environment, HostStep, LandCreate, LandUpload, StoreAsset, LandPublish, LandDelete,
                    Refuse, Settle, Begin, Rerun, Again, StepFails, Stops, Crash, hostVars
      <4> QED BY <3>1, <4>1, <4>2 DEF Next
    <3> QED BY <3>1 DEF vars, hostVars
  <2> QED BY <2>1 DEF Explained
<1>3. CASE RunStep
  BY <1>2, <1>3, EarlyExplained, AnnounceExplained, SendExplained, ConfirmedExplained, StopExplained DEF RunStep
<1>4. CASE Environment
  <2>1. CASE HostStep /\ UNCHANGED <<runVars, ownVars>>
    BY <1>2, <2>1, HostExplained
  <2>2. ASSUME NEW a \in Approvals, DispatchRun(a), UNCHANGED <<hostVars, ownVars>> PROVE ExplainInv'
    <3>1. UNCHANGED <<releases, wire, answer, written, pc, stage, appr, id, target, mode, bundle>>
      BY <2>2 DEF DispatchRun, hostVars, pageVars, ownVars, ledgerVars
    <3> QED BY <1>2, <3>1, SameExplained
  <2> QED BY <1>1, <1>2, <1>4, <2>1, <2>2, BeginExplained, EarlyExplained, StopExplained DEF Environment
<1>5. CASE UNCHANGED vars
  <2>1. UNCHANGED <<releases, wire, answer, written, pc, stage, appr, id, target, mode, bundle>>
    BY <1>5 DEF vars, hostVars, pageVars, runVars, ownVars, ledgerVars
  <2> QED BY <1>2, <2>1, SameExplained
<1> QED BY <1>3, <1>4, <1>5 DEF Next

(* and an empty page needs no explanation. *)
LEMMA ExplainedInit == Init => Explained
<1> SUFFICES ASSUME Init PROVE ExplainInv
  BY DEF Explained
<1>1. /\ releases = {} /\ wire = {} /\ answer.is = "none" /\ pc = "idle" /\ mode = "create"
      /\ \A a \in Approvals : written[a] = 0
  BY DEF Init, HostInit, RunInit, NoAnswer
<1>2. \A a \in Approvals : 1..written[a] - 1 = {}
  BY <1>1
<1> QED BY <1>1, <1>2 DEF ExplainInv, PageAnnounced, WireAnnounced, LiveIsWaitedFor, OkMeansLanded,
             PastTookEffect, StageFollows, PastJournal, EvidenceWhole, ContinuesRelease

(* With nobody else at the page, an intent that another one follows took   *)
(* effect, and the page holds nothing that no journal announced: whoever   *)
(* settles a held run can do so by reading.                                *)
THEOREM PublicationExplained == Spec => []JournalExplainsPage
<1>1. Explained => JournalExplainsPage
  BY DEF Explained, ExplainInv, PastTookEffect, TookEffect, PageAnnounced, Announced, JournalExplainsPage
<1>2. Init => Explained
  BY ExplainedInit
<1>3. IndInv /\ IndInv' /\ Explained /\ [Next]_vars => Explained'
  BY ExplainedStep
<1> QED BY <1>1, <1>2, <1>3, Invariance, PTL DEF Spec

-----------------------------------------------------------------------------
(* What a run does rests on the page as it was read: the inductive         *)
(* invariant behind ActsOnWhatItRead.  Only a request that somebody waits  *)
(* for may land without disturbing a readback, there is one at most, and   *)
(* nobody reads while he waits; past its first intent a run is bound to a  *)
(* release; and what the readback has compared so far is so on the page,   *)
(* and stays so until the request it was made for is sent, or the run has  *)
(* ended.                                                                  *)
LiveWaits == OneWaited /\ \A q \in wire : (q.live /\ stage = 1) => q.act = "create"
BoundRelease ==
  /\ mode = "continue" => target # 0
  /\ (pc \in {"look", "journal", "announce", "send"} /\ stage = 1) => id = target
  /\ (pc \in {"look", "announce", "send", "wait", "public", "relook"} /\ stage > 1) => id # 0
  /\ (pc = "wait" /\ stage = 1 /\ answer.is = "ok") => answer.id # 0
  /\ pc = "verified" => stage = Final
AsRead ==
  /\ (pc \in {"look", "relook"} /\ id # 0) =>
       /\ look.at \in {"direct", "assets", "done"} => ~tagMoved
       /\ look.at = "assets" =>
            \E r \in releases : Meta(r) = [id |-> id, draft |-> ExpectDraft, text |-> "planned"]
       /\ look.at = "done" => Exactly(id, ExpectDraft, ExpectNames)
  /\ (pc \in {"announce", "send", "verified"} /\ stage > 1) => Exactly(id, ExpectDraft, ExpectNames)
ReadInv == IdsOwned /\ LiveWaits /\ BoundRelease /\ (~disturbed => AsRead)

(* The page a run compares is the same after a step that changes neither   *)
(* the page nor what the run expects of it.                                *)
LEMMA ExactlyStays ==
  ASSUME UNCHANGED <<releases, tagMoved, id, stage>>
  PROVE  Exactly(id, ExpectDraft, ExpectNames)' <=> Exactly(id, ExpectDraft, ExpectNames)
  BY DEF Exactly, Meta, HoldsExactly, ExpectDraft, ExpectNames

(* The types and the place these steps read. *)
LEMMA ReadFacts ==
  ASSUME IndInv
  PROVE  /\ stage \in Nat /\ stage > 0 /\ PlaceInRun /\ Final = Assets + 3 /\ Assets \in Nat /\ Assets > 0
         /\ look \in Look /\ releases \in SUBSET Release /\ HostTypeOK /\ wire \in SUBSET Request
  BY Facts, Stages, Numbers DEF HostTypeOK

(* Steps of a run that has not begun to read, or begins to.                *)
LEMMA EarlyReads ==
  ASSUME IndInv, ReadInv,
         \/ Gate \/ Fetch \/ Extract \/ Prepare \/ StepFails \/ Rerun \/ Again \/ PublicDownload
         \/ \E a \in Approvals, m \in {"create", "continue"}, t \in {0} \cup {r.id : r \in releases} :
              Begin(a, m, t)
  PROVE  ReadInv'
<1>1. /\ UNCHANGED <<releases, tagMoved, nextId, wire, answer>>
      /\ pc \in {"gate", "fetch", "extract", "prepare", "public"} \cup Ended
      /\ pc' \in {"gate", "fetch", "extract", "prepare", "hold", "look", "relook"}
      /\ stage' = stage \/ stage' = 1
  BY DEF Gate, Fetch, Extract, Prepare, StepFails, Rerun, RerunAttempt, Again, Reinvoke, PublicDownload, Begin,
         StartRun, FreshRunner, Goto, hostVars, pageVars, Ended
<1>2. pc' \in {"look", "relook"} => BeginLook /\ stage' = stage
  BY DEF Gate, Fetch, Extract, Prepare, StepFails, Rerun, RerunAttempt, Again, Reinvoke, PublicDownload, Begin,
         StartRun, FreshRunner, Goto
<1>3. IdsOwned'
  BY <1>1 DEF ReadInv, IdsOwned
<1>4. LiveWaits'
  BY <1>1 DEF ReadInv, LiveWaits, OneWaited, Ended
<1>5. BoundRelease'
  <2>1. mode' = "continue" => target' # 0
    <3>1. CASE \E a \in Approvals, m \in {"create", "continue"}, t \in {0} \cup {r.id : r \in releases} :
                 Begin(a, m, t)
      BY <3>1 DEF Begin
    <3>2. CASE UNCHANGED <<mode, target>>
      BY <3>2 DEF ReadInv, BoundRelease
    <3> QED BY <3>1, <3>2 DEF Gate, Fetch, Extract, Prepare, StepFails, Rerun, Again, PublicDownload, ownVars
  <2>2. pc' = "look" => Prepare
    BY DEF Gate, Fetch, Extract, StepFails, Rerun, RerunAttempt, Again, Reinvoke, PublicDownload, Begin,
           StartRun, FreshRunner, Goto
  <2>3. Prepare => stage' = 1 /\ (pc' = "look" => id' = target')
    BY ReadFacts DEF Prepare, Goto, PlaceInRun
  <2>4. pc' = "relook" => PublicDownload /\ pc = "public" /\ id' = id /\ stage' = stage
    BY DEF Gate, Fetch, Extract, Prepare, StepFails, Rerun, RerunAttempt, Again, Reinvoke, PublicDownload, Begin,
           StartRun, FreshRunner, Goto, ownVars
  <2> QED BY <1>1, <2>1, <2>2, <2>3, <2>4 DEF ReadInv, BoundRelease
<1>6. AsRead'
  BY <1>1, <1>2, ReadFacts DEF AsRead, BeginLook, NoLook
<1> QED
  BY <1>3, <1>4, <1>5, <1>6 DEF ReadInv

(* One call of the readback: what it compares is on the page.              *)
LEMMA PageReads == ASSUME IndInv, ReadInv, ReadPage PROVE ReadInv'
<1>0. /\ UNCHANGED <<releases, tagMoved, nextId, wire, answer, disturbed, pc, stage, mode, target, id>>
      /\ pc \in {"look", "relook"}
  BY DEF ReadPage, pageVars, runVars, ownVars
<1>1. IdsOwned' /\ LiveWaits' /\ BoundRelease'
  BY <1>0 DEF ReadInv, IdsOwned, LiveWaits, OneWaited, BoundRelease
<1>2. ASSUME ~disturbed PROVE AsRead'
  <2> SUFFICES ASSUME id # 0
               PROVE /\ look'.at \in {"direct", "assets", "done"} => ~tagMoved
                     /\ look'.at = "assets" =>
                          \E r \in releases : Meta(r) = [id |-> id, draft |-> ExpectDraft, text |-> "planned"]
                     /\ look'.at = "done" => Exactly(id, ExpectDraft, ExpectNames)
    BY <1>0, ExactlyStays DEF AsRead, Meta, ExpectDraft
  <2>1. /\ look.at \in {"direct", "assets", "done"} => ~tagMoved
        /\ look.at = "assets" =>
             \E r \in releases : Meta(r) = [id |-> id, draft |-> ExpectDraft, text |-> "planned"]
    BY <1>0, <1>2 DEF ReadInv, AsRead
  <2>2. CASE ReadFails
    BY <2>2 DEF ReadFails, Refused
  <2>3. CASE ReadList
    <3>1. look' = Refused \/ (~tagMoved /\ \E seen : look' = [look EXCEPT !.at = "direct", !.seen = seen])
      BY <2>3 DEF ReadList
    <3>2. look' = Refused \/ (~tagMoved /\ look'.at = "direct")
      BY <3>1, ReadFacts DEF Look
    <3> QED BY <3>2 DEF Refused
  <2>4. CASE ReadDirect(id, ExpectDraft)
    <3>1. CASE look' = Refused
      BY <3>1 DEF Refused
    <3>2. CASE look' # Refused
      <4>1. /\ look' = [look EXCEPT !.at = "assets"] /\ look.at = "direct"
            /\ {Meta(r) : r \in WithId(id)} = {[id |-> id, draft |-> ExpectDraft, text |-> "planned"]}
        BY <2>4, <3>2 DEF ReadDirect
      <4>2. \E r \in releases : Meta(r) = [id |-> id, draft |-> ExpectDraft, text |-> "planned"]
        BY <4>1 DEF WithId
      <4>3. look'.at = "assets"
        BY <4>1, ReadFacts DEF Look
      <4> QED BY <2>1, <4>1, <4>2, <4>3
    <3> QED BY <3>1, <3>2
  <2>5. CASE ReadAssets(id, ExpectNames)
    <3>1. CASE look' = Refused
      BY <3>1 DEF Refused
    <3>2. CASE look' # Refused
      <4>1. /\ look' = [look EXCEPT !.at = "done", !.found = AssetsOf(id)] /\ look.at = "assets"
            /\ HoldsExactly(AssetsOf(id), ExpectNames)
        BY <2>5, <3>2 DEF ReadAssets
      <4>2. PICK r \in releases : Meta(r) = [id |-> id, draft |-> ExpectDraft, text |-> "planned"]
        BY <2>1, <4>1
      <4>3. r.id = id
        BY <4>2 DEF Meta
      <4>4. WithId(id) = {r}
        BY <4>3 DEF WithId, ReadInv, IdsOwned
      <4>5. AssetsOf(id) = r.assets
        BY <4>4 DEF AssetsOf
      <4>6. Exactly(id, ExpectDraft, ExpectNames)
        BY <2>1, <4>1, <4>2, <4>5 DEF Exactly
      <4>7. look'.at = "done"
        BY <4>1, ReadFacts DEF Look
      <4> QED BY <2>1, <4>1, <4>6, <4>7
    <3> QED BY <3>1, <3>2
  <2> QED BY <2>2, <2>3, <2>4, <2>5 DEF ReadPage
<1> QED
  BY <1>0, <1>1, <1>2 DEF ReadInv

(* The end of a readback, and the journal.                                 *)
LEMMA DoneReads == ASSUME IndInv, ReadInv, LookDone \/ Journal PROVE ReadInv'
<1>0. /\ UNCHANGED <<releases, tagMoved, nextId, wire, answer, disturbed, stage, mode, target, id>>
      /\ pc \in {"look", "relook", "journal"}
  BY DEF LookDone, Journal, OpenJournal, hostVars, pageVars, ownVars
<1>1. /\ pc \in {"look", "relook"} => pc' = "hold" \/ (look.at = "done" /\ pc' \in {"journal", "public", "announce"})
      /\ pc = "journal" => pc' \in {"hold", "announce"}
      /\ (pc \in {"look", "relook"} /\ pc' = "announce") => stage > 1
      /\ (pc \in {"look", "relook"} /\ pc' = "journal") => pc = "look"
      /\ pc' = "public" => stage > 1
  <2>1. pc = "relook" => stage = Final
    BY ReadFacts DEF PlaceInRun
  <2>2. Final > 1
    BY ReadFacts
  <2> QED BY <2>1, <2>2, ReadFacts DEF LookDone, Journal, OpenJournal, Goto, AfterLook
<1>2. IdsOwned' /\ LiveWaits'
  BY <1>0, <1>1 DEF ReadInv, IdsOwned, LiveWaits, OneWaited
<1>3. pc = "journal" => stage = 1
  BY ReadFacts DEF PlaceInRun
<1>4. BoundRelease'
  BY <1>0, <1>1, <1>3 DEF ReadInv, BoundRelease
<1>5. ASSUME ~disturbed PROVE AsRead'
  <2>1. ASSUME pc' = "announce", stage > 1 PROVE Exactly(id, ExpectDraft, ExpectNames)
    <3>1. pc \in {"look", "relook"} /\ look.at = "done"
      BY <1>0, <1>1, <1>3, <2>1
    <3>2. id # 0
      BY <2>1, <3>1 DEF ReadInv, BoundRelease
    <3> QED BY <1>5, <3>1, <3>2 DEF ReadInv, AsRead
  <2> QED BY <1>0, <1>1, <2>1, ExactlyStays DEF AsRead
<1> QED
  BY <1>0, <1>2, <1>4, <1>5 DEF ReadInv

(* The intent is journaled from the page that was read; the next one is    *)
(* read for anew.                                                          *)
LEMMA AnnounceReads == ASSUME IndInv, ReadInv, AnnounceIntent PROVE ReadInv'
<1>0. /\ UNCHANGED <<releases, tagMoved, nextId, wire, answer, mode, target, id>> /\ pc = "announce"
  BY DEF AnnounceIntent, pageVars, ownVars
<1>1. \/ pc' = "hold" /\ stage' = stage /\ UNCHANGED disturbed
      \/ pc' = "verified" /\ stage' = stage /\ stage = Final /\ UNCHANGED disturbed
      \/ pc' = "look" /\ stage = 1 /\ stage' = 2 /\ mode = "continue" /\ BeginLook
      \/ pc' = "send" /\ stage' = stage /\ UNCHANGED disturbed
  BY DEF AnnounceIntent, IntentFails, Goto, NextStage
<1>2. IdsOwned' /\ LiveWaits'
  BY <1>0 DEF ReadInv, IdsOwned, LiveWaits, OneWaited
<1>3. BoundRelease'
  BY <1>0, <1>1 DEF ReadInv, BoundRelease
<1>4. ASSUME ~disturbed' PROVE AsRead'
  <2>1. CASE pc' = "look"
    BY <1>1, <2>1 DEF AsRead, BeginLook, NoLook
  <2>2. CASE pc' # "look"
    <3>1. stage' = stage /\ ~disturbed /\ pc' \in {"hold", "verified", "send"}
      BY <1>1, <1>4, <2>2
    <3> QED BY <1>0, <3>1, ExactlyStays DEF ReadInv, AsRead
  <2> QED BY <2>1, <2>2
<1> QED
  BY <1>2, <1>3, <1>4 DEF ReadInv

(* A request is sent and waited for. *)
LEMMA SendReads == ASSUME IndInv, ReadInv, SendIntent PROVE ReadInv'
<1>0. /\ pc = "send" /\ pc' = "wait" /\ wire' = wire \cup {IntentRequest} /\ answer' = NoAnswer
      /\ UNCHANGED <<releases, tagMoved, nextId, disturbed, stage, mode, target, id>>
  BY DEF SendIntent, SendRequest, Dispatch, Goto, pageVars, ownVars
<1>1. IdsOwned' /\ BoundRelease' /\ AsRead'
  BY <1>0 DEF ReadInv, IdsOwned, BoundRelease, AsRead, NoAnswer
<1>2. LiveWaits'
  <2>1. \A q \in wire : ~q.live
    BY <1>0 DEF ReadInv, LiveWaits, OneWaited
  <2>2. stage = 1 => IntentRequest.act = "create"
    BY RequestActs
  <2> QED BY <1>0, <2>1, <2>2, Zenon DEF LiveWaits, OneWaited, NoAnswer
<1> QED
  BY <1>1, <1>2 DEF ReadInv

(* A clear answer binds the run to the release it has created. *)
LEMMA ConfirmedReads == ASSUME IndInv, ReadInv, Confirmed PROVE ReadInv'
<1>0. /\ pc = "wait" /\ answer.is = "ok" /\ answer' = NoAnswer /\ pc' = "look" /\ stage' = stage + 1 /\ BeginLook
      /\ id' = (IF stage = 1 THEN answer.id ELSE id)
      /\ UNCHANGED <<releases, tagMoved, nextId, wire, mode, target>>
  BY DEF Confirmed, NextStage, Goto, pageVars
<1>1. IdsOwned' /\ LiveWaits' /\ AsRead'
  BY <1>0 DEF ReadInv, IdsOwned, LiveWaits, OneWaited, AsRead, BeginLook, NoLook
<1>2. BoundRelease'
  BY <1>0, ReadFacts DEF ReadInv, BoundRelease
<1> QED
  BY <1>1, <1>2 DEF ReadInv

(* The run is over; nobody waits for its request any more. *)
LEMMA StopReads == ASSUME IndInv, ReadInv, Unconfirmed \/ Stops PROVE ReadInv'
<1>0. /\ Abandon /\ pc' \in {"hold", "crashed"} /\ UNCHANGED <<releases, tagMoved, nextId, mode, target>>
  BY DEF Unconfirmed, GiveUp, Stops, Crash, Goto, pageVars, ownVars
<1>1. LiveWaits'
  BY <1>0, NobodyWaits, ReadFacts DEF LiveWaits
<1>2. IdsOwned' /\ BoundRelease' /\ AsRead'
  BY <1>0 DEF ReadInv, IdsOwned, BoundRelease, AsRead
<1> QED
  BY <1>1, <1>2 DEF ReadInv

(* The host settles a request: what it changes while a run reads, or later, *)
(* disturbs it.                                                             *)
LEMMA HostReads ==
  ASSUME IndInv, ReadInv, HostStep, UNCHANGED <<runVars, ownVars>> PROVE ReadInv'
<1>0. UNCHANGED <<pc, stage, mode, target, id>>
  BY DEF runVars, ownVars
<1>1. PICK q \in wire : /\ LandCreate(q) \/ LandUpload(q) \/ LandPublish(q) \/ LandDelete(q) \/ Refuse(q)
                       /\ wire' = wire \ {q} /\ disturbed' = (disturbed \/ ~q.live)
                       /\ (~q.live => answer' = answer)
  BY HostSettles
<1>2. IdsOwned'
  BY ReadFacts, IdsStay DEF ReadInv
<1>3. LiveWaits'
  BY <1>0, <1>1 DEF ReadInv, LiveWaits, OneWaited
<1>4. BoundRelease'
  <2>1. ASSUME pc = "wait", stage = 1, answer'.is = "ok" PROVE answer'.id # 0
    <3>1. CASE ~q.live
      BY <1>1, <2>1, <3>1 DEF ReadInv, BoundRelease
    <3>2. CASE q.live
      <4>1. q.act = "create"
        BY <2>1, <3>2 DEF ReadInv, LiveWaits, OneWaited
      <4>2. LandCreate(q) \/ Refuse(q)
        BY <1>1, <4>1 DEF LandUpload, LandPublish, LandDelete
      <4>3. CASE LandCreate(q)
        <5>1. answer' = [is |-> "ok", id |-> nextId]
          BY <3>2, <4>3 DEF LandCreate, Settle
        <5>2. nextId # 0
          BY ReadFacts DEF HostTypeOK
        <5> QED BY <5>1, <5>2
      <4>4. CASE Refuse(q)
        <5>1. answer' = [is |-> "refused", id |-> 0]
          BY <3>2, <4>4 DEF Refuse, Settle
        <5> QED BY <2>1, <5>1
      <4> QED BY <4>2, <4>3, <4>4
    <3> QED BY <3>1, <3>2
  <2> QED BY <1>0, <2>1 DEF ReadInv, BoundRelease
<1>5. ASSUME ~disturbed' PROVE AsRead'
  <2>1. q.live
    BY <1>1, <1>5
  <2>2. pc' = "wait"
    BY <1>0, <2>1 DEF ReadInv, LiveWaits, OneWaited
  <2> QED BY <2>2 DEF AsRead
<1> QED
  BY <1>2, <1>3, <1>4, <1>5 DEF ReadInv

(* What other people do at the page disturbs, what they do elsewhere does  *)
(* not touch it.                                                           *)
LEMMA OthersReads ==
  ASSUME IndInv, ReadInv,
         \/ ForeignStep /\ UNCHANGED <<runVars, ownVars>>
         \/ \E a \in Approvals : DispatchRun(a) /\ UNCHANGED <<hostVars, ownVars>>
         \/ Tamper \/ UNCHANGED vars
  PROVE  ReadInv'
<1>0. UNCHANGED <<pc, stage, mode, target, id, wire, answer, look>>
  BY DEF runVars, ownVars, ForeignStep, DispatchRun, Tamper, hostVars, vars
<1>1. LiveWaits' /\ BoundRelease'
  BY <1>0 DEF ReadInv, LiveWaits, OneWaited, BoundRelease
<1>2. CASE ForeignStep
  <2>1. disturbed'
    BY <1>2 DEF ForeignStep
  <2>2. IdsOwned'
    BY <1>2, ReadFacts, IdsStay DEF ReadInv
  <2> QED BY <1>1, <2>1, <2>2 DEF ReadInv
<1>3. CASE ~ForeignStep
  <2>1. UNCHANGED <<releases, tagMoved, nextId, disturbed>>
    BY <1>3 DEF DispatchRun, Tamper, hostVars, pageVars, vars
  <2>2. IdsOwned'
    BY <2>1 DEF ReadInv, IdsOwned
  <2>3. ~disturbed' => AsRead'
    BY <1>0, <2>1, ExactlyStays DEF ReadInv, AsRead, Meta, ExpectDraft
  <2> QED BY <1>1, <2>2, <2>3 DEF ReadInv
<1> QED
  BY <1>2, <1>3

(* Every step keeps what was read true, or disturbs the readback. *)
LEMMA StepReads == IndInv /\ ReadInv /\ [Next]_vars => ReadInv'
<1> SUFFICES ASSUME IndInv, ReadInv, [Next]_vars PROVE ReadInv'
  OBVIOUS
<1>1. CASE RunStep
  BY <1>1, EarlyReads, PageReads, DoneReads, AnnounceReads, SendReads, ConfirmedReads, StopReads, Zenon DEF RunStep
<1>2. CASE Environment
  BY <1>2, EarlyReads, HostReads, OthersReads, StopReads, Zenon DEF Environment
<1> QED
  BY <1>1, <1>2, OthersReads, Zenon DEF Next

(* Nothing is read of an empty page. *)
LEMMA InitReads == Init => ReadInv
<1> SUFFICES ASSUME Init PROVE ReadInv
  OBVIOUS
<1>1. releases = {} /\ wire = {} /\ answer = NoAnswer /\ pc = "idle" /\ mode = "create"
  BY DEF Init, HostInit, RunInit
<1> QED BY <1>1 DEF ReadInv, IdsOwned, LiveWaits, OneWaited, BoundRelease, AsRead, NoAnswer

(* A transfer or the publication goes out on the page just read.           *)
LEMMA SentAsRead ==
  ASSUME IndInv, ReadInv, [Next]_vars, NEW i \in 2..Publishing, sent'[appr][i] # sent[appr][i], ~disturbed
  PROVE  Exactly(id, TRUE, {n \in Planned : n + 1 < i})
<1>1. SendIntent
  <2>1. sent' # sent
    OBVIOUS
  <2> QED
    BY <2>1 DEF Next, RunStep, Environment, Gate, Fetch, Extract, Prepare, ReadPage, LookDone, Journal,
                OpenJournal, AnnounceIntent, WriteIntent, IntentFails, Confirmed, Unconfirmed, GiveUp, PublicDownload,
                DispatchRun, Begin, StartRun, FreshRunner, Rerun, RerunAttempt, Again, Reinvoke, StepFails, Stops,
                Crash, Tamper, vars, runVars, ledgerVars
<1>2. pc = "send" /\ sent' = [sent EXCEPT ![appr][stage] = @ + 1]
  BY <1>1 DEF SendIntent, SendRequest
<1>3. i = stage
  BY <1>2, Facts DEF RunTypeOK
<1>4. stage > 1 /\ stage # Final
  BY <1>3, ReadFacts DEF Publishing
<1>5. Exactly(id, ExpectDraft, ExpectNames)
  BY <1>2, <1>4 DEF ReadInv, AsRead
<1> QED BY <1>3, <1>4, <1>5 DEF ExpectDraft, ExpectNames

(* Nothing is uploaded to, and nothing made public or reported as          *)
(* published but, the release as the run has just read it back, for any    *)
(* number of assets, runs, late requests and foreign changes               *)
(* (publication.go: every mutation is preceded by an exact readback).      *)
THEOREM PublicationActsAsRead == Spec => ActsOnWhatItRead
<1>1. IndInv /\ ReadInv => VerifiedIsExact
  <2> SUFFICES ASSUME IndInv, ReadInv, pc = "verified", ~disturbed PROVE Exactly(id, FALSE, Planned)
    BY DEF VerifiedIsExact
  <2>1. stage = Final /\ Exactly(id, ExpectDraft, ExpectNames)
    BY ReadFacts DEF ReadInv, BoundRelease, AsRead
  <2>2. ExpectNames = Planned /\ ExpectDraft = FALSE
    BY <2>1, ReadFacts DEF ExpectNames, ExpectDraft, Planned
  <2> QED BY <2>1, <2>2
<1>2. IndInv /\ ReadInv /\ [Next]_vars =>
        [\A i \in 2..Publishing :
           (sent'[appr][i] # sent[appr][i] /\ ~disturbed) => Exactly(id, TRUE, {n \in Planned : n + 1 < i})]_vars
  BY SentAsRead
<1>3. Spec => [](IndInv /\ ReadInv)
  BY InitReads, StepReads, Invariance, PTL DEF Spec
<1> QED BY <1>1, <1>2, <1>3, PTL DEF Spec, ActsOnWhatItRead, SendsFromVerifiedPage
=============================================================================
