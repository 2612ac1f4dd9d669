------------------------------ MODULE OneShotRun ------------------------------
(***************************************************************************)
(* What every externally authorized operation on the release page shares:  *)
(* the workflow runs that carry an approval, the gate each of them passes, *)
(* the exclusively created journal, and the steps "write the intent, send  *)
(* the request once, go on only on a clear answer".  Publication and       *)
(* Normalization are built from these steps.                               *)
(***************************************************************************)
EXTENDS ReleaseHost

CONSTANTS
  Approvals,     \* approval references
  MaxDispatch,   \* bound: approval -> runs dispatched under it
  Final          \* the last intent of an operation: its verified end

ASSUME RunAssumption == MaxDispatch \in [Approvals -> Nat] /\ Final \in Nat \ {0}

VARIABLES
  dispatched,    \* approval -> runs in the workflow's history with its title
  started,       \* approval -> runs that have begun (one at a time: the concurrency group)
  pc, appr, attempt,   \* the run in progress
  stage,         \* the intent it works on
  opened,        \* its journal file exists on its runner
  written, sent  \* per approval: intents journaled, requests sent (history)

historyVars == <<dispatched, started>>
ledgerVars == <<written, sent>>
runVars == <<historyVars, pc, appr, attempt, stage, opened, ledgerVars>>

Intents == 1..Final
Ended == {"idle", "verified", "hold", "crashed"}
Working == {"gate", "fetch", "extract", "prepare", "look", "journal", "announce", "send", "wait",
            "public", "relook", "post"}

RunTypeOK ==
  /\ dispatched \in [Approvals -> Nat] /\ started \in [Approvals -> Nat]
  /\ pc \in Ended \cup Working /\ appr \in Approvals /\ attempt \in 1..2
  /\ stage \in Intents /\ opened \in BOOLEAN
  /\ written \in [Approvals -> 0..Final] /\ sent \in [Approvals -> [Intents -> Nat]]

RunInit ==
  /\ dispatched = [a \in Approvals |-> 0] /\ started = [a \in Approvals |-> 0]
  /\ pc = "idle" /\ appr \in Approvals /\ attempt = 1 /\ stage = 1 /\ opened = FALSE
  /\ written = [a \in Approvals |-> 0] /\ sent = [a \in Approvals |-> [i \in Intents |-> 0]]

(***************************************************************************)
(* The workflow.  Dispatching leaves a run in the history at once; runs of *)
(* the group begin one after the other, each on a fresh runner.            *)
(***************************************************************************)
DispatchRun(a) ==
  /\ dispatched[a] < MaxDispatch[a]
  /\ dispatched' = [dispatched EXCEPT ![a] = @ + 1]
  /\ UNCHANGED <<started, pc, appr, attempt, stage, opened, ledgerVars>>

FreshRunner ==
  /\ pc' = "gate" /\ stage' = 1 /\ opened' = FALSE
  /\ UNCHANGED <<dispatched, ledgerVars>>

StartRun(a) ==
  /\ pc \in Ended /\ started[a] < dispatched[a]
  /\ started' = [started EXCEPT ![a] = @ + 1]
  /\ appr' = a /\ attempt' = 1 /\ FreshRunner

(* "Re-run": the same run of the history, as its second attempt. *)
RerunAttempt ==
  /\ pc \in Ended \ {"idle"} /\ attempt = 1
  /\ attempt' = 2 /\ FreshRunner
  /\ UNCHANGED <<started, appr>>

(* A command of the run started once more in the same workspace. *)
Reinvoke(p) ==
  /\ pc = "crashed" /\ pc' = p /\ stage' = 1
  /\ UNCHANGED <<historyVars, appr, attempt, opened, ledgerVars>>

(***************************************************************************)
(* The steps of a run.                                                     *)
(***************************************************************************)
Goto(p) == pc' = p /\ UNCHANGED <<historyVars, appr, attempt>>

(* This is the run's first attempt, and the history shows no other run     *)
(* under the same approval.                                                *)
FirstAttempt == attempt = 1
OnlyDispatch == dispatched[appr] = 1
Admitted == FirstAttempt /\ OnlyDispatch

(* O_CREATE|O_EXCL: a journal that is already there ends the run. *)
OpenJournal(next) ==
  /\ pc = "journal"
  /\ \/ ~opened /\ opened' = TRUE /\ Goto(next)
     \/ opened /\ UNCHANGED opened /\ Goto("hold")
  /\ UNCHANGED <<stage, ledgerVars>>

(* Write and fsync; an error may leave the record behind. *)
WriteIntent == written' = [written EXCEPT ![appr] = stage] /\ UNCHANGED sent
IntentFails == (WriteIntent \/ UNCHANGED ledgerVars) /\ Goto("hold") /\ UNCHANGED <<stage, opened>>

SendRequest(q) ==
  /\ pc = "send" /\ Dispatch(q)
  /\ sent' = [sent EXCEPT ![appr][stage] = @ + 1]
  /\ Goto("wait")
  /\ UNCHANGED <<pageVars, foreign, look, disturbed, stage, opened, written>>

(* Refused, unclear or no answer in time: the run is over, the request is not. *)
GiveUp ==
  /\ pc = "wait" /\ answer.is # "ok"
  /\ Abandon /\ Goto("hold")
  /\ UNCHANGED <<pageVars, foreign, look, disturbed, stage, opened, ledgerVars>>

Crash ==
  /\ pc \in Working /\ Abandon /\ look' = NoLook /\ Goto("crashed")
  /\ UNCHANGED <<pageVars, foreign, disturbed, stage, opened, ledgerVars>>

(* How the history of the workflow, the journals and the requests hang     *)
(* together: nothing is written or sent by a run that has not begun, and   *)
(* the first run of an approval has its journal open once it has written.  *)
HistorySound ==
  /\ \A a \in Approvals :
       /\ started[a] <= dispatched[a]
       /\ written[a] > 0 => started[a] > 0
       /\ \A i \in Intents : sent[a][i] > 0 => i <= written[a]
  /\ pc # "idle" => started[appr] > 0
  /\ (attempt = 1 /\ started[appr] = 1 /\ written[appr] > 0) => opened

(* The run in progress is the only one there has been under its approval. *)
OnlyRun == attempt = 1 /\ started[appr] = 1

(* What all this keeps, for every approval. *)
Ledger == INSTANCE OneShotLedger WITH Intents <- Final
===============================================================================
