---------------------------- MODULE OneShotLedger ----------------------------
(***************************************************************************)
(* What "one-shot" promises of an authorized remote operation: a durable   *)
(* intent precedes every request, each intent is acted upon at most once,  *)
(* and nothing follows an intent that was acted upon out of turn.  So at   *)
(* most one journaled intent of an approval ever has an unknown outcome.   *)
(***************************************************************************)
EXTENDS Naturals

CONSTANTS Approvals, Intents   \* Intents = the last intent an approval can journal

VARIABLES
  written,   \* approval -> number of intents in its journal
  sent       \* approval -> intent -> number of requests sent for it

ledgerVars == <<written, sent>>

LedgerInit ==
  /\ written = [a \in Approvals |-> 0]
  /\ sent = [a \in Approvals |-> [i \in 1..Intents |-> 0]]

Announce(a) ==
  /\ written[a] < Intents
  /\ written' = [written EXCEPT ![a] = @ + 1]
  /\ UNCHANGED sent

Send(a) ==
  /\ written[a] > 0 /\ sent[a][written[a]] = 0
  /\ sent' = [sent EXCEPT ![a][written[a]] = 1]
  /\ UNCHANGED written

LedgerSpec == LedgerInit /\ [][\E a \in Approvals : Announce(a) \/ Send(a)]_ledgerVars
==============================================================================
