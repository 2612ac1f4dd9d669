--------------------------- MODULE BenchmarkProofs ---------------------------
(***************************************************************************)
(* What TLAPS proves of the benchmark command and of the server's start,   *)
(* for any scenarios, any environments and any number of failures and      *)
(* exchanges: the accounting for the server process, what a sample and     *)
(* the exit status stand for, and the safety of the result file.           *)
(***************************************************************************)
EXTENDS Benchmark, TLAPS

(***************************************************************************)
(* The start of a server (Startup.tla).                                    *)
(***************************************************************************)

(* What an environment and a root must be for a server to serve. *)
Usable(env, root) ==
  /\ env.root = "absolute" \/ (env.root = "dot" /\ env.cwd = "true")
  /\ "other" \notin {env.readOnly, env.cwd, env.limits, env.flags}
  /\ root = "directory" \/ (root = "link" /\ env.flags = "follow")

(* The start finds no fault exactly in what is usable (runWithIO). *)
LEMMA StartsIfUsable ==
  ASSUME NEW env \in Environments, NEW root \in RootStates
  PROVE StartupCategory(env, root) = "" <=> Usable(env, root)
<1>1. LoadFromEnvironment(env) = "" <=>
        (ValidRoot(env) /\ "other" \notin {env.readOnly, env.cwd, env.limits, env.flags})
  BY DEF LoadFromEnvironment, ValidRoot
<1>2. OpenRoot(env, root) = "" <=> (root = "directory" \/ (root = "link" /\ env.flags = "follow"))
  BY DEF OpenRoot, RootStates
<1>3. StartupCategory(env, root) = "" <=> (LoadFromEnvironment(env) = "" /\ OpenRoot(env, root) = "")
  BY DEF StartupCategory
<1> QED BY <1>1, <1>2, <1>3 DEF Usable, ValidRoot

(***************************************************************************)
(* The process, its pipes and the runner's place.                          *)
(***************************************************************************)
Proc == [state : Live \cup {"none", "exited", "reaped"}, env : Environments \cup {<<>>}, root : RootStates,
         args : Arguments, status : Statuses \cup {-1},
         killed : BOOLEAN, expired : BOOLEAN, honest : BOOLEAN, served : BOOLEAN]
AllTools == ReadTools \cup WriteTools
Message == [id : Nat, method : STRING \cup {"notifications/initialized", "tools/list"}]
Reply == [id : Nat, kind : {"result", "error"}, tools : SUBSET AllTools]
Clients == {"client", "clientClosed"}

(* A killed process has ended with status -1, and any process was started  *)
(* in an environment.                                                      *)
ProcInv ==
  /\ proc \in Proc /\ inbox \in Seq(Message) /\ outbox \in Seq(Reply)
  /\ stdin \in BOOLEAN /\ faults \in 0..MaxFaults
  /\ proc.killed => proc.status = -1 /\ proc.state \in {"exited", "reaped"}
  /\ proc.state # "none" => proc.env \in Environments

RunnerTypes ==
  /\ pc \in RunnerSteps \cup Over \cup Clients /\ caller \in Environments
  /\ k \in 1..Len(Scenarios) /\ r \in 1..Len(Scenario.methods)
  /\ waited \in BOOLEAN /\ badClose \in BOOLEAN /\ corpus \in BOOLEAN /\ code \in {0, 1, 3}

(* The server is accounted for at every place of the runner.               *)
ServerKept ==
  /\ pc \in (RunnerSteps \ InScenario) \cup {"done"} => proc.state \in {"none", "reaped"}
  /\ pc \in {"write", "read", "notify", "close"} => ~waited
  /\ (pc \in {"await", "late"} /\ waited) => proc.state = "reaped"
  /\ pc \in InScenario \cup {"start", "judge"} => corpus
  /\ (proc.state \in Live /\ pc \notin Clients) => corpus

CoreInv == ProcInv /\ RunnerTypes /\ ServerKept

(* What the assumptions say of a scenario. *)
LEMMA ScenarioFacts ==
  ASSUME NEW i \in 1..Len(Scenarios)
  PROVE /\ Scenarios[i] \in [readOnly : BOOLEAN, methods : Seq(STRING)]
        /\ Len(Scenarios[i].methods) \in Nat /\ Len(Scenarios[i].methods) > 0
        /\ \A j \in 1..Len(Scenarios[i].methods) : Scenarios[i].methods[j] \in STRING
<1> DEFINE S == [readOnly : BOOLEAN, methods : Seq(STRING)]
<1>1. Scenarios \in Seq(S)
  BY BenchmarkAssumption
<1>2. Scenarios[i] \in S
  <2> HIDE DEF S
  <2> QED BY <1>1
<1>3. Scenarios[i].methods \in Seq(STRING)
  BY <1>2
<1>4. Scenarios[i].methods # <<>>
  BY BenchmarkAssumption
<1> QED BY <1>2, <1>3, <1>4

(* The environment of a scenario (benchmarkEnvironment). *)
LEMMA PinnedEnvironment ==
  ASSUME NEW readOnly \in BOOLEAN
  PROVE /\ BenchmarkEnvironment(readOnly) \in Environments
        /\ Tools(BenchmarkEnvironment(readOnly)) = Contract(readOnly)
  BY DEF BenchmarkEnvironment, Environments, Tools, Contract

(* A killed process is a process. *)
LEMMA KilledProc ==
  ASSUME ProcInv
  PROVE /\ Killed \in Proc /\ (Killed.killed => Killed.status = -1 /\ Killed.state \in {"exited", "reaped"})
        /\ Killed.env = proc.env /\ Killed.honest = proc.honest /\ Killed.served = proc.served
        /\ Killed.root = proc.root /\ Killed.args = proc.args /\ Killed.expired = proc.expired
        /\ Killed.state = IF proc.state \in Live THEN "exited" ELSE proc.state
        /\ proc.state \notin Live => Killed = proc
        /\ proc.state \in Live => Killed.killed
        /\ Killed.state # "none" => Killed.env \in Environments
  BY DEF Killed, ProcInv, Proc, Live, Statuses

(* The first of a sequence and the rest, and one element more. *)
LEMMA SeqParts ==
  ASSUME NEW S, NEW s \in Seq(S)
  PROVE /\ s # <<>> => Head(s) \in S /\ Tail(s) \in Seq(S) /\ Head(s) = s[1]
                       /\ \A i \in 1..Len(Tail(s)) : Tail(s)[i] = s[i + 1] /\ i + 1 \in 1..Len(s)
        /\ \A x \in S : /\ Append(s, x) \in Seq(S) /\ Len(Append(s, x)) = Len(s) + 1
                         /\ \A i \in 1..Len(s) : Append(s, x)[i] = s[i]
                         /\ Append(s, x)[Len(s) + 1] = x
  OBVIOUS

(* The benchmark has not started anything. *)
LEMMA InitCore == Init => CoreInv
<1> SUFFICES ASSUME Init PROVE CoreInv
  OBVIOUS
<1>1. 1 \in 1..Len(Scenarios)
  BY BenchmarkAssumption
<1>2. \A S : <<>> \in Seq(S)
  OBVIOUS
<1>3. inbox \in Seq(Message) /\ outbox \in Seq(Reply)
  BY <1>2, Zenon DEF Init
<1>4. NoProcess \in Proc /\ NoProcess.state = "none" /\ ~NoProcess.killed
  BY DEF NoProcess, Proc, Statuses, RootStates, Arguments
<1>5. stdin \in BOOLEAN /\ waited \in BOOLEAN /\ badClose \in BOOLEAN /\ corpus \in BOOLEAN
  BY Zenon DEF Init
<1>6. proc = NoProcess /\ faults = 0 /\ k = 1 /\ r = 1 /\ pc = "setup" /\ code = 0 /\ caller \in Environments
  BY BenchmarkAssumption DEF Init
<1>7. ProcInv
  BY <1>3, <1>4, <1>5, <1>6, ProcessAssumption DEF ProcInv
<1>8. RunnerTypes
  BY <1>1, <1>5, <1>6, ScenarioFacts DEF RunnerTypes, RunnerSteps, Scenario
<1>9. ServerKept
  BY <1>4, <1>6 DEF ServerKept, Live, InScenario, RunnerSteps, Clients
<1> QED BY <1>7, <1>8, <1>9 DEF CoreInv

(***************************************************************************)
(* The runner's steps keep CoreInv.                                        *)
(***************************************************************************)

(* The corpus is created (Run). *)
LEMMA CorpusCore == ASSUME CoreInv, CreateCorpus PROVE CoreInv'
<1>1. ProcInv'
  BY ProcessAssumption DEF CreateCorpus, NoServer, Fault, CoreInv, ProcInv
<1>2. RunnerTypes'
  BY DEF CreateCorpus, Go, NoResult, CoreInv, RunnerTypes, RunnerSteps, Over, Scenario
<1>3. ServerKept'
  BY DEF CreateCorpus, Go, NoServer, CoreInv, ServerKept, RunnerSteps, InScenario, Clients
<1> QED BY <1>1, <1>2, <1>3 DEF CoreInv

(* A process is launched: what it is then (exec.Cmd.Start). *)
LEMMA Launched ==
  ASSUME NEW args \in Arguments, NEW env \in Environments, NEW root \in RootStates, Launch(args, env, root)
  PROVE /\ proc' \in Proc /\ proc'.state = "booting" /\ proc'.env = env /\ proc'.root = root
        /\ proc'.args = args /\ ~proc'.killed /\ proc'.honest /\ ~proc'.served /\ ~proc'.expired
        /\ inbox' = <<>> /\ outbox' = <<>> /\ stdin' = TRUE
        /\ inbox' \in Seq(Message) /\ outbox' \in Seq(Reply) /\ stdin' \in BOOLEAN
<1>1. proc' = [NoProcess EXCEPT !.state = "booting", !.env = env, !.root = root, !.args = args]
  BY DEF Launch
<1>2. /\ proc' \in Proc /\ proc'.state = "booting" /\ proc'.env = env /\ proc'.root = root
      /\ proc'.args = args /\ ~proc'.killed /\ proc'.honest /\ ~proc'.served /\ ~proc'.expired
  <2>1. proc' = [state |-> "booting", env |-> env, root |-> root, args |-> args, status |-> 0,
                 killed |-> FALSE, expired |-> FALSE, honest |-> TRUE, served |-> FALSE]
    BY <1>1 DEF NoProcess
  <2>2. proc' \in Proc
    BY <2>1 DEF Proc, Statuses, Live
  <2> QED BY <2>1, <2>2
<1>3. inbox' = <<>> /\ outbox' = <<>> /\ stdin' = TRUE
  BY DEF Launch
<1>4. \A S : <<>> \in Seq(S)
  OBVIOUS
<1>5. inbox' \in Seq(Message) /\ outbox' \in Seq(Reply) /\ stdin' \in BOOLEAN
  BY <1>3, <1>4, Zenon
<1> QED BY <1>2, <1>3, <1>5

(* A scenario's server is started, in an environment of its own. *)
LEMMA StartCore == ASSUME CoreInv, StartServer PROVE CoreInv'
<1>0. Scenario.readOnly \in BOOLEAN /\ k \in 1..Len(Scenarios) /\ 1 \in 1..Len(Scenario.methods)
  BY ScenarioFacts DEF CoreInv, RunnerTypes, Scenario
<1>1. CASE /\ \E root \in {"directory", "forbidden"} :
                Launch("none", BenchmarkEnvironment(Scenario.readOnly), root)
           /\ Go("write") /\ UNCHANGED <<code, faults>>
  <2>1. PICK root \in {"directory", "forbidden"} :
          Launch("none", BenchmarkEnvironment(Scenario.readOnly), root)
    BY <1>1
  <2>2. "none" \in Arguments /\ root \in RootStates
    BY DEF Arguments, RootStates
  <2>3. ProcInv'
    BY <1>0, <1>1, <2>1, <2>2, PinnedEnvironment, Launched DEF CoreInv, ProcInv
  <2>4. RunnerTypes'
    BY <1>0, <1>1 DEF StartServer, Go, NoResult, CoreInv, RunnerTypes, RunnerSteps, InScenario, Scenario
  <2>5. ServerKept'
    BY <1>0, <1>1 DEF StartServer, Go, CoreInv, ServerKept, RunnerSteps, InScenario, Clients, Over
  <2> QED BY <2>3, <2>4, <2>5 DEF CoreInv
<1>2. CASE Fault /\ Go("remove") /\ code' = 1 /\ NoServer
  <2>1. ProcInv'
    BY <1>2, ProcessAssumption DEF Fault, NoServer, CoreInv, ProcInv
  <2>2. RunnerTypes'
    BY <1>0, <1>2 DEF StartServer, Go, NoResult, CoreInv, RunnerTypes, RunnerSteps, Scenario
  <2>3. ServerKept'
    BY <1>2 DEF StartServer, Go, NoServer, CoreInv, ServerKept, RunnerSteps, InScenario, Clients
  <2> QED BY <2>1, <2>2, <2>3 DEF CoreInv
<1> QED BY <1>1, <1>2 DEF StartServer

(* A message is written (writeMessage). *)
LEMMA WritesCore ==
  ASSUME CoreInv, NEW from, NEW to, NEW message \in Message, Writes(from, message, to),
         from = "write" /\ to = "read"
  PROVE CoreInv'
<1>1. ProcInv'
  BY SMTT(30), SeqParts DEF Writes, CoreInv, ProcInv
<1>2. RunnerTypes'
  BY DEF Writes, Elsewhere, NoResult, Go, CoreInv, RunnerTypes, RunnerSteps, InScenario, Scenario
<1>3. ServerKept'
  BY DEF Writes, Elsewhere, Go, CoreInv, ServerKept, RunnerSteps, InScenario, Clients
<1> QED BY <1>1, <1>2, <1>3 DEF CoreInv

(* WriteRequest keeps CoreInv: the method of the scenario makes a message. *)
LEMMA RequestCore == ASSUME CoreInv, WriteRequest PROVE CoreInv'
<1>1. [id |-> r, method |-> Method] \in Message
  BY ScenarioFacts DEF CoreInv, RunnerTypes, Scenario, Method, Message
<1> QED BY <1>1, WritesCore DEF WriteRequest

(* An answer is read and decoded (readResponse, decodeResponse). *)
LEMMA ResponseCore == ASSUME CoreInv, ReadResponse PROVE CoreInv'
<1>0. Len(Scenario.methods) \in Nat
  BY ScenarioFacts DEF CoreInv, RunnerTypes, Scenario
<1>1. ProcInv'
  BY SeqParts DEF ReadResponse, CoreInv, ProcInv
<1>2. RunnerTypes'
  BY <1>0 DEF ReadResponse, NoResult, Go, NextRequest, CoreInv, RunnerTypes, RunnerSteps, InScenario, Scenario
<1>3. ServerKept'
  BY DEF ReadResponse, Go, CoreInv, ServerKept, RunnerSteps, InScenario, Clients
<1> QED BY <1>1, <1>2, <1>3 DEF CoreInv

(* The server's output ends (readResponse). *)
LEMMA ReadEndCore == ASSUME CoreInv, ReadEnd PROVE CoreInv'
<1>1. ProcInv'
  BY DEF ReadEnd, NoServer, CoreInv, ProcInv
<1>2. RunnerTypes'
  BY DEF ReadEnd, Elsewhere, NoResult, Go, CoreInv, RunnerTypes, RunnerSteps, InScenario, Scenario
<1>3. ServerKept'
  BY DEF ReadEnd, Elsewhere, NoServer, Go, CoreInv, ServerKept, RunnerSteps, InScenario, Clients
<1> QED BY <1>1, <1>2, <1>3 DEF CoreInv

(* The notification after initialize. *)
LEMMA NotifyCore == ASSUME CoreInv, Notify PROVE CoreInv'
<1>0. Len(Scenario.methods) \in Nat
  BY ScenarioFacts DEF CoreInv, RunnerTypes, Scenario
<1>1. [id |-> 0, method |-> "notifications/initialized"] \in Message
  BY DEF Message
<1>2. ProcInv'
  <2> DEFINE message == [id |-> 0, method |-> "notifications/initialized"]
  <2>1. inbox' = inbox \/ inbox' = Append(inbox, message)
    BY DEF Notify
  <2> HIDE DEF message
  <2>2. inbox' \in Seq(Message)
    BY SMTT(30), <1>1, <2>1, SeqParts DEF CoreInv, ProcInv, message
  <2> QED BY <2>2 DEF Notify, CoreInv, ProcInv
<1>3. RunnerTypes'
  BY <1>0 DEF Notify, NoResult, Go, NextRequest, CoreInv, RunnerTypes, RunnerSteps, InScenario, Scenario
<1>4. ServerKept'
  BY DEF Notify, Go, CoreInv, ServerKept, RunnerSteps, InScenario, Clients
<1> QED BY <1>2, <1>3, <1>4 DEF CoreInv

(* Standard input is closed (controlledExit). *)
LEMMA CloseCore == ASSUME CoreInv, CloseInput PROVE CoreInv'
<1>1. stdin' \in BOOLEAN /\ badClose' \in BOOLEAN
  BY Zenon DEF CloseInput, CoreInv, RunnerTypes
<1>2. proc' = proc \/ proc' = Killed
  BY DEF CloseInput
<1>3. ProcInv'
  <2>1. faults' \in 0..MaxFaults
    BY ProcessAssumption DEF CloseInput, Fault, CoreInv, ProcInv
  <2>2. CASE proc' = proc
    BY <1>1, <2>1, <2>2 DEF CloseInput, CoreInv, ProcInv
  <2>3. CASE proc' = Killed
    BY <1>1, <2>1, <2>3, KilledProc DEF CloseInput, CoreInv, ProcInv
  <2> QED BY <1>2, <2>2, <2>3
<1>4. RunnerTypes'
  BY <1>1 DEF CloseInput, NoResult, Go, CoreInv, RunnerTypes, RunnerSteps, InScenario, Scenario
<1>5. ServerKept'
  BY <1>2, KilledProc DEF CloseInput, Go, CoreInv, ServerKept, RunnerSteps, InScenario, Clients, Live
<1> QED BY <1>3, <1>4, <1>5 DEF CoreInv

(* Somebody has waited for the process (Wait). *)
LEMMA WaitedFor ==
  ASSUME ProcInv, Wait
  PROVE /\ proc' \in Proc /\ proc'.state = "reaped" /\ proc.state = "exited"
        /\ proc'.killed = proc.killed /\ proc'.status = proc.status /\ proc'.env = proc.env
        /\ proc'.honest = proc.honest /\ proc'.served = proc.served /\ proc'.args = proc.args
        /\ proc'.root = proc.root /\ proc'.expired = proc.expired
  BY DEF Wait, ProcInv, Proc

(* The goroutine of controlledExit. *)
LEMMA WaitCore == ASSUME CoreInv, WaitGoroutine PROVE CoreInv'
<1>1. ProcInv'
  BY WaitedFor DEF WaitGoroutine, CoreInv, ProcInv
<1>2. RunnerTypes'
  BY DEF WaitGoroutine, NoResult, CoreInv, RunnerTypes, Scenario
<1>3. ServerKept'
  BY WaitedFor DEF WaitGoroutine, CoreInv, ServerKept, RunnerSteps, InScenario, Clients, Live
<1> QED BY <1>1, <1>2, <1>3 DEF CoreInv

(* The exit is there before the timer (controlledExit, executeScenario). *)
LEMMA CollectCore == ASSUME CoreInv, Collect PROVE CoreInv'
<1>0. /\ k \in Nat /\ Len(Scenarios) \in Nat /\ Len(Scenario.methods) \in Nat /\ 1 <= Len(Scenario.methods)
      /\ k < Len(Scenarios) => k + 1 \in 1..Len(Scenarios)
  BY BenchmarkAssumption, ScenarioFacts DEF CoreInv, RunnerTypes, Scenario
<1>1. ProcInv'
  BY DEF Collect, NoServer, CoreInv, ProcInv
<1>2. RunnerTypes'
  <2>1. CASE badClose \/ WaitFailed
    BY <1>0, <2>1 DEF Collect, NoResult, Go, CoreInv, RunnerTypes, RunnerSteps, Scenario
  <2>2. CASE ~(badClose \/ WaitFailed) /\ k < Len(Scenarios)
    <3>1. k' = k + 1 /\ r' = 1 /\ pc' = "start"
      BY <2>2 DEF Collect, Accept, Go
    <3>2. 1 \in 1..Len(Scenarios[k + 1].methods)
      BY <1>0, <2>2, ScenarioFacts
    <3> QED BY <1>0, <2>2, <3>1, <3>2 DEF Collect, NoResult, CoreInv, RunnerTypes, RunnerSteps, Scenario
  <2>3. CASE ~(badClose \/ WaitFailed) /\ ~(k < Len(Scenarios))
    BY <1>0, <2>3 DEF Collect, Accept, NoResult, Go, CoreInv, RunnerTypes, RunnerSteps, Scenario
  <2> QED BY <2>1, <2>2, <2>3
<1>3. ServerKept'
  BY DEF Collect, Accept, NoServer, Go, CoreInv, ServerKept, RunnerSteps, InScenario, Clients, Live
<1> QED BY <1>1, <1>2, <1>3 DEF CoreInv

(* The timer was first (controlledExit). *)
LEMMA CollectLateCore == ASSUME CoreInv, CollectLate PROVE CoreInv'
<1>1. ProcInv'
  BY DEF CollectLate, NoServer, CoreInv, ProcInv
<1>2. RunnerTypes'
  BY DEF CollectLate, NoResult, Go, CoreInv, RunnerTypes, RunnerSteps, Scenario
<1>3. ServerKept'
  BY DEF CollectLate, NoServer, Go, CoreInv, ServerKept, RunnerSteps, InScenario, Clients, Live
<1> QED BY <1>1, <1>2, <1>3 DEF CoreInv

(* The deferred end of a scenario (executeScenario). *)
LEMMA AbortCore == ASSUME CoreInv, Abort PROVE CoreInv'
<1>1. stdin' \in BOOLEAN
  BY Zenon DEF Abort
<1>2. ProcInv'
  BY <1>1, KilledProc DEF Abort, CoreInv, ProcInv
<1>3. RunnerTypes'
  BY DEF Abort, Elsewhere, NoResult, Go, CoreInv, RunnerTypes, RunnerSteps, InScenario, Scenario
<1>4. ServerKept'
  BY KilledProc DEF Abort, Elsewhere, Go, CoreInv, ServerKept, RunnerSteps, InScenario, Clients, Live
<1> QED BY <1>2, <1>3, <1>4 DEF CoreInv

(* ... and the wait in it. *)
LEMMA AbortWaitCore == ASSUME CoreInv, AbortWait PROVE CoreInv'
<1>1. ProcInv'
  BY WaitedFor DEF AbortWait, CoreInv, ProcInv
<1>2. RunnerTypes'
  BY DEF AbortWait, NoResult, Go, CoreInv, RunnerTypes, RunnerSteps, Scenario
<1>3. ServerKept'
  BY WaitedFor DEF AbortWait, Go, CoreInv, ServerKept, RunnerSteps, InScenario, Clients, Live
<1> QED BY <1>1, <1>2, <1>3 DEF CoreInv

(* The budgets (EvaluateBudgets). *)
LEMMA JudgeCore == ASSUME CoreInv, Judge PROVE CoreInv'
<1>1. ProcInv'
  BY ProcessAssumption DEF Judge, NoServer, Fault, CoreInv, ProcInv
<1>2. code' \in {0, 1, 3}
  BY DEF Judge
<1>3. RunnerTypes'
  BY <1>2 DEF Judge, NoResult, Go, CoreInv, RunnerTypes, RunnerSteps, Scenario
<1>4. ServerKept'
  BY DEF Judge, NoServer, Go, CoreInv, ServerKept, RunnerSteps, InScenario, Clients, Live
<1> QED BY <1>1, <1>3, <1>4 DEF CoreInv

(* The corpus is removed (Run). *)
LEMMA RemoveCore == ASSUME CoreInv, RemoveCorpus PROVE CoreInv'
<1>0. corpus' \in BOOLEAN
  BY Zenon DEF RemoveCorpus, CoreInv, RunnerTypes
<1>1. ProcInv'
  BY ProcessAssumption DEF RemoveCorpus, NoServer, Fault, CoreInv, ProcInv
<1>2. RunnerTypes'
  BY <1>0 DEF RemoveCorpus, Go, CoreInv, RunnerTypes, RunnerSteps, Over, Scenario
<1>3. ServerKept'
  BY DEF RemoveCorpus, NoServer, Go, CoreInv, ServerKept, RunnerSteps, InScenario, Clients, Live
<1> QED BY <1>1, <1>2, <1>3 DEF CoreInv

(* The result file (writeResultFile). *)
LEMMA ResultCore == ASSUME CoreInv, WriteResult PROVE CoreInv'
<1>1. ProcInv'
  BY ProcessAssumption DEF WriteResult, NoServer, Fault, CoreInv, ProcInv
<1>2. pc' \in {pc, "done"} /\ code' \in {code, 1} /\ pc = "result"
  BY DEF WriteResult, Go
<1>3. RunnerTypes'
  BY <1>2 DEF WriteResult, CoreInv, RunnerTypes, RunnerSteps, Over, Scenario
<1>4. ServerKept'
  BY <1>2 DEF WriteResult, NoServer, CoreInv, ServerKept, RunnerSteps, InScenario, Clients, Live
<1> QED BY <1>1, <1>3, <1>4 DEF CoreInv

(***************************************************************************)
(* Everybody else's steps keep CoreInv.                                    *)
(***************************************************************************)

(* A step that leaves the runner where it is keeps its place, as long as   *)
(* it starts no process and lets none appear that was waited for.          *)
LEMMA RunnerStays ==
  ASSUME CoreInv, UNCHANGED runnerVars, (proc.state # "none" /\ proc'.state # "none") \/ proc' = proc,
         proc.state = "reaped" => proc'.state = "reaped",
         proc'.state \in Live => proc.state \in Live
  PROVE RunnerTypes' /\ ServerKept'
<1>1. RunnerTypes'
  BY DEF runnerVars, CoreInv, RunnerTypes, Scenario
<1>2. ServerKept'
  BY DEF runnerVars, CoreInv, ServerKept, Live
<1> QED BY <1>1, <1>2

(* The timer of controlledExit. *)
LEMMA TimerCore == ASSUME CoreInv, TimerFires PROVE CoreInv'
<1>1. ProcInv'
  BY KilledProc DEF TimerFires, CoreInv, ProcInv
<1>2. RunnerTypes'
  BY DEF TimerFires, Elsewhere, NoResult, Go, CoreInv, RunnerTypes, RunnerSteps, InScenario, Scenario
<1>3. ServerKept'
  BY KilledProc DEF TimerFires, Elsewhere, Go, CoreInv, ServerKept, RunnerSteps, InScenario, Clients, Live
<1> QED BY <1>1, <1>2, <1>3 DEF CoreInv

(* The watcher of the context leaves an ended process as it is, but for    *)
(* the mark (exec.CommandContext).                                         *)
LEMMA Expired ==
  ASSUME ProcInv, ContextExpires
  PROVE /\ proc' \in Proc /\ proc'.state = "exited" /\ proc'.expired
        /\ proc'.killed => proc'.status = -1
        /\ proc'.env = proc.env /\ proc'.honest = proc.honest /\ proc'.served = proc.served
        /\ proc'.root = proc.root /\ proc'.args = proc.args
        /\ proc'.killed = Killed.killed /\ proc'.status = Killed.status
        /\ proc.state \in Live \cup {"exited"}
<1>1. Killed \in Proc /\ proc' = [Killed EXCEPT !.expired = TRUE]
  BY KilledProc DEF ContextExpires
<1>2. proc.state \in Live \cup {"exited"} /\ Killed.state = "exited"
  BY KilledProc DEF ContextExpires
<1>3. /\ proc' \in Proc /\ proc'.state = Killed.state /\ proc'.expired /\ proc'.killed = Killed.killed
      /\ proc'.status = Killed.status /\ proc'.env = Killed.env /\ proc'.honest = Killed.honest
      /\ proc'.served = Killed.served /\ proc'.root = Killed.root /\ proc'.args = Killed.args
  BY <1>1 DEF Proc
<1> QED BY <1>2, <1>3, KilledProc

(* The context expires, in a step of nobody's. *)
LEMMA ExpireCore ==
  ASSUME CoreInv, ContextExpires, UNCHANGED <<resultVars, runnerVars>>, pc \in InScenario
  PROVE CoreInv'
<1>0. ProcInv
  BY DEF CoreInv
<1>1. ProcInv'
  BY <1>0, Expired DEF ContextExpires, ProcInv, Live
<1>2. RunnerTypes' /\ ServerKept'
  BY <1>0, Expired, RunnerStays DEF Live
<1> QED BY <1>1, <1>2 DEF CoreInv

(* The server boots, serves and ends by itself. *)
LEMMA BootProc ==
  ASSUME ProcInv, Boot
  PROVE /\ ProcInv' /\ proc.state = "booting" /\ proc'.state \in {"serving", "exited"}
        /\ proc'.env = proc.env /\ proc'.honest = proc.honest /\ proc'.served = proc.served
        /\ proc'.root = proc.root /\ proc'.args = proc.args /\ ~proc'.killed /\ proc'.expired = proc.expired
        /\ LET category == StartupCategory(proc.env, proc.root)
           IN IF Starts(proc.args) /\ category = "" THEN proc'.state = "serving"
              ELSE proc'.state = "exited" /\ proc'.status = ExitStatus(proc.args, category)
<1> DEFINE category == StartupCategory(proc.env, proc.root)
<1>1. /\ proc.state = "booting" /\ proc \in Proc /\ ~proc.killed
      /\ UNCHANGED <<inbox, outbox, stdin, faults>>
      /\ IF Starts(proc.args) /\ category = "" THEN proc' = [proc EXCEPT !.state = "serving"]
         ELSE Exits(ExitStatus(proc.args, category))
  BY DEF Boot, ProcInv
<1>2. ExitStatus(proc.args, category) \in Statuses
  BY DEF ExitStatus, Statuses
<1> HIDE DEF category
<1>3. CASE Starts(proc.args) /\ category = ""
  <2>1. proc' = [proc EXCEPT !.state = "serving"]
    BY <1>1, <1>3
  <2>2. /\ proc' \in Proc /\ proc'.state = "serving" /\ proc'.env = proc.env /\ proc'.honest = proc.honest
        /\ proc'.served = proc.served /\ proc'.root = proc.root /\ proc'.args = proc.args
        /\ ~proc'.killed /\ proc'.expired = proc.expired
    BY <1>1, <2>1 DEF Proc, Live
  <2>3. ProcInv'
    BY <1>1, <2>2 DEF ProcInv
  <2> QED BY <1>1, <1>3, <2>2, <2>3 DEF category
<1>4. CASE ~(Starts(proc.args) /\ category = "")
  <2>1. proc' = [proc EXCEPT !.state = "exited", !.status = ExitStatus(proc.args, category)]
    BY <1>1, <1>4 DEF Exits
  <2>2. /\ proc' \in Proc /\ proc'.state = "exited" /\ proc'.env = proc.env /\ proc'.honest = proc.honest
        /\ proc'.served = proc.served /\ proc'.root = proc.root /\ proc'.args = proc.args
        /\ ~proc'.killed /\ proc'.expired = proc.expired
        /\ proc'.status = ExitStatus(proc.args, category)
    BY <1>1, <1>2, <2>1 DEF Proc
  <2>3. ProcInv'
    BY <1>1, <2>2 DEF ProcInv
  <2> QED BY <1>1, <1>4, <2>2, <2>3 DEF category
<1> QED BY <1>3, <1>4

(* Every answer of the server is a reply with the tools of its profile. *)
LEMMA AnswerReply ==
  ASSUME NEW request \in Message
  PROVE Answer(request) \in Reply /\ Answer(request).id = request.id
        /\ Answer(request).tools \in {{}, Tools(proc.env)}
<1>1. Tools(proc.env) \in SUBSET AllTools
  BY DEF Tools, AllTools
<1>2. CASE request.method = "tools/list"
  <2>1. Answer(request) = [id |-> request.id, kind |-> "result", tools |-> Tools(proc.env)]
    BY <1>2 DEF Answer
  <2> QED BY <1>1, <2>1 DEF Message, Reply
<1>3. CASE request.method # "tools/list"
  <2>1. Answer(request) = [id |-> request.id, kind |-> "result", tools |-> {}]
    BY <1>3 DEF Answer
  <2> QED BY <2>1 DEF Message, Reply
<1> QED BY <1>2, <1>3

(* Serve answers one request and leaves the process serving. *)
LEMMA ServeProc ==
  ASSUME ProcInv, Serve
  PROVE /\ ProcInv' /\ proc.state = "serving" /\ proc'.state = "serving"
        /\ proc'.env = proc.env /\ proc'.honest = proc.honest /\ proc'.served
        /\ proc'.root = proc.root /\ proc'.args = proc.args /\ proc'.expired = proc.expired
        /\ inbox # <<>> /\ UNCHANGED stdin
        /\ \/ outbox' = outbox
           \/ outbox' = Append(outbox, Answer(Head(inbox))) /\ Answer(Head(inbox)) \in Reply
<1>1. /\ proc \in Proc /\ proc' = [proc EXCEPT !.served = TRUE] /\ proc.state = "serving" /\ inbox # <<>>
      /\ ~proc.killed /\ inbox' = Tail(inbox) /\ UNCHANGED <<stdin, faults>>
  BY DEF Serve, ProcInv
<1>2. /\ proc' \in Proc /\ proc'.state = "serving" /\ proc'.env = proc.env /\ proc'.honest = proc.honest
      /\ proc'.served /\ proc'.root = proc.root /\ proc'.args = proc.args /\ proc'.expired = proc.expired
      /\ ~proc'.killed
  BY <1>1 DEF Proc
<1>3. Head(inbox) \in Message /\ inbox' \in Seq(Message)
  BY <1>1, SeqParts DEF ProcInv
<1>4. Answer(Head(inbox)) \in Reply
  BY <1>3, AnswerReply
<1>5. outbox' = outbox \/ outbox' = Append(outbox, Answer(Head(inbox)))
  BY DEF Serve
<1>6. outbox' \in Seq(Reply)
  BY <1>4, <1>5, SeqParts DEF ProcInv
<1>7. ProcInv'
  BY <1>1, <1>2, <1>3, <1>6 DEF ProcInv
<1> QED BY <1>1, <1>2, <1>4, <1>5, <1>7

(* A process exits with a status. *)
LEMMA ExitsProc ==
  ASSUME ProcInv, NEW status \in Statuses, Exits(status), proc.state \in Live
  PROVE /\ proc' \in Proc /\ proc'.state = "exited" /\ proc'.status = status /\ ~proc'.killed
        /\ proc'.env = proc.env /\ proc'.honest = proc.honest /\ proc'.served = proc.served
        /\ proc'.root = proc.root /\ proc'.args = proc.args /\ proc'.expired = proc.expired
<1>1. proc' = [proc EXCEPT !.state = "exited", !.status = status] /\ proc \in Proc /\ ~proc.killed
  BY DEF Exits, ProcInv, Live
<1> QED BY <1>1 DEF Proc

(* ServeEnd makes the process exit with status 0. *)
LEMMA EndProc ==
  ASSUME ProcInv, ServeEnd
  PROVE /\ ProcInv' /\ proc.state = "serving" /\ proc'.state = "exited" /\ proc'.status = 0 /\ ~proc'.killed
        /\ proc'.env = proc.env /\ proc'.honest = proc.honest /\ proc'.served = proc.served
        /\ proc'.root = proc.root /\ proc'.args = proc.args /\ ~stdin /\ ~stdin'
<1>1. ExitStatus("none", "") = 0 /\ 0 \in Statuses
  BY DEF ExitStatus, Statuses
<1>2. proc.state = "serving" /\ ~stdin /\ Exits(0) /\ UNCHANGED <<inbox, outbox, stdin, faults>>
  BY <1>1 DEF ServeEnd
<1>3. /\ proc' \in Proc /\ proc'.state = "exited" /\ proc'.status = 0 /\ ~proc'.killed
      /\ proc'.env = proc.env /\ proc'.honest = proc.honest /\ proc'.served = proc.served
      /\ proc'.root = proc.root /\ proc'.args = proc.args
  BY <1>1, <1>2, ExitsProc DEF Live
<1>4. ProcInv'
  BY <1>2, <1>3 DEF ProcInv
<1> QED BY <1>2, <1>3, <1>4

(* A step of the server keeps CoreInv. *)
LEMMA ServerCore ==
  ASSUME CoreInv, ServerStep, UNCHANGED <<resultVars, runnerVars>> PROVE CoreInv'
<1>0. ProcInv
  BY DEF CoreInv
<1>1. CASE Boot
  BY <1>0, <1>1, BootProc, RunnerStays DEF CoreInv, Live
<1>2. CASE Serve
  BY <1>0, <1>2, ServeProc, RunnerStays DEF CoreInv, Live
<1>3. CASE ServeEnd
  BY <1>0, <1>3, EndProc, RunnerStays DEF CoreInv, Live
<1> QED BY <1>1, <1>2, <1>3 DEF ServerStep

(* A server whose parent is gone fails to write. *)
LEMMA OrphanCore == ASSUME CoreInv, Orphaned PROVE CoreInv'
<1>0. /\ ProcInv /\ Exits(1) /\ proc.state = "serving" /\ 1 \in Statuses
      /\ UNCHANGED <<inbox, outbox, stdin, faults, resultVars, runnerVars>>
  BY DEF CoreInv, Orphaned, Statuses
<1>1. /\ proc' \in Proc /\ proc'.state = "exited" /\ ~proc'.killed /\ proc'.env = proc.env
  BY <1>0, ExitsProc DEF Live
<1>2. ProcInv'
  BY <1>0, <1>1 DEF ProcInv
<1> QED BY <1>0, <1>1, <1>2, RunnerStays DEF CoreInv, Live

(* The runner is killed. *)
LEMMA DieCore == ASSUME CoreInv, Die PROVE CoreInv'
<1>1. stdin' \in BOOLEAN
  BY Zenon DEF Die
<1>2. ProcInv'
  BY <1>1, ProcessAssumption DEF Die, Fault, CoreInv, ProcInv
<1>3. RunnerTypes'
  BY DEF Die, Elsewhere, NoResult, Go, CoreInv, RunnerTypes, Over, Scenario
<1>4. ServerKept'
  BY DEF Die, Elsewhere, Go, CoreInv, ServerKept, RunnerSteps, InScenario, Clients, Live
<1> QED BY <1>2, <1>3, <1>4 DEF CoreInv

(* The server misbehaves, and is then not honest any more. *)
LEMMA MisbehaveProc ==
  ASSUME ProcInv, Misbehave
  PROVE /\ ProcInv' /\ ~proc'.honest /\ proc.state \in Live /\ proc'.state \in Live \cup {"exited"}
        /\ proc'.env = proc.env /\ UNCHANGED stdin /\ ~proc'.killed /\ proc'.expired = proc.expired
<1>0. proc \in Proc /\ proc.state \in {"booting", "serving"} /\ ~proc.killed /\ UNCHANGED stdin
      /\ faults' \in 0..MaxFaults
  BY ProcessAssumption DEF Misbehave, Fault, ProcInv
<1>1. CASE proc' = [proc EXCEPT !.state = "hung", !.honest = FALSE] /\ UNCHANGED <<inbox, outbox>>
  <2>1. /\ proc' \in Proc /\ proc'.state = "hung" /\ ~proc'.honest /\ proc'.env = proc.env
        /\ ~proc'.killed /\ proc'.expired = proc.expired
    BY <1>0, <1>1 DEF Proc, Live
  <2>2. ProcInv'
    BY <1>0, <1>1, <2>1 DEF ProcInv
  <2> QED BY <1>0, <2>1, <2>2 DEF Live
<1>2. CASE /\ \E status \in {0, 1} :
                proc' = [proc EXCEPT !.state = "exited", !.status = status, !.honest = FALSE]
           /\ UNCHANGED <<inbox, outbox>>
  <2>0. PICK status \in {0, 1} :
               proc' = [proc EXCEPT !.state = "exited", !.status = status, !.honest = FALSE]
    BY <1>2
  <2>a. status \in Statuses \cup {-1}
    BY <2>0 DEF Statuses
  <2>1. /\ proc' \in Proc /\ proc'.state = "exited" /\ ~proc'.honest /\ proc'.env = proc.env
        /\ ~proc'.killed /\ proc'.expired = proc.expired
    BY <1>0, <2>0, <2>a DEF Proc
  <2>2. ProcInv'
    BY <1>0, <1>2, <2>1 DEF ProcInv
  <2> QED BY <1>0, <2>1, <2>2 DEF Live
<1>3. CASE /\ proc.state = "serving" /\ inbox # <<>> /\ inbox' = Tail(inbox)
           /\ proc' = [proc EXCEPT !.honest = FALSE, !.served = TRUE]
           /\ \E answer \in {[id |-> Head(inbox).id + 1, kind |-> "result", tools |-> {}],
                             [id |-> Head(inbox).id, kind |-> "error", tools |-> {}],
                             [id |-> Head(inbox).id, kind |-> "result", tools |-> {"write_file"}]} :
                outbox' = Append(outbox, answer)
  <2>0. Head(inbox) \in Message /\ inbox' \in Seq(Message)
    BY <1>3, SeqParts DEF ProcInv
  <2>1. Head(inbox).id \in Nat /\ Head(inbox).id + 1 \in Nat
    BY <2>0 DEF Message
  <2>2. {"write_file"} \in SUBSET AllTools /\ {} \in SUBSET AllTools
    BY DEF AllTools, WriteTools
  <2>3. \A n \in Nat : \A tools \in SUBSET AllTools :
          [id |-> n, kind |-> "result", tools |-> tools] \in Reply
          /\ [id |-> n, kind |-> "error", tools |-> tools] \in Reply
    BY DEF Reply
  <2>4. outbox' \in Seq(Reply)
    <3>1. PICK answer \in {[id |-> Head(inbox).id + 1, kind |-> "result", tools |-> {}],
                          [id |-> Head(inbox).id, kind |-> "error", tools |-> {}],
                          [id |-> Head(inbox).id, kind |-> "result", tools |-> {"write_file"}]} :
                 outbox' = Append(outbox, answer)
      BY <1>3
    <3>2. answer \in Reply
      BY <2>1, <2>2, <2>3, <3>1
    <3> QED BY <3>1, <3>2, SeqParts DEF ProcInv
  <2>5. /\ proc' \in Proc /\ proc'.state = "serving" /\ ~proc'.honest /\ proc'.env = proc.env
        /\ ~proc'.killed /\ proc'.expired = proc.expired
    BY <1>0, <1>3 DEF Proc
  <2>6. ProcInv'
    BY <1>0, <2>0, <2>4, <2>5 DEF ProcInv
  <2> QED BY <1>0, <2>5, <2>6 DEF Live
<1> QED BY <1>1, <1>2, <1>3 DEF Misbehave

(* A server that misbehaves keeps CoreInv. *)
LEMMA MisbehaveCore ==
  ASSUME CoreInv, Misbehave, UNCHANGED <<resultVars, runnerVars>> PROVE CoreInv'
  BY MisbehaveProc, RunnerStays DEF CoreInv, Live

(* Somebody exchanges directories. *)
LEMMA ExchangeCore ==
  ASSUME CoreInv, UNCHANGED <<processVars, runnerVars>> PROVE CoreInv'
<1>1. ProcInv'
  BY DEF processVars, CoreInv, ProcInv
<1> QED BY <1>1, RunnerStays DEF processVars, CoreInv

(* A client starts a server, asks it and closes its input. *)
LEMMA ClientStartsCore == ASSUME CoreInv, ClientStarts PROVE CoreInv'
<1>1. PICK l \in ClientLaunches : Launch(l.args, l.env, l.root)
  BY DEF ClientStarts
<1>2. l.args \in Arguments /\ l.env \in Environments /\ l.root \in RootStates
  BY BenchmarkAssumption
<1>3. ProcInv'
  BY <1>1, <1>2, Launched DEF ClientStarts, CoreInv, ProcInv
<1>4. RunnerTypes'
  BY DEF ClientStarts, Elsewhere, NoResult, Go, CoreInv, RunnerTypes, Clients, Scenario
<1>5. ServerKept'
  BY DEF ClientStarts, Elsewhere, Go, CoreInv, ServerKept, RunnerSteps, InScenario, Clients
<1> QED BY <1>3, <1>4, <1>5 DEF CoreInv

(* A client asks for the list of the tools. *)
LEMMA ClientAsksCore == ASSUME CoreInv, ClientAsks PROVE CoreInv'
<1>1. inbox' \in Seq(Message)
  <2>1. [id |-> 1, method |-> "tools/list"] \in Message
    BY DEF Message
  <2> DEFINE message == [id |-> 1, method |-> "tools/list"]
  <2>2. inbox' = <<message>>
    BY DEF ClientAsks
  <2> HIDE DEF message
  <2> QED BY <2>1, <2>2 DEF message
<1>2. ProcInv'
  BY <1>1 DEF ClientAsks, CoreInv, ProcInv
<1>3. RunnerTypes' /\ ServerKept'
  BY RunnerStays DEF ClientAsks, Elsewhere, NoResult, runnerVars
<1> QED BY <1>2, <1>3 DEF CoreInv

(* A client closes the input of its server. *)
LEMMA ClientClosesCore == ASSUME CoreInv, ClientCloses PROVE CoreInv'
<1>1. stdin' \in BOOLEAN
  BY Zenon DEF ClientCloses
<1>2. ProcInv'
  BY <1>1 DEF ClientCloses, CoreInv, ProcInv
<1>3. RunnerTypes'
  BY DEF ClientCloses, Elsewhere, NoResult, Go, CoreInv, RunnerTypes, Clients, Scenario
<1>4. ServerKept'
  BY DEF ClientCloses, Elsewhere, Go, CoreInv, ServerKept, RunnerSteps, InScenario, Clients
<1> QED BY <1>2, <1>3, <1>4 DEF CoreInv

(* CoreInv is inductive. *)
LEMMA StepCore == CoreInv /\ [Next]_vars => CoreInv'
<1> SUFFICES ASSUME CoreInv, [Next]_vars PROVE CoreInv'
  OBVIOUS
<1>1. CASE UNCHANGED vars
  BY <1>1, ExchangeCore DEF vars
<1>2. CASE Runner
  BY <1>2, CorpusCore, StartCore, RequestCore, ResponseCore, ReadEndCore, NotifyCore, CloseCore,
     WaitCore, CollectCore, CollectLateCore, AbortCore, AbortWaitCore, JudgeCore, RemoveCore, ResultCore, Zenon
     DEF Runner
<1>3. CASE Timers
  BY <1>3, TimerCore, ExpireCore, Zenon DEF Timers
<1>4. CASE Server
  BY <1>4, ServerCore, OrphanCore, Zenon DEF Server
<1>5. CASE Die \/ ClientStarts \/ ClientAsks \/ ClientCloses
  BY <1>5, DieCore, ClientStartsCore, ClientAsksCore, ClientClosesCore, Zenon
<1>6. CASE \/ pc \in InScenario /\ Misbehave /\ UNCHANGED <<resultVars, runnerVars>>
           \/ Exchange /\ UNCHANGED <<processVars, runnerVars>>
  BY <1>6, MisbehaveCore, ExchangeCore, Zenon
<1> QED BY <1>1, <1>2, <1>3, <1>4, <1>5, <1>6, Zenon DEF Next

(* CoreInv always holds. *)
LEMMA CoreAlways == Spec => []CoreInv
  BY InitCore, StepCore, PTL DEF Spec

(* However a scenario fails, its server is killed or has exited and was    *)
(* waited for, and none runs without its corpus (executeScenario).         *)
THEOREM ServersAccounted == Spec => []ServersGone
<1>1. CoreInv => ServersGone
  BY DEF CoreInv, ServerKept, ServersGone, Clients
<1> QED BY <1>1, CoreAlways, PTL
(***************************************************************************)
(* The exit status.                                                        *)
(***************************************************************************)

(* What a process that was not killed and has not misbehaved stands for:   *)
(* StatusTells, with a start that has served nothing yet.                  *)
StatusFacts ==
  /\ (proc.served \/ proc.state = "serving") => Usable(proc.env, proc.root) /\ proc.args = "none"
  /\ proc.state = "booting" => ~proc.served
  /\ (proc.state = "exited" /\ proc.status \in {2, 3}) => ~proc.served
  /\ (proc.state = "exited" /\ proc.status = 0 /\ proc.args = "none") =>
       Usable(proc.env, proc.root) /\ ~stdin
  /\ (proc.state = "exited" /\ proc.status = 3) => ~Usable(proc.env, proc.root)
StatusInv == (proc.state # "none" /\ proc.honest /\ ~proc.killed) => StatusFacts

(* Nothing in it changes when only the input may have been closed.         *)
LEMMA StatusStays ==
  ASSUME StatusInv, proc' = proc, stdin' = stdin \/ stdin' = FALSE PROVE StatusInv'
  BY DEF StatusInv, StatusFacts

(* A process that is reaped, killed or marked keeps its promise, or has    *)
(* none any more.                                                          *)
LEMMA StatusReaped ==
  ASSUME CoreInv, StatusInv, Wait, UNCHANGED stdin PROVE StatusInv'
<1>1. ProcInv
  BY DEF CoreInv
<1> QED BY <1>1, WaitedFor DEF StatusInv, StatusFacts
(* Killing it ends its promise, or does nothing (os.Process.Kill). *)
LEMMA StatusKilled ==
  ASSUME CoreInv, StatusInv, proc' = Killed, stdin' = stdin \/ stdin' = FALSE PROVE StatusInv'
<1>1. CASE proc.state \in Live
  BY <1>1, KilledProc DEF CoreInv, StatusInv
<1>2. CASE proc.state \notin Live
  BY <1>2, StatusStays, KilledProc DEF CoreInv
<1> QED BY <1>1, <1>2
(* So does the context's watcher. *)
LEMMA StatusExpired ==
  ASSUME CoreInv, StatusInv, ContextExpires PROVE StatusInv'
<1>0. ProcInv /\ stdin' = stdin
  BY DEF CoreInv, ContextExpires
<1>1. CASE proc.state \in Live
  BY <1>0, <1>1, Expired, KilledProc DEF StatusInv
<1>2. CASE proc.state \notin Live
  <2>1. proc.state = "exited" /\ Killed = proc
    BY <1>0, <1>2, Expired, KilledProc
  <2> QED BY <1>0, <2>1, Expired DEF StatusInv, StatusFacts
<1> QED BY <1>1, <1>2

(* A process that is launched has promised nothing yet.                    *)
LEMMA StatusLaunched ==
  ASSUME NEW args \in Arguments, NEW env \in Environments, NEW root \in RootStates, Launch(args, env, root)
  PROVE StatusInv'
  BY Launched DEF StatusInv, StatusFacts

(* The status of a process that was to serve tells a fault by its category *)
(* (exitCode).                                                             *)
LEMMA StatusOf ==
  ASSUME NEW args \in Arguments, NEW category
  PROVE /\ (args = "none" /\ category # "") => ExitStatus(args, category) # 0
        /\ ExitStatus(args, category) = 3 => category # ""
<1>1. CASE args = "none" /\ category # ""
  <2>1. CASE category = "startup_failed"
    <3>1. ExitStatus(args, category) = 1
      BY <1>1, <2>1 DEF ExitStatus
    <3>2. ExitStatus(args, category) # 0
      BY <3>1
    <3> QED BY <1>1, <3>2, Zenon
  <2>2. CASE category # "startup_failed"
    <3>1. ExitStatus(args, category) = 3
      BY <1>1, <2>2 DEF ExitStatus
    <3>2. ExitStatus(args, category) # 0
      BY <3>1
    <3> QED BY <1>1, <3>2, Zenon
  <2> QED BY <2>1, <2>2
<1>2. CASE args # "none" \/ category = ""
  <2>1. ExitStatus(args, category) = 2 \/ ExitStatus(args, category) = 0
    BY <1>2 DEF ExitStatus, Arguments
  <2>2. ExitStatus(args, category) # 3
    BY <2>1
  <2> QED BY <1>2, <2>2
<1> QED BY <1>1, <1>2

(* The start decides between serving and the status (runCLI).              *)
LEMMA StatusBoot ==
  ASSUME CoreInv, StatusInv, Boot PROVE StatusInv'
<1> DEFINE category == StartupCategory(proc.env, proc.root)
<1>0. ProcInv /\ proc.args \in Arguments /\ proc.env \in Environments /\ proc.root \in RootStates
  BY BootProc DEF CoreInv, ProcInv, Proc
<1>1. category = "" <=> Usable(proc.env, proc.root)
  BY <1>0, StartsIfUsable
<1>2. /\ proc.state = "booting" /\ proc'.state \in {"serving", "exited"}
      /\ proc'.env = proc.env /\ proc'.honest = proc.honest /\ proc'.served = proc.served
      /\ proc'.root = proc.root /\ proc'.args = proc.args /\ ~proc'.killed
      /\ IF Starts(proc.args) /\ category = "" THEN proc'.state = "serving"
         ELSE proc'.state = "exited" /\ proc'.status = ExitStatus(proc.args, category)
  BY <1>0, BootProc
<1>3. /\ (proc.args = "none" /\ category # "") => ExitStatus(proc.args, category) # 0
      /\ ExitStatus(proc.args, category) = 3 => category # ""
  BY <1>0, StatusOf
<1>4. ~proc.killed
  BY <1>0, <1>2 DEF ProcInv
<1>5. Starts(proc.args) <=> proc.args = "none"
  BY DEF Starts
<1> HIDE DEF category
<1>6. proc.honest => ~proc.served
  BY <1>2, <1>4 DEF StatusInv, StatusFacts
<1>7. Usable(proc.env, proc.root)' <=> Usable(proc.env, proc.root)
  BY <1>2 DEF Usable
<1>8. CASE Starts(proc.args) /\ category = ""
  BY <1>1, <1>2, <1>5, <1>7, <1>8 DEF StatusInv, StatusFacts
<1>9. CASE ~(Starts(proc.args) /\ category = "")
  <2>1. proc'.state = "exited" /\ proc'.status = ExitStatus(proc.args, category)
    BY <1>2, <1>9
  <2>2. proc'.honest => ~proc'.served
    BY <1>2, <1>6
  <2>3. proc'.status = 3 => ~Usable(proc.env, proc.root)
    BY <1>1, <1>3, <2>1
  <2>4. ~(proc'.status = 0 /\ proc'.args = "none")
    BY <1>2, <1>3, <1>5, <1>9, <2>1
  <2> QED BY <1>7, <2>1, <2>2, <2>3, <2>4 DEF StatusInv, StatusFacts
<1> QED BY <1>8, <1>9

(* A process serves, and ends, only after its start.                       *)
LEMMA StatusServes ==
  ASSUME CoreInv, StatusInv, Serve \/ ServeEnd \/ Orphaned PROVE StatusInv'
<1>0. ProcInv
  BY DEF CoreInv
<1>1. CASE Serve
  BY <1>0, <1>1, ServeProc DEF StatusInv, StatusFacts, Usable, ProcInv
<1>2. CASE ServeEnd
  <2>1. /\ proc.state = "serving" /\ proc'.state = "exited" /\ proc'.status = 0 /\ ~proc.killed
        /\ proc'.env = proc.env /\ proc'.honest = proc.honest /\ proc'.args = proc.args
        /\ proc'.root = proc.root /\ ~stdin'
    BY <1>0, <1>2, EndProc DEF ProcInv
  <2>2. proc.honest => Usable(proc.env, proc.root) /\ proc.args = "none"
    BY <2>1 DEF StatusInv, StatusFacts
  <2>3. Usable(proc.env, proc.root)' <=> Usable(proc.env, proc.root)
    BY <2>1 DEF Usable
  <2> QED BY <2>1, <2>2, <2>3 DEF StatusInv, StatusFacts
<1>3. CASE Orphaned
  <2>1. Exits(1) /\ proc.state = "serving" /\ 1 \in Statuses
    BY <1>3 DEF Orphaned, Statuses
  <2>2. /\ proc'.state = "exited" /\ proc'.status = 1 /\ ~proc'.killed /\ ~proc.killed
        /\ proc'.env = proc.env /\ proc'.honest = proc.honest /\ proc'.served = proc.served
        /\ proc'.root = proc.root /\ proc'.args = proc.args
    BY <1>0, <2>1, ExitsProc DEF Live, ProcInv
  <2> QED BY <2>1, <2>2 DEF StatusInv, StatusFacts, Usable
<1> QED BY <1>1, <1>2, <1>3

(* What any step does to the process.                                      *)
LEMMA ProcSteps ==
  ASSUME CoreInv, [Next]_vars
  PROVE \/ proc' = proc /\ (stdin' = stdin \/ stdin' = FALSE)
        \/ Wait /\ UNCHANGED stdin
        \/ proc' = Killed /\ (stdin' = stdin \/ stdin' = FALSE)
        \/ ContextExpires
        \/ \E args \in Arguments, env \in Environments, root \in RootStates : Launch(args, env, root)
        \/ Boot \/ Serve \/ ServeEnd \/ Orphaned \/ Misbehave
<1> DEFINE Quietly == proc' = proc /\ (stdin' = stdin \/ stdin' = FALSE)
           Waited == Wait /\ UNCHANGED stdin
           Kills == proc' = Killed /\ (stdin' = stdin \/ stdin' = FALSE)
           Launches == \E args \in Arguments, env \in Environments, root \in RootStates : Launch(args, env, root)
<1>1. CASE UNCHANGED vars
  BY <1>1 DEF vars, processVars
<1>2. StartServer => Launches \/ Quietly
  <2>1. Scenario.readOnly \in BOOLEAN /\ "none" \in Arguments
    BY ScenarioFacts DEF CoreInv, RunnerTypes, Scenario, Arguments
  <2>2. BenchmarkEnvironment(Scenario.readOnly) \in Environments /\ {"directory", "forbidden"} \subseteq RootStates
    BY <2>1, PinnedEnvironment DEF RootStates
  <2>3. ASSUME NEW root \in {"directory", "forbidden"},
               Launch("none", BenchmarkEnvironment(Scenario.readOnly), root)
        PROVE Launches
    BY <2>1, <2>2, <2>3
  <2> HIDE DEF Launches
  <2> QED BY <2>3 DEF StartServer, NoServer
<1>3. ClientStarts => Launches
  BY BenchmarkAssumption DEF ClientStarts
<1>4. CreateCorpus \/ Judge \/ RemoveCorpus \/ WriteResult \/ Collect \/ CollectLate \/ ReadEnd => Quietly
  BY DEF CreateCorpus, Judge, RemoveCorpus, WriteResult, Collect, CollectLate, ReadEnd, NoServer
<1>5. WriteRequest \/ ReadResponse \/ Notify => Quietly
  BY DEF WriteRequest, Writes, ReadResponse, Notify
<1>6. CloseInput \/ Abort \/ TimerFires => Quietly \/ Kills
  BY DEF CloseInput, Abort, TimerFires
<1>7. WaitGoroutine \/ AbortWait => Waited
  BY DEF WaitGoroutine, AbortWait
<1>8. Die \/ ClientAsks \/ ClientCloses => Quietly
  BY DEF Die, ClientAsks, ClientCloses
<1>9. Exchange /\ UNCHANGED <<processVars, runnerVars>> => Quietly
  BY DEF processVars
<1> HIDE DEF Quietly, Waited, Kills, Launches
<1>10. CASE Runner
  BY <1>10, <1>2, <1>4, <1>5, <1>6, <1>7, Zenon DEF Runner, Quietly, Waited, Kills, Launches
<1>11. CASE Timers \/ Server
  BY <1>11, <1>6, Zenon DEF Timers, Server, ServerStep, Quietly, Kills
<1>12. CASE Die \/ ClientStarts \/ ClientAsks \/ ClientCloses \/ (Exchange /\ UNCHANGED <<processVars, runnerVars>>)
  BY <1>12, <1>3, <1>8, <1>9, Zenon DEF Quietly, Launches
<1> QED BY <1>1, <1>10, <1>11, <1>12, Zenon DEF Next

(* Every step keeps the promise.                                           *)
LEMMA StepStatus == CoreInv /\ StatusInv /\ [Next]_vars => StatusInv'
<1> SUFFICES ASSUME CoreInv, StatusInv, [Next]_vars PROVE StatusInv'
  OBVIOUS
<1>1. CASE Misbehave
  BY <1>1, MisbehaveProc DEF CoreInv, StatusInv
<1>2. (\E args \in Arguments, env \in Environments, root \in RootStates : Launch(args, env, root)) => StatusInv'
  BY StatusLaunched
<1> QED BY <1>1, <1>2, ProcSteps, StatusStays, StatusReaped, StatusKilled, StatusExpired, StatusBoot,
           StatusServes, Zenon

(* Before the first start there is no process.                             *)
LEMMA InitStatus == Init => StatusInv
  BY DEF Init, NoProcess, StatusInv

(* The exit status tells a supervisor the truth, for any arguments, any    *)
(* environment and any root (runCLI, exitCode, LoadFromEnvironment).       *)
THEOREM StatusTrue == Spec => []StatusTells
<1>1. CoreInv /\ StatusInv => StatusTells
  BY DEF StatusTells, StatusInv, StatusFacts, Usable
<1> QED BY <1>1, InitStatus, StepStatus, CoreAlways, PTL DEF Spec
(***************************************************************************)
(* What a sample stands for.                                               *)
(***************************************************************************)
Talking == {"write", "read", "notify", "close", "await"}
Before == InScenario \cup {"setup", "start"}
Sample == [readOnly : BOOLEAN, answers : Seq(Reply), exit : Proc]

(* Answers to the requests so far, in order, each a result.                *)
Replied(replies) == \A j \in 1..Len(replies) : replies[j].id = j /\ replies[j].kind = "result"

(* Tools of a profile are listed, or none are.                             *)
Pinned(replies, readOnly) == \A j \in 1..Len(replies) : replies[j].tools \in {{}, Contract(readOnly)}

(* A sample is a whole, clean and honest run of a scenario.                *)
Clean(sample, scenario) ==
  /\ sample.readOnly = scenario.readOnly
  /\ sample.exit.status = 0 /\ ~sample.exit.killed /\ ~sample.exit.expired
  /\ Len(sample.answers) = Len(scenario.methods) /\ Replied(sample.answers)
  /\ sample.exit.honest => Pinned(sample.answers, sample.readOnly)

SamplesInv ==
  /\ samples \in Seq(Sample) /\ Len(samples) <= Len(Scenarios)
  /\ \A i \in 1..Len(samples) : Clean(samples[i], Scenarios[i])

(* As many answers as the runner's place says, from a server of the        *)
(* scenario's profile.                                                     *)
AnswersInv ==
  /\ answers \in Seq(Reply) /\ Replied(answers)
  /\ pc \in Before => Len(samples) = k - 1
  /\ pc \in {"write", "read"} => Len(answers) = r - 1
  /\ pc = "notify" => Len(answers) = r
  /\ pc \in {"close", "await"} => Len(answers) = Len(Scenario.methods)
  /\ pc \in Talking => proc.env = BenchmarkEnvironment(Scenario.readOnly)
  /\ (pc \in Talking /\ proc.honest) =>
       Pinned(answers, Scenario.readOnly) /\ Pinned(outbox, Scenario.readOnly)

MeasureInv == SamplesInv /\ AnswersInv

(* Most steps add no answer and no sample, and leave the talk or stay.     *)
LEMMA MeasureStays ==
  ASSUME MeasureInv, UNCHANGED <<answers, k, r, samples>>,
         pc' \in Talking => /\ proc'.env = proc.env /\ (proc'.honest => proc.honest /\ outbox' = outbox)
                            /\ pc' = pc \/ (pc = "write" /\ pc' = "read") \/ (pc = "close" /\ pc' = "await"),
         pc' \in Before => pc \in Before
  PROVE MeasureInv'
<1>1. SamplesInv'
  BY DEF MeasureInv, SamplesInv
<1>2. answers' \in Seq(Reply) /\ Replied(answers)'
  BY DEF MeasureInv, AnswersInv
<1>3. pc' \in Before => Len(samples') = k' - 1
  BY DEF MeasureInv, AnswersInv
<1>4. /\ pc' \in {"write", "read"} => Len(answers') = r' - 1
      /\ pc' = "notify" => Len(answers') = r'
      /\ pc' \in {"close", "await"} => Len(answers') = Len(Scenario'.methods)
  BY DEF MeasureInv, AnswersInv, Talking, Scenario
<1>5. pc' \in Talking => pc \in Talking
  BY DEF Talking
<1>6. Scenario' = Scenario
  BY DEF Scenario
<1>7. pc' \in Talking => proc'.env = BenchmarkEnvironment(Scenario.readOnly)'
  BY <1>5, <1>6 DEF MeasureInv, AnswersInv, BenchmarkEnvironment
<1>8. (pc' \in Talking /\ proc'.honest) =>
         Pinned(answers, Scenario.readOnly)' /\ Pinned(outbox, Scenario.readOnly)'
  BY <1>5, <1>6 DEF MeasureInv, AnswersInv, Pinned, Contract
<1> QED BY <1>1, <1>2, <1>3, <1>4, <1>7, <1>8 DEF MeasureInv, AnswersInv

(* A server starts: nothing is answered yet.                               *)
LEMMA StartMeasure == ASSUME CoreInv, MeasureInv, StartServer PROVE MeasureInv'
<1>0. /\ UNCHANGED <<k, samples>> /\ answers' = <<>> /\ r' = 1 /\ pc = "start"
      /\ Scenario' = Scenario /\ <<>> \in Seq(Reply) /\ Len(<<>>) = 0
  BY DEF StartServer, Scenario
<1>1. SamplesInv'
  BY <1>0 DEF MeasureInv, SamplesInv
<1>2. answers' \in Seq(Reply) /\ Replied(answers)' /\ Pinned(answers, Scenario.readOnly)'
  BY <1>0 DEF Replied, Pinned
<1>3. Len(samples') = k' - 1
  BY <1>0 DEF MeasureInv, AnswersInv, Before
<1>4. CASE pc' = "remove"
  BY <1>1, <1>2, <1>4 DEF MeasureInv, AnswersInv, Talking, Before, InScenario
<1>5. CASE /\ \E root \in {"directory", "forbidden"} :
                Launch("none", BenchmarkEnvironment(Scenario.readOnly), root)
           /\ pc' = "write"
  <2>1. PICK root \in {"directory", "forbidden"} :
          Launch("none", BenchmarkEnvironment(Scenario.readOnly), root)
    BY <1>5
  <2>2. Scenario.readOnly \in BOOLEAN /\ "none" \in Arguments /\ root \in RootStates
    BY ScenarioFacts DEF CoreInv, RunnerTypes, Scenario, Arguments, RootStates
  <2>3. proc'.env = BenchmarkEnvironment(Scenario.readOnly) /\ outbox' = <<>>
    BY <2>1, <2>2, PinnedEnvironment, Launched
  <2>4. Pinned(outbox, Scenario.readOnly)'
    BY <2>3 DEF Pinned
  <2>5. BenchmarkEnvironment(Scenario.readOnly)' = BenchmarkEnvironment(Scenario.readOnly)
    BY <1>0 DEF BenchmarkEnvironment
  <2>6. Len(answers') = r' - 1
    BY <1>0
  <2> QED BY <1>1, <1>2, <1>3, <1>5, <2>3, <2>4, <2>5, <2>6 DEF MeasureInv, AnswersInv, Talking, Before
<1> QED BY <1>4, <1>5 DEF StartServer, Go

(* An answer is accepted if it is the next one, or ends the talk.          *)
LEMMA ResponseMeasure == ASSUME CoreInv, MeasureInv, ReadResponse PROVE MeasureInv'
<1>0. /\ pc = "read" /\ outbox # <<>> /\ outbox' = Tail(outbox) /\ UNCHANGED <<k, proc, samples>>
      /\ outbox \in Seq(Reply) /\ answers \in Seq(Reply) /\ Len(answers) = r - 1 /\ Scenario' = Scenario
      /\ r \in 1..Len(Scenario.methods) /\ Len(Scenario.methods) \in Nat
      /\ Len(samples) = k - 1 /\ proc.env = BenchmarkEnvironment(Scenario.readOnly)
  BY ScenarioFacts
     DEF ReadResponse, CoreInv, ProcInv, RunnerTypes, MeasureInv, AnswersInv, Scenario, Before, InScenario, Talking
<1>1. SamplesInv'
  BY <1>0 DEF MeasureInv, SamplesInv
<1>2. Head(outbox) \in Reply /\ Tail(outbox) \in Seq(Reply)
  BY <1>0, SeqParts
<1>3. CASE ~Decoded(Head(outbox))
  <2>1. pc' = "abort" /\ answers' = answers
    BY <1>3 DEF ReadResponse, Go
  <2> QED BY <1>0, <1>1, <2>1 DEF MeasureInv, AnswersInv, Talking, Before, InScenario, Replied
<1>4. CASE Decoded(Head(outbox))
  <2>1. answers' = Append(answers, Head(outbox)) /\ Head(outbox).id = r /\ Head(outbox).kind = "result"
    BY <1>4 DEF ReadResponse, Decoded
  <2>2. /\ answers' \in Seq(Reply) /\ Len(answers') = r /\ answers'[r] = Head(outbox)
        /\ \A i \in 1..(r - 1) : answers'[i] = answers[i]
    BY <1>0, <1>2, <2>1, SeqParts
  <2>3. Replied(answers)'
    <3>1. Replied(answers)
      BY DEF MeasureInv, AnswersInv
    <3>2. ASSUME NEW j \in 1..Len(answers') PROVE answers'[j].id = j /\ answers'[j].kind = "result"
      <4>1. CASE j = r
        BY <2>1, <2>2, <4>1
      <4>2. CASE j # r
        <5>1. j \in 1..(r - 1) /\ r - 1 = Len(answers)
          BY <1>0, <2>2, <4>2
        <5> QED BY <2>2, <3>1, <5>1 DEF Replied
      <4> QED BY <4>1, <4>2
    <3> QED BY <3>2 DEF Replied
  <2>4. proc'.honest => Pinned(answers, Scenario.readOnly)' /\ Pinned(outbox, Scenario.readOnly)'
    <3> SUFFICES ASSUME proc'.honest PROVE Pinned(answers, Scenario.readOnly)' /\ Pinned(outbox, Scenario.readOnly)'
      OBVIOUS
    <3>1. Pinned(answers, Scenario.readOnly) /\ Pinned(outbox, Scenario.readOnly)
      BY <1>0 DEF MeasureInv, AnswersInv, Talking
    <3>2. /\ Head(outbox) = outbox[1] /\ 1 \in 1..Len(outbox)
          /\ \A i \in 1..Len(outbox') : outbox'[i] = outbox[i + 1] /\ i + 1 \in 1..Len(outbox)
      BY <1>0, SeqParts
    <3>3. Contract(Scenario.readOnly)' = Contract(Scenario.readOnly)
      BY <1>0 DEF Contract
    <3>4. Pinned(outbox, Scenario.readOnly)'
      BY <3>1, <3>2, <3>3 DEF Pinned
    <3>5. Head(outbox).tools \in {{}, Contract(Scenario.readOnly)}
      BY <3>1, <3>2 DEF Pinned
    <3>6. ASSUME NEW j \in 1..Len(answers') PROVE answers'[j].tools \in {{}, Contract(Scenario.readOnly)}
      <4>1. CASE j = r
        BY <2>2, <3>5, <4>1
      <4>2. CASE j # r
        <5>1. j \in 1..(r - 1) /\ r - 1 = Len(answers)
          BY <1>0, <2>2, <4>2
        <5> QED BY <2>2, <3>1, <5>1 DEF Pinned
      <4> QED BY <4>1, <4>2
    <3> QED BY <3>3, <3>4, <3>6 DEF Pinned
  <2>5. BenchmarkEnvironment(Scenario.readOnly)' = BenchmarkEnvironment(Scenario.readOnly)
    BY <1>0 DEF BenchmarkEnvironment
  <2>6. \/ pc' = "notify" /\ r' = r
        \/ pc' = "write" /\ r' = r + 1
        \/ pc' = "close" /\ r' = r /\ ~NextRequest
    BY <1>4 DEF ReadResponse, Go
  <2>7. /\ pc' \in {"write", "read"} => Len(answers') = r' - 1
        /\ pc' = "notify" => Len(answers') = r'
        /\ pc' \in {"close", "await"} => Len(answers') = Len(Scenario'.methods)
    BY <1>0, <2>2, <2>6 DEF NextRequest
  <2> QED BY <1>0, <1>1, <2>2, <2>3, <2>4, <2>5, <2>7 DEF MeasureInv, AnswersInv
<1> QED BY <1>3, <1>4

(* The notification moves on to the next request.                          *)
LEMMA NotifyMeasure == ASSUME CoreInv, MeasureInv, Notify PROVE MeasureInv'
<1>0. /\ pc = "notify" /\ UNCHANGED <<k, answers, samples, proc, outbox>> /\ Scenario' = Scenario
      /\ r \in 1..Len(Scenario.methods) /\ Len(Scenario.methods) \in Nat /\ Len(answers) = r
      /\ answers \in Seq(Reply) /\ Replied(answers)
      /\ Len(samples) = k - 1 /\ proc.env = BenchmarkEnvironment(Scenario.readOnly)
      /\ proc.honest => Pinned(answers, Scenario.readOnly) /\ Pinned(outbox, Scenario.readOnly)
  BY ScenarioFacts
     DEF Notify, CoreInv, RunnerTypes, MeasureInv, AnswersInv, Scenario, Before, InScenario, Talking
<1>1. SamplesInv'
  BY <1>0 DEF MeasureInv, SamplesInv
<1>2. \/ pc' = "write" /\ r' = r + 1
      \/ pc' = "close" /\ ~NextRequest
      \/ pc' = "abort"
  BY DEF Notify, Go
<1>3. /\ pc' \in {"write", "read"} => Len(answers') = r' - 1
      /\ pc' # "notify"
      /\ pc' \in {"close", "await"} => Len(answers') = Len(Scenario'.methods)
  BY <1>0, <1>2 DEF NextRequest
<1>4. /\ BenchmarkEnvironment(Scenario.readOnly)' = BenchmarkEnvironment(Scenario.readOnly)
      /\ proc'.honest => Pinned(answers, Scenario.readOnly)' /\ Pinned(outbox, Scenario.readOnly)'
  BY <1>0 DEF BenchmarkEnvironment, Pinned, Contract
<1>5. Replied(answers)'
  BY <1>0 DEF Replied
<1> QED BY <1>0, <1>1, <1>3, <1>4, <1>5 DEF MeasureInv, AnswersInv

(* A sample is taken (executeScenario returns without an error).           *)
LEMMA CollectMeasure == ASSUME CoreInv, MeasureInv, Collect PROVE MeasureInv'
<1>0. /\ k \in Nat /\ k <= Len(Scenarios) /\ Len(Scenarios) \in Nat /\ pc = "await"
      /\ Len(samples) = k - 1 /\ samples \in Seq(Sample) /\ Scenario.readOnly \in BOOLEAN
      /\ proc \in Proc /\ answers \in Seq(Reply) /\ answers' = <<>>
  BY ScenarioFacts, BenchmarkAssumption
     DEF Collect, CoreInv, ProcInv, RunnerTypes, MeasureInv, AnswersInv, SamplesInv, Scenario, Before, InScenario
<1>1. answers' \in Seq(Reply) /\ Replied(answers)'
  BY <1>0 DEF Replied
<1>2. CASE badClose \/ WaitFailed
  <2>1. pc' = "remove" /\ UNCHANGED <<samples, k, r>>
    BY <1>2 DEF Collect, Go
  <2>2. SamplesInv'
    BY <2>1 DEF MeasureInv, SamplesInv
  <2> QED BY <1>1, <2>1, <2>2 DEF MeasureInv, AnswersInv, Talking, Before, InScenario
<1>3. CASE ~(badClose \/ WaitFailed)
  <2> DEFINE sample == [readOnly |-> Scenario.readOnly, answers |-> answers, exit |-> proc]
  <2>1. samples' = Append(samples, sample)
    BY <1>3 DEF Collect, Accept
  <2>2. sample \in Sample
    BY <1>0 DEF Sample
  <2>3. Clean(sample, Scenarios[k])
    <3>1. proc.status = 0 /\ ~proc.expired /\ ~proc.killed
      BY <1>3 DEF WaitFailed, CoreInv, ProcInv
    <3>2. /\ Len(answers) = Len(Scenario.methods) /\ Replied(answers)
          /\ proc.honest => Pinned(answers, Scenario.readOnly)
      BY <1>0 DEF MeasureInv, AnswersInv, Talking
    <3> QED BY <3>1, <3>2 DEF Clean, Scenario
  <2> HIDE DEF sample
  <2>4. /\ samples' \in Seq(Sample) /\ Len(samples') = k /\ samples'[k] = sample
        /\ \A i \in 1..(k - 1) : samples'[i] = samples[i]
    BY <1>0, <2>1, <2>2, SeqParts
  <2>5. SamplesInv'
    <3>1. ASSUME NEW i \in 1..k PROVE Clean(samples'[i], Scenarios[i])
      <4>1. CASE i = k
        BY <2>3, <2>4, <4>1
      <4>2. CASE i # k
        <5>1. i \in 1..(k - 1) /\ i \in 1..Len(samples)
          BY <1>0, <4>2
        <5> QED BY <2>4, <5>1 DEF MeasureInv, SamplesInv
      <4> QED BY <4>1, <4>2
    <3>2. ASSUME NEW i \in 1..Len(samples') PROVE Clean(samples[i], Scenarios[i])'
      BY <2>4, <3>1 DEF Clean, Replied, Pinned, Contract
    <3> QED BY <1>0, <2>4, <3>2 DEF SamplesInv
  <2>6. (pc' = "start" /\ k' = k + 1) \/ pc' = "judge"
    BY <1>3 DEF Collect, Accept, Go
  <2>7. pc' \in Before => Len(samples') = k' - 1
    BY <1>0, <2>4, <2>6 DEF Before, InScenario
  <2> QED BY <1>1, <2>5, <2>6, <2>7 DEF MeasureInv, AnswersInv, Talking
<1> QED BY <1>2, <1>3

(* The server answers with the tools of its profile, as long as it does    *)
(* not misbehave.                                                          *)
LEMMA ServeMeasure ==
  ASSUME CoreInv, MeasureInv, Serve, UNCHANGED <<resultVars, runnerVars>> PROVE MeasureInv'
<1>0. ProcInv /\ UNCHANGED <<answers, k, r, samples, pc>> /\ Scenario' = Scenario
  BY DEF CoreInv, runnerVars, Scenario
<1>1. /\ inbox # <<>> /\ proc'.env = proc.env /\ proc'.honest = proc.honest
      /\ outbox' = outbox \/ outbox' = Append(outbox, Answer(Head(inbox)))
  BY <1>0, ServeProc
<1>2. Answer(Head(inbox)) \in Reply /\ Answer(Head(inbox)).tools \in {{}, Tools(proc.env)}
  BY <1>0, <1>1, SeqParts, AnswerReply DEF ProcInv
<1>3. CASE outbox' = outbox
  BY <1>0, <1>1, <1>3, MeasureStays
<1>4. CASE outbox' = Append(outbox, Answer(Head(inbox)))
  <2> DEFINE answer == Answer(Head(inbox))
  <2>1. SamplesInv'
    BY <1>0 DEF MeasureInv, SamplesInv
  <2>2. (pc \in Talking /\ proc.honest) => Pinned(outbox, Scenario.readOnly)'
    <3> SUFFICES ASSUME pc \in Talking, proc.honest PROVE Pinned(outbox, Scenario.readOnly)'
      OBVIOUS
    <3>1. proc.env = BenchmarkEnvironment(Scenario.readOnly) /\ Pinned(outbox, Scenario.readOnly)
      BY DEF MeasureInv, AnswersInv
    <3>2. Scenario.readOnly \in BOOLEAN
      BY ScenarioFacts DEF CoreInv, RunnerTypes, Scenario
    <3>3. answer.tools \in {{}, Contract(Scenario.readOnly)}
      BY <1>2, <3>1, <3>2, PinnedEnvironment
    <3>4. /\ outbox \in Seq(Reply) /\ Len(outbox') = Len(outbox) + 1 /\ outbox'[Len(outbox) + 1] = answer
          /\ \A i \in 1..Len(outbox) : outbox'[i] = outbox[i]
      <4> HIDE DEF answer
      <4>1. outbox \in Seq(Reply) /\ answer \in Reply /\ outbox' = Append(outbox, answer)
        BY <1>0, <1>2, <1>4 DEF ProcInv, answer
      <4> QED BY <4>1, SeqParts
    <3> HIDE DEF answer
    <3>5. ASSUME NEW j \in 1..Len(outbox') PROVE outbox'[j].tools \in {{}, Contract(Scenario.readOnly)}
      <4>1. CASE j = Len(outbox) + 1
        BY <3>3, <3>4, <4>1
      <4>2. CASE j # Len(outbox) + 1
        <5>1. j \in 1..Len(outbox)
          BY <3>4, <4>2
        <5> QED BY <3>1, <3>4, <5>1 DEF Pinned
      <4> QED BY <4>1, <4>2
    <3> QED BY <1>0, <3>5 DEF Pinned, Contract
  <2>3. AnswersInv'
    <3>1. answers' \in Seq(Reply) /\ Replied(answers)'
      BY <1>0 DEF MeasureInv, AnswersInv, Replied
    <3>2. BenchmarkEnvironment(Scenario.readOnly)' = BenchmarkEnvironment(Scenario.readOnly)
      BY <1>0 DEF BenchmarkEnvironment
    <3>3. Pinned(answers, Scenario.readOnly)' <=> Pinned(answers, Scenario.readOnly)
      BY <1>0 DEF Pinned, Contract
    <3> QED BY <1>0, <1>1, <2>2, <3>1, <3>2, <3>3 DEF MeasureInv, AnswersInv
  <2> QED BY <2>1, <2>3 DEF MeasureInv
<1> QED BY <1>1, <1>3, <1>4

(* Every step keeps the measurement true.                                  *)
LEMMA StepMeasure == CoreInv /\ MeasureInv /\ [Next]_vars => MeasureInv'
<1> SUFFICES ASSUME CoreInv, MeasureInv, [Next]_vars PROVE MeasureInv'
  OBVIOUS
<1> USE DEF Go, NoServer, Elsewhere, NoResult
<1>0. ProcInv
  BY DEF CoreInv
<1>1. CASE UNCHANGED vars
  BY <1>1, MeasureStays DEF vars, processVars, runnerVars
<1>2. CASE CreateCorpus \/ ReadEnd \/ CollectLate \/ Judge \/ RemoveCorpus \/ WriteResult
  BY <1>2, MeasureStays
     DEF CreateCorpus, ReadEnd, CollectLate, Judge, RemoveCorpus, WriteResult, Talking, Before, InScenario
<1>3. CASE WriteRequest
  BY <1>3, MeasureStays DEF WriteRequest, Writes, Talking, Before, InScenario
<1>4. CASE CloseInput \/ TimerFires \/ Abort
  BY <1>0, <1>4, KilledProc, MeasureStays DEF CloseInput, TimerFires, Abort, Talking, Before, InScenario
<1>5. CASE WaitGoroutine \/ AbortWait
  BY <1>0, <1>5, WaitedFor, MeasureStays DEF WaitGoroutine, AbortWait, Talking, Before, InScenario
<1>6. CASE Runner
  BY <1>2, <1>3, <1>4, <1>5, <1>6, StartMeasure, ResponseMeasure, NotifyMeasure, CollectMeasure, Zenon DEF Runner
<1>7. CASE ContextExpires /\ UNCHANGED <<resultVars, runnerVars>>
  BY <1>0, <1>7, Expired, MeasureStays DEF ContextExpires, runnerVars
<1>8. CASE (Boot \/ ServeEnd \/ Orphaned) /\ UNCHANGED <<resultVars, runnerVars>>
  <2>1. CASE Boot
    BY <1>0, <1>8, <2>1, BootProc, MeasureStays DEF Boot, runnerVars
  <2>2. CASE ServeEnd
    BY <1>0, <1>8, <2>2, EndProc, MeasureStays DEF ServeEnd, runnerVars
  <2>3. CASE Orphaned
    <3>1. pc' \notin Talking
      BY <2>3 DEF Orphaned, runnerVars, Talking
    <3> QED BY <1>8, <3>1, MeasureStays DEF runnerVars
  <2> QED BY <1>8, <2>1, <2>2, <2>3
<1>9. CASE Timers \/ Server
  BY <1>4, <1>7, <1>8, <1>9, ServeMeasure, Zenon DEF Timers, Server, ServerStep, Orphaned
<1>10. CASE Die \/ ClientStarts \/ ClientAsks \/ ClientCloses
  BY <1>10, MeasureStays DEF Die, ClientStarts, ClientAsks, ClientCloses, Talking, Before, InScenario
<1>11. CASE Misbehave /\ UNCHANGED <<resultVars, runnerVars>>
  BY <1>0, <1>11, MisbehaveProc, MeasureStays DEF runnerVars
<1>12. CASE Exchange /\ UNCHANGED <<processVars, runnerVars>>
  BY <1>12, MeasureStays DEF processVars, runnerVars
<1> QED BY <1>1, <1>6, <1>9, <1>10, <1>11, <1>12, Zenon DEF Next

(* Before the first scenario there is no sample.                           *)
LEMMA InitMeasure == Init => MeasureInv
<1> SUFFICES ASSUME Init PROVE MeasureInv
  OBVIOUS
<1>1. /\ samples = <<>> /\ answers = <<>> /\ pc = "setup" /\ k = 1
      /\ Len(Scenarios) \in Nat /\ 0 <= Len(Scenarios)
  BY BenchmarkAssumption DEF Init
<1>2. (\A S : <<>> \in Seq(S)) /\ Len(<<>>) = 0
  OBVIOUS
<1>3. SamplesInv
  <2>1. samples \in Seq(Sample)
    BY <1>1, <1>2, Zenon
  <2> QED BY <1>1, <2>1 DEF SamplesInv
<1>4. answers \in Seq(Reply) /\ Replied(answers)
  <2>1. answers \in Seq(Reply)
    BY <1>1, <1>2, Zenon
  <2> QED BY <1>1, <2>1 DEF Replied
<1> QED BY <1>1, <1>3, <1>4 DEF MeasureInv, AnswersInv, Talking

(* A sample is always a whole, clean run of the profile asked for, for any *)
(* scenarios, however its server, its exit, the timers and the caller      *)
(* behave (executeScenario, controlledExit, benchmarkEnvironment).         *)
THEOREM SamplesCorrect == Spec => []SamplesTrue
<1>1. MeasureInv => SamplesTrue
  <2> SUFFICES ASSUME MeasureInv PROVE SamplesTrue
    OBVIOUS
  <2>1. samples \in Seq(Sample) /\ \A i \in 1..Len(samples) : Clean(samples[i], Scenarios[i])
    BY DEF MeasureInv, SamplesInv
  <2>2. OnlyCleanRunsCount
    BY <2>1 DEF OnlyCleanRunsCount, Clean, Replied
  <2>3. ASSUME NEW i \in DOMAIN samples, samples[i].exit.honest, NEW tools \in Listed(samples[i])
        PROVE tools = Contract(samples[i].readOnly)
    <3>1. i \in 1..Len(samples) /\ samples[i] \in Sample
      BY <2>1, <2>3
    <3>2. Pinned(samples[i].answers, samples[i].readOnly)
      BY <2>1, <2>3, <3>1, Zenon DEF Clean
    <3>3. samples[i].answers \in Seq(Reply)
      BY <3>1 DEF Sample
    <3> QED BY <2>3, <3>2, <3>3 DEF Pinned, Listed
  <2> QED BY <2>2, <2>3 DEF SamplesTrue, ProfilePinned
<1> QED BY <1>1, InitMeasure, StepMeasure, CoreAlways, PTL DEF Spec
(***************************************************************************)
(* The result file (ResultFile.tla).                                       *)
(***************************************************************************)
Early == {"waiting", "mkdir", "openBase"}
Unwritten == Early \cup {"openOut", "bound1", "target1", "create"}
Whole == {"target2", "bound2", "rename"}
Renamed == {"identity", "bound3", "unpublish", "written"}
AfterBound == {"target1", "create", "write"} \cup Whole \cup Renamed

(* The writer's place tells what the temporary file holds; from its first  *)
(* look on it writes in a directory that is not the baseline's; and unless *)
(* others interfere, what it has looked at stays so.                       *)
TempInv ==
  /\ step \in Unwritten => temp = "none"
  /\ step = "write" => temp = "partial"
  /\ step \in Whole => temp = "new"
  /\ step \in Renamed => temp = "moved"
BoundInv ==
  /\ step \in Early => bound["base"] = "none"
  /\ step \in AfterBound => bound["out"] # bound["base"] /\ bound["out"] \in Directories
AloneInv ==
  foreign = 0 =>
    /\ step \in AfterBound => names = bound
    /\ temp # "moved" => entry[names["out"]] = was
    /\ temp = "moved" => names = bound /\ entry[bound["out"]] \in {"new", "absent"}
    /\ step \in {"create", "write"} \cup Whole => ResultTarget
    /\ step \in {"identity", "bound3", "written"} => entry[bound["out"]] = "new"
FileInv ==
  /\ ResultTypeOK /\ TempInv /\ BoundInv /\ AloneInv
  /\ \A d \in Directories : entry[d] # "partial"

(* What is left over takes a failure or somebody else, and a second one to *)
(* be left for good; giving up after the rename takes one as well.         *)
LeftInv ==
  /\ step \in {"unpublish", "tidy", "closed"} /\ temp = "moved" => faults + foreign >= 1
  /\ step = "tidy" => temp \in {"none", "moved"} \/ faults + foreign >= 1
  /\ step = "closed" => temp \in {"none", "moved"} \/ faults + foreign >= 2

(* Where the runner is while the writer works.                             *)
WriterInv ==
  /\ pc \notin {"result", "done", "dead"} => step = "waiting"
  /\ pc = "done" => step \in {"waiting", "written", "closed"}
  /\ pc = "done" => (code # 1 <=> step = "written")
  /\ pc = "result" => code # 1

OutputInv == FileInv /\ LeftInv /\ WriterInv

(* The writer begins on any entry but half a result.                       *)
LEMMA BeginFile == ASSUME FileInv, BeginWriting PROVE FileInv' /\ step' = "mkdir"
<1>1. /\ step = "waiting" /\ step' = "mkdir" /\ names' \in [{"out", "base"} -> Directories]
      /\ UNCHANGED <<bound, temp, foreign>> /\ was' \in {"absent", "old", "link", "directory"}
      /\ entry' = [entry EXCEPT ![names'["out"]] = was']
  BY DEF BeginWriting
<1>3. /\ entry' \in [Directories -> Entries] /\ entry'[names'["out"]] = was' /\ was' \in Entries
      /\ \A d \in Directories : entry'[d] # "partial"
  BY <1>1 DEF FileInv, ResultTypeOK, Entries
<1>4. ResultTypeOK'
  BY <1>1, <1>3 DEF FileInv, ResultTypeOK, WriterSteps
<1>5. TempInv' /\ BoundInv' /\ AloneInv'
  BY <1>1, <1>3 DEF FileInv, TempInv, BoundInv, AloneInv, Early, Unwritten, Whole, Renamed, AfterBound
<1> QED BY <1>1, <1>3, <1>4, <1>5 DEF FileInv

(* The calls that open the directories.                                    *)
LEMMA OpenFile ==
  ASSUME FileInv, MakeParent \/ OpenBaseline \/ OpenOutput
  PROVE  FileInv' /\ step' \notin {"unpublish", "tidy", "closed"}
<1>1. /\ step \in Unwritten /\ step' \in {"openBase", "openOut", "bound1"} /\ UNCHANGED <<entry, was, temp, foreign, names>>
      /\ bound' \in [{"out", "base"} -> Directories \cup {"none"}]
      /\ step' = "openBase" => UNCHANGED bound /\ step = "mkdir"
  BY DEF MakeParent, OpenBaseline, OpenOutput, Advance, Quiet, Unwritten, Early, FileInv, ResultTypeOK
<1>2. ResultTypeOK'
  BY <1>1 DEF FileInv, ResultTypeOK, WriterSteps
<1>3. TempInv' /\ BoundInv' /\ AloneInv'
  BY <1>1 DEF FileInv, TempInv, BoundInv, AloneInv, Early, Unwritten, Whole, Renamed, AfterBound
<1> QED BY <1>1, <1>2, <1>3 DEF FileInv

(* The looks at the directories and at the target (validateBoundDirectories, *)
(* validateResultTarget).                                                  *)
LEMMA ValidateFile ==
  ASSUME FileInv, LeftInv, faults \in Nat, UNCHANGED faults, Validations PROVE FileInv' /\ LeftInv'
<1>0. /\ ResultTypeOK /\ TempInv /\ BoundInv /\ AloneInv /\ UNCHANGED <<names, was, foreign, bound, entry, temp>>
      /\ foreign \in Nat
  BY ResultAssumption DEF FileInv, ResultTypeOK, Validations, Validate, Quiet
<1>1. \A d \in Directories : entry'[d] # "partial"
  BY <1>0 DEF FileInv
<1> USE DEF TempInv, BoundInv, AloneInv, LeftInv, Early, Unwritten, Whole, Renamed, AfterBound
<1>2. CASE Validate("bound1", BoundDirectories, "target1", "closed")
  <2>1. /\ step = "bound1" /\ step' \in {"target1", "closed"}
        /\ step' = "target1" => names = bound /\ names["out"] # names["base"]
    BY <1>2 DEF Validate, BoundDirectories
  <2>2. step' \in WriterSteps
    BY <2>1 DEF WriterSteps
  <2>3. ResultTypeOK'
    BY <1>0, <2>2 DEF ResultTypeOK
  <2>4. names["out"] \in Directories
    BY <1>0 DEF ResultTypeOK
  <2> QED BY <1>0, <1>1, <2>1, <2>3, <2>4 DEF FileInv
<1>3. CASE Validate("target1", ResultTarget, "create", "closed")
  <2>1. /\ step = "target1" /\ step' \in {"create", "closed"} /\ (step' = "create" => ResultTarget)
    BY <1>3 DEF Validate
  <2>2. ResultTypeOK' /\ (ResultTarget => ResultTarget')
    BY <1>0, <2>1 DEF ResultTypeOK, WriterSteps, ResultTarget
  <2> QED BY <1>0, <1>1, <2>1, <2>2 DEF FileInv
<1>4. CASE Validate("target2", ResultTarget, "bound2", "tidy")
  <2>1. /\ step = "target2" /\ step' \in {"bound2", "tidy"} /\ (step' = "bound2" <=> ResultTarget)
    BY <1>4 DEF Validate
  <2>2. ResultTypeOK' /\ (ResultTarget => ResultTarget')
    BY <1>0, <2>1 DEF ResultTypeOK, WriterSteps, ResultTarget
  <2>3. step' = "tidy" => faults + foreign >= 1
    BY <1>0, <2>1
  <2> QED BY <1>0, <1>1, <2>1, <2>2, <2>3 DEF FileInv
<1>5. CASE Validate("bound2", BoundDirectories, "rename", "tidy")
  <2>1. /\ step = "bound2" /\ step' \in {"rename", "tidy"} /\ (step' = "rename" <=> BoundDirectories)
    BY <1>5 DEF Validate
  <2>2. ResultTypeOK' /\ (ResultTarget => ResultTarget')
    BY <1>0, <2>1 DEF ResultTypeOK, WriterSteps, ResultTarget
  <2>3. step' = "tidy" => faults + foreign >= 1
    BY <1>0, <2>1 DEF BoundDirectories
  <2> QED BY <1>0, <1>1, <2>1, <2>2, <2>3 DEF FileInv
<1>6. CASE \/ Validate("identity", entry[bound["out"]] \in {"new", "partial"}, "bound3", "tidy")
           \/ Validate("bound3", BoundDirectories, "written", "unpublish")
  <2>1. \/ step = "identity" /\ step' \in {"bound3", "tidy"}
        \/ step = "bound3" /\ step' \in {"written", "unpublish"}
    BY <1>6 DEF Validate
  <2>2. ResultTypeOK'
    BY <1>0, <2>1 DEF ResultTypeOK, WriterSteps
  <2>3. step' \in {"tidy", "unpublish"} => foreign >= 1
    BY <1>0, <1>6 DEF Validate, BoundDirectories
  <2> QED BY <1>0, <1>1, <2>1, <2>2, <2>3 DEF FileInv
<1> QED BY <1>2, <1>3, <1>4, <1>5, <1>6 DEF Validations

(* The temporary file is created, written and renamed.                     *)
LEMMA RenameFile ==
  ASSUME FileInv, LeftInv, faults \in Nat, UNCHANGED faults,
         CreateTemporary \/ WriteTemporary \/ RenameTemporary
  PROVE FileInv' /\ LeftInv'
<1>0. /\ ResultTypeOK /\ TempInv /\ BoundInv /\ AloneInv /\ UNCHANGED <<names, was, foreign, bound>>
      /\ foreign \in Nat /\ \A d \in Directories : entry[d] # "partial"
  BY ResultAssumption DEF FileInv, ResultTypeOK, CreateTemporary, WriteTemporary, RenameTemporary, Quiet
<1> USE DEF TempInv, BoundInv, AloneInv, LeftInv, Early, Unwritten, Whole, Renamed, AfterBound
<1>1. CASE CreateTemporary \/ WriteTemporary
  <2>1. /\ entry' = entry
        /\ \/ step = "create" /\ step' = "write" /\ temp' = "partial"
           \/ step = "write" /\ step' = "target2" /\ temp' = "new"
    BY <1>1 DEF CreateTemporary, WriteTemporary, Advance
  <2>2. ResultTypeOK' /\ (ResultTarget => ResultTarget')
    BY <1>0, <2>1 DEF ResultTypeOK, WriterSteps, ResultTarget
  <2> QED BY <1>0, <2>1, <2>2 DEF FileInv
<1>2. CASE RenameTemporary
  <2>1. step = "rename" /\ bound["out"] \in Directories /\ temp = "new"
    BY <1>0, <1>2 DEF RenameTemporary
  <2>2. CASE entry[bound["out"]] = "directory"
    <3>1. step' = "tidy" /\ UNCHANGED <<entry, temp>>
      BY <1>2, <2>2 DEF RenameTemporary
    <3>2. ResultTypeOK'
      BY <1>0, <3>1 DEF ResultTypeOK, WriterSteps
    <3>3. faults + foreign >= 1
      BY <1>0, <2>1, <2>2 DEF ResultTarget
    <3> QED BY <1>0, <3>1, <3>2, <3>3 DEF FileInv
  <2>3. CASE entry[bound["out"]] # "directory"
    <3>1. step' = "identity" /\ entry' = [entry EXCEPT ![bound["out"]] = "new"] /\ temp' = "moved"
      BY <1>2, <2>1, <2>3 DEF RenameTemporary
    <3>2. /\ entry' \in [Directories -> Entries] /\ entry'[bound["out"]] = "new"
          /\ \A d \in Directories : entry'[d] # "partial"
      BY <1>0, <2>1, <3>1 DEF ResultTypeOK, Entries
    <3>3. ResultTypeOK'
      BY <1>0, <3>1, <3>2 DEF ResultTypeOK, WriterSteps
    <3> QED BY <1>0, <2>1, <3>1, <3>2, <3>3 DEF FileInv
  <2> QED BY <2>2, <2>3
<1> QED BY <1>1, <1>2

(* What is undone and removed at the end.                                  *)
LEMMA TidyFile ==
  ASSUME FileInv, LeftInv, faults \in Nat, UNCHANGED faults, Unpublish \/ RemoveTemporary(TRUE)
  PROVE  FileInv' /\ LeftInv'
<1>0. /\ ResultTypeOK /\ TempInv /\ BoundInv /\ AloneInv /\ UNCHANGED <<names, was, foreign, bound>>
      /\ foreign \in Nat /\ \A d \in Directories : entry[d] # "partial"
  BY ResultAssumption DEF FileInv, ResultTypeOK, Unpublish, RemoveTemporary, Quiet
<1> USE DEF TempInv, BoundInv, AloneInv, LeftInv, Early, Unwritten, Whole, Renamed, AfterBound
<1>1. CASE Unpublish
  <2>1. /\ step = "unpublish" /\ step' = "tidy" /\ temp' = "moved" /\ bound["out"] \in Directories
        /\ entry' = [entry EXCEPT ![bound["out"]] = "absent"]
    BY <1>0, <1>1 DEF Unpublish, Advance
  <2>2. entry' \in [Directories -> Entries] /\ entry'[bound["out"]] = "absent" /\ \A d \in Directories : entry'[d] # "partial"
    BY <1>0, <2>1 DEF ResultTypeOK, Entries
  <2>3. ResultTypeOK'
    BY <1>0, <2>1, <2>2 DEF ResultTypeOK, WriterSteps
  <2> QED BY <1>0, <2>1, <2>2, <2>3 DEF FileInv
<1>2. CASE RemoveTemporary(TRUE)
  <2>1. /\ step = "tidy" /\ step' = "closed" /\ entry' = entry
        /\ temp' \in {"none", "moved"} /\ (temp' = "moved" <=> temp = "moved")
    BY <1>2 DEF RemoveTemporary, Advance
  <2>2. ResultTypeOK'
    BY <1>0, <2>1 DEF ResultTypeOK, WriterSteps
  <2>3. LeftInv'
    BY <1>0, <2>1
  <2> QED BY <1>0, <2>1, <2>2, <2>3 DEF FileInv
<1> QED BY <1>1, <1>2

(* A call fails, or the removal does.                                      *)
LEMMA FaultFile ==
  ASSUME FileInv, LeftInv, faults \in Nat, faults' = faults + 1, WriterFault PROVE FileInv' /\ LeftInv'
<1>0. /\ ResultTypeOK /\ TempInv /\ BoundInv /\ AloneInv /\ UNCHANGED <<names, was, foreign, bound, entry>>
      /\ foreign \in Nat /\ \A d \in Directories : entry[d] # "partial"
  BY ResultAssumption DEF FileInv, ResultTypeOK, WriterFault, CallFails, RemoveTemporary, Quiet
<1>1. step' \in {"tidy", "closed"} \/ (step' = "unpublish" /\ step = "bound3")
  BY DEF WriterFault, CallFails, RemoveTemporary, Advance
<1>2. temp' = temp
  BY DEF WriterFault, CallFails, RemoveTemporary
<1>3. ResultTypeOK'
  BY <1>0, <1>1, <1>2 DEF ResultTypeOK, WriterSteps
<1>4. FileInv'
  BY <1>0, <1>1, <1>2, <1>3
     DEF FileInv, TempInv, BoundInv, AloneInv, Early, Unwritten, Whole, Renamed, AfterBound
<1>5. LeftInv'
  <2>1. CASE CallFails
    BY <1>0, <2>1 DEF CallFails, LeftInv, TempInv, Renamed
  <2>2. CASE RemoveTemporary(FALSE)
    BY <1>0, <2>2 DEF RemoveTemporary, Advance, LeftInv
  <2> QED BY <2>1, <2>2 DEF WriterFault
<1> QED BY <1>4, <1>5

(* Others exchange a path or an entry, and leave no half result.           *)
LEMMA ExchangeFile ==
  ASSUME FileInv, LeftInv, faults \in Nat, UNCHANGED faults, Exchange PROVE FileInv' /\ LeftInv' /\ UNCHANGED step
<1>0. /\ UNCHANGED <<bound, was, temp, step>> /\ foreign' = foreign + 1 /\ foreign \in Nat /\ foreign' # 0
      /\ foreign' \in 0..MaxForeign /\ ResultTypeOK /\ TempInv /\ BoundInv
  BY ResultAssumption DEF Exchange, FileInv, ResultTypeOK
<1>1. names' \in [{"out", "base"} -> Directories]
  BY DEF Exchange, FileInv, ResultTypeOK
<1>2. entry' \in [Directories -> Entries] /\ \A d \in Directories : entry'[d] # "partial"
  BY DEF Exchange, FileInv, ResultTypeOK, Entries
<1>3. ResultTypeOK'
  BY <1>0, <1>1, <1>2 DEF ResultTypeOK
<1>4. FileInv'
  BY <1>0, <1>2, <1>3 DEF FileInv, TempInv, BoundInv, AloneInv
<1> QED BY <1>0, <1>4 DEF LeftInv

(* A step that is not the writer's leaves the file as it is.               *)
LEMMA OutputStays ==
  ASSUME CoreInv, OutputInv, UNCHANGED resultVars, faults' \in {faults, faults + 1},
         pc' \notin {"result", "done", "dead"} => pc \notin {"result", "done", "dead"},
         pc' = "done" => step \in {"waiting", "written", "closed"} /\ (code' # 1 <=> step = "written"),
         pc' = "result" => code' # 1
  PROVE OutputInv'
<1>1. faults \in Nat /\ foreign \in Nat
  BY ProcessAssumption, ResultAssumption DEF CoreInv, ProcInv, OutputInv, FileInv, ResultTypeOK
<1>2. FileInv'
  BY DEF resultVars, OutputInv, FileInv, ResultTypeOK, TempInv, BoundInv, AloneInv, ResultTarget
<1>3. LeftInv'
  <2>1. UNCHANGED <<step, temp, foreign>>
    BY DEF resultVars
  <2>a. foreign' \in Nat /\ foreign' = foreign
    BY <1>1, <2>1
  <2>b. faults' \in Nat /\ (faults' = faults \/ faults' = faults + 1)
    BY <1>1
  <2>2. faults' + foreign' >= faults + foreign /\ faults + foreign \in Nat /\ faults' + foreign' \in Nat
    <3>1. \A a, b, c \in Nat : (c = a \/ c = a + 1) => c + b >= a + b /\ a + b \in Nat /\ c + b \in Nat
      OBVIOUS
    <3> QED BY <1>1, <2>a, <2>b, <3>1, Zenon
  <2> DEFINE sum == faults + foreign
  <2>3. LeftInv <=> /\ step \in {"unpublish", "tidy", "closed"} /\ temp = "moved" => sum >= 1
                    /\ step = "tidy" => temp \in {"none", "moved"} \/ sum >= 1
                    /\ step = "closed" => temp \in {"none", "moved"} \/ sum >= 2
    BY DEF LeftInv
  <2>4. LeftInv' <=> /\ step' \in {"unpublish", "tidy", "closed"} /\ temp' = "moved" => sum' >= 1
                     /\ step' = "tidy" => temp' \in {"none", "moved"} \/ sum' >= 1
                     /\ step' = "closed" => temp' \in {"none", "moved"} \/ sum' >= 2
    BY DEF LeftInv
  <2>5. sum' >= sum /\ sum \in Nat /\ sum' \in Nat
    BY <2>2
  <2> HIDE DEF sum
  <2> QED BY <2>1, <2>3, <2>4, <2>5 DEF OutputInv
<1>4. WriterInv'
  BY DEF resultVars, OutputInv, WriterInv
<1> QED BY <1>2, <1>3, <1>4 DEF OutputInv

(* The writer's steps.                                                     *)
LEMMA WriteOutput == ASSUME CoreInv, OutputInv, WriteResult PROVE OutputInv'
<1>0. faults \in Nat /\ pc = "result" /\ FileInv /\ LeftInv
  BY ProcessAssumption DEF CoreInv, ProcInv, OutputInv, WriteResult
<1>1. CASE WriterStep /\ UNCHANGED <<pc, code, faults>>
  <2>1. FileInv' /\ LeftInv'
    <3>1. CASE MakeParent \/ OpenBaseline \/ OpenOutput
      BY <1>0, <3>1, OpenFile DEF LeftInv
    <3> QED BY <1>0, <1>1, <3>1, ValidateFile, RenameFile, TidyFile, Zenon DEF WriterStep
  <2> QED BY <1>0, <1>1, <2>1 DEF OutputInv, WriterInv
<1>2. CASE WriterFault /\ Fault /\ UNCHANGED <<pc, code>>
  <2>1. faults' = faults + 1
    BY <1>2 DEF Fault
  <2> QED BY <1>0, <1>2, <2>1, FaultFile DEF OutputInv, WriterInv
<1>3. CASE step = "written" /\ Go("done") /\ UNCHANGED <<code, resultVars, faults>>
  BY <1>0, <1>3, OutputStays DEF Go, OutputInv, WriterInv
<1>4. CASE step = "closed" /\ Go("done") /\ code' = 1 /\ UNCHANGED <<resultVars, faults>>
  BY <1>4, OutputStays DEF Go
<1> QED BY <1>1, <1>2, <1>3, <1>4 DEF WriteResult

(* The writer is called, unless the run has failed.                        *)
LEMMA RemoveOutput == ASSUME CoreInv, OutputInv, RemoveCorpus PROVE OutputInv'
<1>0. step = "waiting" /\ faults' \in {faults, faults + 1} /\ code' = code
  BY DEF RemoveCorpus, Fault, OutputInv, WriterInv
<1>1. CASE code = 1
  BY <1>0, <1>1, OutputStays DEF RemoveCorpus, Go
<1>2. CASE code # 1
  BY <1>0, <1>2, BeginFile DEF RemoveCorpus, Go, OutputInv, LeftInv, WriterInv
<1> QED BY <1>1, <1>2

(* Every step keeps the file's promise.                                    *)
LEMMA StepOutput == CoreInv /\ OutputInv /\ [Next]_vars => OutputInv'
<1> SUFFICES ASSUME CoreInv, OutputInv, [Next]_vars PROVE OutputInv'
  OBVIOUS
<1> USE DEF Go, NoServer, Elsewhere, NoResult
<1>0. pc \in RunnerSteps \cup Clients => pc \notin {"done", "dead"}
  BY DEF RunnerSteps, InScenario, Clients
<1>1. CASE UNCHANGED vars
  <2>1. UNCHANGED resultVars /\ UNCHANGED <<pc, code, faults>>
    BY <1>1 DEF vars, processVars, runnerVars
  <2> QED BY <2>1, OutputStays DEF OutputInv, WriterInv
<1>2. CASE CreateCorpus \/ StartServer \/ WriteRequest \/ ReadResponse \/ ReadEnd \/ Notify
  <2>1. CASE CreateCorpus
    BY <2>1, OutputStays DEF CreateCorpus, Fault, OutputInv, WriterInv
  <2>2. CASE StartServer \/ WriteRequest \/ ReadResponse \/ ReadEnd \/ Notify
    BY <2>2, OutputStays DEF StartServer, WriteRequest, Writes, ReadResponse, ReadEnd, Notify, Fault
  <2> QED BY <1>2, <2>1, <2>2
<1>3. CASE CloseInput \/ WaitGoroutine \/ Collect \/ CollectLate \/ Abort \/ AbortWait \/ Judge
  BY <1>3, OutputStays
     DEF CloseInput, WaitGoroutine, Collect, Accept, CollectLate, Abort, AbortWait, Judge, Fault
<1>4. CASE Runner
  BY <1>2, <1>3, <1>4, RemoveOutput, WriteOutput, Zenon DEF Runner
<1>5. CASE TimerFires \/ Die \/ ClientStarts \/ ClientAsks \/ ClientCloses
  BY <1>5, OutputStays DEF TimerFires, Die, Fault, ClientStarts, ClientAsks, ClientCloses, RunnerSteps, InScenario
<1>6. CASE (ServerStep \/ Orphaned \/ ContextExpires \/ Misbehave) /\ UNCHANGED <<resultVars, runnerVars>>
  <2>1. faults' \in {faults, faults + 1}
    BY <1>6 DEF ServerStep, Boot, Serve, ServeEnd, Orphaned, ContextExpires, Misbehave, Fault
  <2> QED BY <1>6, <2>1, OutputStays DEF runnerVars, OutputInv, WriterInv
<1>7. CASE Timers \/ Server
  BY <1>5, <1>6, <1>7, Zenon DEF Timers, Server, Orphaned
<1>8. CASE Exchange /\ UNCHANGED <<processVars, runnerVars>>
  <2>1. faults \in Nat /\ faults' = faults
    BY <1>8, ProcessAssumption DEF CoreInv, ProcInv, processVars
  <2> QED BY <1>8, <2>1, ExchangeFile DEF runnerVars, OutputInv, WriterInv
<1> QED BY <1>1, <1>4, <1>5, <1>6, <1>7, <1>8, Zenon DEF Next

(* Before the writer is called nothing is bound.                           *)
LEMMA InitOutput == Init => OutputInv
<1> SUFFICES ASSUME Init PROVE OutputInv
  OBVIOUS
<1>1. ResultInit /\ pc = "setup"
  BY DEF Init
<1>2. ResultTypeOK
  BY <1>1, ResultAssumption DEF ResultInit, ResultTypeOK, Directories, Entries
<1>3. /\ \A d \in Directories : entry[d] # "partial"
      /\ entry[names["out"]] = was
  BY <1>1 DEF ResultInit, Directories
<1> QED BY <1>1, <1>2, <1>3
        DEF ResultInit, OutputInv, FileInv, TempInv, BoundInv, AloneInv, LeftInv, WriterInv, Early, Unwritten,
            Whole, Renamed, AfterBound

(* No step of the benchmark's changes an entry of the baseline it holds.   *)
LEMMA BaselineKept ==
  ASSUME OutputInv, [Next]_vars, bound["base"] # "none", foreign' = foreign
  PROVE entry'[bound["base"]] = entry[bound["base"]]
<1>0. /\ FileInv /\ WriterInv /\ bound \in [{"out", "base"} -> Directories \cup {"none"}]
      /\ entry \in [Directories -> Entries] /\ bound["base"] \in Directories /\ step \notin Early /\ foreign \in Nat
  BY ResultAssumption DEF OutputInv, FileInv, ResultTypeOK, BoundInv
<1>1. CASE UNCHANGED entry
  BY <1>1
<1>2. CASE RenameTemporary \/ Unpublish
  <2>1. bound["out"] # bound["base"]
    BY <1>0, <1>2 DEF RenameTemporary, Unpublish, Advance, FileInv, BoundInv, AfterBound, Whole, Renamed
  <2> QED BY <1>0, <1>2, <2>1 DEF RenameTemporary, Unpublish
<1>3. ~BeginWriting
  BY <1>0 DEF BeginWriting, Early
<1>4. ~Exchange
  BY <1>0 DEF Exchange
<1>5. UNCHANGED resultVars => UNCHANGED entry
  BY DEF resultVars
<1>6. RemoveCorpus => UNCHANGED entry
  BY <1>3, <1>5 DEF RemoveCorpus
<1>7. WriterStep \/ WriterFault => UNCHANGED entry \/ RenameTemporary \/ Unpublish
  BY DEF WriterStep, MakeParent, OpenBaseline, OpenOutput, Validations, Validate, CreateTemporary,
         WriteTemporary, RemoveTemporary, WriterFault, CallFails
<1>8. WriteResult => UNCHANGED entry \/ RenameTemporary \/ Unpublish
  BY <1>5, <1>7 DEF WriteResult
<1>9. CASE CreateCorpus \/ StartServer \/ WriteRequest \/ ReadResponse \/ ReadEnd \/ Notify \/ CloseInput
           \/ WaitGoroutine \/ Collect \/ CollectLate \/ Abort \/ AbortWait \/ Judge
  BY <1>1, <1>5, <1>9
     DEF CreateCorpus, StartServer, WriteRequest, Writes, ReadResponse, ReadEnd, Notify, CloseInput, WaitGoroutine,
         Collect, CollectLate, Abort, AbortWait, Judge, NoResult, Elsewhere
<1>10. CASE TimerFires \/ Die \/ ClientStarts \/ ClientAsks \/ ClientCloses
  BY <1>1, <1>5, <1>10 DEF TimerFires, Die, ClientStarts, ClientAsks, ClientCloses, NoResult, Elsewhere
<1>11. CASE UNCHANGED vars \/ UNCHANGED <<resultVars, runnerVars>>
  BY <1>1, <1>5, <1>11 DEF vars
<1> QED BY <1>1, <1>2, <1>4, <1>6, <1>8, <1>9, <1>10, <1>11, Zenon DEF Next, Runner, Timers, Server, Orphaned

(* The baseline is never written and the target never leads to half a      *)
(* result, for any number of failures and exchanges by others.  Without    *)
(* exchanges the status tells the truth: the result is there unless it is  *)
(* 1; if it is 1 the target is what it was, or a failure after the rename  *)
(* left the result there or removed it (writeResultFile).                  *)
THEOREM ResultCorrect == Spec => ResultSafe
<1>1. CoreInv /\ OutputInv => ResultTells
  <2> SUFFICES ASSUME CoreInv, OutputInv PROVE ResultTells
    OBVIOUS
  <2>1. faults \in Nat /\ foreign \in Nat
    BY ProcessAssumption, ResultAssumption DEF CoreInv, ProcInv, OutputInv, FileInv, ResultTypeOK
  <2>2. (pc = "done" /\ foreign = 0 /\ code # 1) => entry[names["out"]] = "new"
    BY DEF OutputInv, WriterInv, FileInv, AloneInv, AfterBound, Renamed
  <2>a. (pc = "done" /\ foreign = 0 /\ code = 1) =>
          LET there == entry[names["out"]]
          IN  there = was \/ (temp = "moved" /\ faults > 0 /\ there \in {"new", "absent"})
    BY <2>1 DEF OutputInv, WriterInv, FileInv, AloneInv, TempInv, LeftInv, Unwritten, Early
  <2>3. (pc = "done" /\ faults + foreign <= 1) => temp \in {"none", "moved"}
    BY <2>1 DEF OutputInv, WriterInv, FileInv, TempInv, LeftInv, Unwritten, Early, Renamed
  <2> QED BY <2>2, <2>a, <2>3 DEF ResultTells, OutputInv, FileInv
<1>2. OutputInv /\ [Next]_vars =>
        [(bound["base"] # "none" /\ foreign' = foreign) => entry'[bound["base"]] = entry[bound["base"]]]_vars
  BY BaselineKept
<1>3. Spec => [](CoreInv /\ OutputInv)
  BY InitOutput, StepOutput, CoreAlways, PTL DEF Spec
<1> QED BY <1>1, <1>2, <1>3, PTL DEF Spec, ResultSafe, BaselineUntouched

(***************************************************************************)
(* The types of everything.                                                *)
(***************************************************************************)

(* No scenario has more answers than requests, and there is no sample of a *)
(* scenario not reached yet, at the places AnswersInv does not speak of    *)
(* too: while a scenario is being given up and after the last one.         *)
LengthsInv == Len(answers) <= Len(Scenario.methods) /\ Len(samples) <= k

(* Answers and samples are added in ReadResponse and Collect only.         *)
LEMMA StepLengths == CoreInv /\ MeasureInv /\ LengthsInv /\ [Next]_vars => LengthsInv'
<1> SUFFICES ASSUME CoreInv, MeasureInv, LengthsInv, [Next]_vars PROVE LengthsInv'
  OBVIOUS
<1> USE DEF Go, NoServer, Elsewhere, NoResult
<1>0. /\ k \in Nat /\ k <= Len(Scenarios) /\ Len(Scenarios) \in Nat /\ Len(Scenario.methods) \in Nat
      /\ r \in 1..Len(Scenario.methods) /\ answers \in Seq(Reply) /\ samples \in Seq(Sample)
  BY ScenarioFacts, BenchmarkAssumption DEF CoreInv, RunnerTypes, Scenario, MeasureInv, SamplesInv, AnswersInv
<1>1. CASE UNCHANGED <<answers, k, samples>>
  BY <1>1 DEF LengthsInv, Scenario
<1>2. CASE StartServer
  <2>1. answers' = <<>> /\ UNCHANGED <<k, samples>>
    BY <1>2 DEF StartServer
  <2>2. Len(<<>>) = 0 /\ Scenario' = Scenario
    BY <2>1 DEF Scenario
  <2> QED BY <1>0, <2>1, <2>2 DEF LengthsInv
<1>3. CASE ReadResponse
  <2>1. /\ pc = "read" /\ outbox # <<>> /\ UNCHANGED <<k, samples>>
        /\ answers' = answers \/ answers' = Append(answers, Head(outbox))
    BY <1>3 DEF ReadResponse
  <2>2. Len(answers) = r - 1 /\ Scenario' = Scenario /\ outbox \in Seq(Reply)
    BY <2>1 DEF MeasureInv, AnswersInv, Scenario, CoreInv, ProcInv
  <2>3. Len(Append(answers, Head(outbox))) = r
    <3>1. Head(outbox) \in Reply
      BY <2>1, <2>2, SeqParts
    <3> QED BY <1>0, <2>2, <3>1, SeqParts
  <2> QED BY <1>0, <2>1, <2>2, <2>3 DEF LengthsInv
<1>4. CASE Collect
  <2>1. pc = "await" /\ answers' = <<>> /\ k' \in {k, k + 1}
    BY <1>4 DEF Collect, Accept
  <2>2. Len(samples) = k - 1
    BY <2>1 DEF MeasureInv, AnswersInv, Before, InScenario
  <2>3. samples' = samples \/ \E sample : samples' = Append(samples, sample)
    BY <1>4 DEF Collect, Accept
  <2>4. Len(samples') <= k
    <3> HIDE DEF Sample
    <3> QED BY <1>0, <2>2, <2>3
  <2>5. k' \in 1..Len(Scenarios)
    BY <1>4, <1>0 DEF Collect, Accept, CoreInv, RunnerTypes
  <2>6. Len(Scenario'.methods) \in Nat /\ Len(answers') = 0
    BY <2>1, <2>5, ScenarioFacts DEF Scenario
  <2> QED BY <1>0, <2>1, <2>4, <2>6 DEF LengthsInv
<1>5. CASE CreateCorpus \/ WriteRequest \/ ReadEnd \/ Notify \/ CloseInput \/ WaitGoroutine \/ CollectLate
           \/ Abort \/ AbortWait \/ Judge \/ RemoveCorpus \/ WriteResult
  BY <1>1, <1>5
     DEF CreateCorpus, WriteRequest, Writes, ReadEnd, Notify, CloseInput, WaitGoroutine, CollectLate, Abort,
         AbortWait, Judge, RemoveCorpus, WriteResult
<1>6. CASE TimerFires \/ Die \/ ClientStarts \/ ClientAsks \/ ClientCloses
  BY <1>1, <1>6 DEF TimerFires, Die, ClientStarts, ClientAsks, ClientCloses
<1>7. CASE UNCHANGED vars \/ UNCHANGED runnerVars
  BY <1>1, <1>7 DEF vars, runnerVars
<1> QED BY <1>2, <1>3, <1>4, <1>5, <1>6, <1>7, Zenon DEF Next, Runner, Timers, Server, Orphaned

(* Before the first scenario nothing is answered. *)
LEMMA InitLengths == Init => LengthsInv
<1> SUFFICES ASSUME Init PROVE LengthsInv
  OBVIOUS
<1>1. samples = <<>> /\ answers = <<>> /\ k = 1 /\ 1 \in 1..Len(Scenarios)
  BY BenchmarkAssumption DEF Init
<1>2. Len(<<>>) = 0 /\ Len(Scenario.methods) \in Nat
  BY <1>1, ScenarioFacts DEF Scenario
<1> QED BY <1>1, <1>2 DEF LengthsInv

(* Whatever the server, its pipes, the timers and the writer do, the       *)
(* runner's state stays what its code takes it for: a request of the       *)
(* scenario it is at, no more answers than requests, no more samples than  *)
(* scenarios, one of the exit statuses (runner.go, output.go, main.go).    *)
THEOREM BenchmarkTyped == Spec => []TypeOK
<1>1. CoreInv => ProcessTypeOK
  <2> SUFFICES ASSUME CoreInv PROVE ProcessTypeOK
    OBVIOUS
  <2>1. proc \in Proc /\ inbox \in Seq(Message) /\ outbox \in Seq(Reply) /\ stdin \in BOOLEAN /\ faults \in 0..MaxFaults
    BY DEF CoreInv, ProcInv
  <2>2. /\ proc.state \in Live \cup {"none", "exited", "reaped"} /\ proc.status \in Statuses \cup {-1}
        /\ proc.killed \in BOOLEAN /\ proc.expired \in BOOLEAN /\ proc.honest \in BOOLEAN /\ proc.served \in BOOLEAN
    BY <2>1 DEF Proc
  <2>3. ASSUME NEW i \in DOMAIN inbox PROVE inbox[i].id \in Nat
    <3>1. inbox[i] \in Message
      BY <2>1, <2>3
    <3> QED BY <3>1 DEF Message
  <2>4. ASSUME NEW j \in DOMAIN outbox PROVE outbox[j].id \in Nat
    <3>1. outbox[j] \in Reply
      BY <2>1, <2>4
    <3> QED BY <3>1 DEF Reply
  <2>5. \A b \in {proc.killed, proc.expired, proc.honest, proc.served, stdin} : b \in BOOLEAN
    BY <2>1, <2>2, Zenon
  <2> QED BY <2>1, <2>2, <2>3, <2>4, <2>5, Zenon DEF ProcessTypeOK
<1>2. CoreInv /\ OutputInv /\ LengthsInv => TypeOK
  BY <1>1 DEF TypeOK, CoreInv, RunnerTypes, OutputInv, FileInv, LengthsInv, Clients
<1>3. Spec => [](CoreInv /\ OutputInv /\ LengthsInv)
  BY InitOutput, StepOutput, InitMeasure, StepMeasure, InitLengths, StepLengths, CoreAlways, PTL DEF Spec
<1> QED BY <1>2, <1>3, PTL
=============================================================================
