------------------------------ MODULE Benchmark ------------------------------
(***************************************************************************)
(* The benchmark command (internal/benchmark/runner.go, cmd/benchmark):    *)
(* on a corpus of its own it starts one server process per scenario, talks *)
(* to it, has it exit and accepts its answers only if all went well, then  *)
(* judges the samples and writes one result file (ResultFile.tla).  The    *)
(* same server may instead be started by any client in any environment.    *)
(***************************************************************************)
EXTENDS MeasuredProcess, ResultFile

CONSTANTS
  Scenarios,            \* sequence of [readOnly, methods], each beginning with "initialize"
  CallerEnvironments,   \* environments the benchmark may be called in
  ClientLaunches        \* [args, env, root]: how clients may start the server

ASSUME BenchmarkAssumption ==
  /\ CallerEnvironments \subseteq Environments
  /\ ClientLaunches \subseteq [args : Arguments, env : Environments, root : RootStates]
  /\ Scenarios \in Seq([readOnly : BOOLEAN, methods : Seq(STRING)]) /\ Scenarios # <<>>
  /\ \A i \in 1..Len(Scenarios) : Scenarios[i].methods # <<>> /\ Head(Scenarios[i].methods) = "initialize"

VARIABLES
  pc,        \* where the runner is
  caller,    \* its own environment
  k, r,      \* the scenario and the request it is at
  answers,   \* the answers it has decoded in this scenario
  waited,    \* the goroutine in controlledExit has waited
  badClose,  \* closing standard input failed
  samples,   \* the scenarios it accepted
  corpus,    \* the corpus exists
  code       \* the status it will exit with

runnerVars == <<pc, caller, k, r, answers, waited, badClose, samples, corpus, code>>
vars == <<processVars, resultVars, runnerVars>>

BenchmarkEnvironment_Inherits(readOnly) ==   \* mutant: the caller's profile is inherited
  [root |-> "absolute", readOnly |-> caller.readOnly, cwd |-> "false", limits |-> "unset", flags |-> "unset"]

(* benchmarkEnvironment: nothing is inherited. *)
BenchmarkEnvironment(readOnly) ==
  [root |-> "absolute", readOnly |-> IF readOnly THEN "true" ELSE "false", cwd |-> "false",
   limits |-> "unset", flags |-> "unset"]

Scenario == Scenarios[k]
InScenario == {"write", "read", "notify", "close", "await", "late", "abort", "abortWait"}
RunnerSteps == InScenario \cup {"setup", "start", "judge", "remove", "result"}
Over == {"done", "dead"}

TypeOK ==
  /\ ProcessTypeOK /\ ResultTypeOK
  /\ pc \in RunnerSteps \cup Over \cup {"client", "clientClosed"} /\ caller \in Environments
  /\ k \in 1..Len(Scenarios) /\ r \in 1..Len(Scenario.methods) /\ Len(answers) <= Len(Scenario.methods)
  /\ waited \in BOOLEAN /\ badClose \in BOOLEAN /\ corpus \in BOOLEAN
  /\ Len(samples) <= k /\ code \in {0, 1, 3}

Init ==
  /\ ResultInit /\ proc = NoProcess /\ inbox = <<>> /\ outbox = <<>> /\ stdin = FALSE /\ faults = 0
  /\ caller \in CallerEnvironments /\ pc = "setup" /\ k = 1 /\ r = 1 /\ answers = <<>> /\ waited = FALSE
  /\ badClose = FALSE /\ samples = <<>> /\ corpus = FALSE /\ code = 0

Go(to) == pc' = to
NoResult == UNCHANGED <<caller, resultVars>>
Elsewhere == UNCHANGED <<k, r, answers, waited, badClose, samples, corpus, code>> /\ NoResult
NoServer == UNCHANGED <<proc, inbox, outbox, stdin>>

(***************************************************************************)
(* Run and executeScenario.                                                *)
(***************************************************************************)
CreateCorpus ==
  /\ pc = "setup" /\ NoServer /\ UNCHANGED <<k, r, answers, waited, badClose, samples>> /\ NoResult
  /\ \/ Go("start") /\ corpus' = TRUE /\ UNCHANGED <<code, faults>>
     \/ Fault /\ Go("done") /\ code' = 1 /\ UNCHANGED corpus

StartServer ==
  /\ pc = "start" /\ r' = 1 /\ answers' = <<>> /\ waited' = FALSE /\ badClose' = FALSE
  /\ UNCHANGED <<k, samples, corpus>> /\ NoResult
  /\ \/ /\ \E root \in {"directory", "forbidden"} :
             Launch("none", BenchmarkEnvironment(Scenario.readOnly), root)
        /\ Go("write") /\ UNCHANGED <<code, faults>>
     \/ Fault /\ Go("remove") /\ code' = 1 /\ NoServer

(* A write to a process that has exited fails. *)
Writes(from, message, to) ==
  /\ pc = from /\ Elsewhere /\ UNCHANGED <<proc, outbox, stdin, faults>>
  /\ IF proc.state \in Live THEN Go(to) /\ inbox' = Append(inbox, message) ELSE Go("abort") /\ UNCHANGED inbox

Method == Scenario.methods[r]
WriteRequest == Writes("write", [id |-> r, method |-> Method], "read")

(* decodeResponse, validateInitializeResult and addResultCounters: the     *)
(* answer to this request, with a result that all of them accept.          *)
Decoded(answer) == answer.id = r /\ answer.kind = "result"
NextRequest_OneMore == r <= Len(Scenario.methods)   \* mutant: one request too many

NextRequest == r < Len(Scenario.methods)

ReadResponse ==
  /\ pc = "read" /\ outbox # <<>> /\ outbox' = Tail(outbox)
  /\ IF Decoded(Head(outbox))
     THEN /\ answers' = Append(answers, Head(outbox))
          /\ IF Method = "initialize" THEN Go("notify") /\ UNCHANGED r
             ELSE IF NextRequest THEN Go("write") /\ r' = r + 1 ELSE Go("close") /\ UNCHANGED r
     ELSE Go("abort") /\ UNCHANGED <<r, answers>>
  /\ UNCHANGED <<proc, inbox, stdin, faults, k, waited, badClose, samples, corpus, code>> /\ NoResult

ReadEnd ==
  /\ pc = "read" /\ outbox = <<>> /\ proc.state = "exited"
  /\ Go("abort") /\ Elsewhere /\ NoServer /\ UNCHANGED faults

Notify ==
  /\ pc = "notify" /\ UNCHANGED <<k, answers, waited, badClose, samples, corpus, code>> /\ NoResult
  /\ UNCHANGED <<proc, outbox, stdin, faults>>
  /\ IF proc.state \in Live
     THEN /\ inbox' = Append(inbox, [id |-> 0, method |-> "notifications/initialized"])
          /\ IF NextRequest THEN Go("write") /\ r' = r + 1 ELSE Go("close") /\ UNCHANGED r
     ELSE Go("abort") /\ UNCHANGED <<inbox, r>>

(***************************************************************************)
(* controlledExit.                                                         *)
(***************************************************************************)
CloseInput ==
  /\ pc = "close" /\ Go("await") /\ stdin' = FALSE
  /\ UNCHANGED <<inbox, outbox, k, r, answers, waited, samples, corpus, code>> /\ NoResult
  /\ \/ UNCHANGED <<proc, badClose, faults>>
     \/ Fault /\ badClose' = TRUE /\ proc' = Killed

WaitGoroutine_BeforeTimer ==   \* mutant: nobody waits once the timer has fired
  /\ pc = "await" /\ Wait /\ waited' = TRUE
  /\ UNCHANGED <<inbox, outbox, stdin, faults, pc, k, r, answers, badClose, samples, corpus, code>> /\ NoResult

WaitGoroutine ==
  /\ pc \in {"await", "late"} /\ Wait /\ waited' = TRUE
  /\ UNCHANGED <<inbox, outbox, stdin, faults, pc, k, r, answers, badClose, samples, corpus, code>> /\ NoResult

Accept ==
  /\ samples' = Append(samples, [readOnly |-> Scenario.readOnly, answers |-> answers, exit |-> proc])
  /\ IF k < Len(Scenarios) THEN Go("start") /\ k' = k + 1 /\ r' = 1 ELSE Go("judge") /\ UNCHANGED <<k, r>>

(* Both the exit and the timer may be there: either branch is taken. *)
Collect ==
  /\ pc = "await" /\ waited /\ NoServer /\ UNCHANGED <<faults, waited, badClose, corpus>> /\ NoResult
  /\ answers' = <<>>
  /\ IF badClose \/ WaitFailed THEN Go("remove") /\ code' = 1 /\ UNCHANGED <<samples, k, r>>
     ELSE Accept /\ UNCHANGED code

TimerFires ==
  /\ pc = "await" /\ Go("late") /\ proc' = Killed
  /\ UNCHANGED <<inbox, outbox, stdin, faults>> /\ Elsewhere

CollectLate ==
  /\ pc = "late" /\ waited /\ Go("remove") /\ code' = 1
  /\ NoServer /\ UNCHANGED <<faults, k, r, answers, waited, badClose, samples, corpus>> /\ NoResult

(* The deferred end of a scenario that failed. *)
Abort ==
  /\ pc = "abort" /\ Go("abortWait") /\ stdin' = FALSE /\ proc' = Killed
  /\ UNCHANGED <<inbox, outbox, faults>> /\ Elsewhere

AbortWait_NoWait ==   \* mutant: the killed server is not waited for
  /\ pc = "abortWait" /\ Go("remove") /\ code' = 1
  /\ UNCHANGED <<proc, inbox, outbox, stdin, faults, k, r, answers, waited, badClose, samples, corpus>> /\ NoResult

AbortWait ==
  /\ pc = "abortWait" /\ Wait /\ Go("remove") /\ code' = 1
  /\ UNCHANGED <<inbox, outbox, stdin, faults, k, r, answers, waited, badClose, samples, corpus>> /\ NoResult

(***************************************************************************)
(* Budgets, the corpus, the result file, the status.                       *)
(***************************************************************************)
Contract(readOnly) == IF readOnly THEN ReadTools ELSE ReadTools \cup WriteTools
Listed(sample) == {sample.answers[i].tools : i \in DOMAIN sample.answers} \ {{}}
HardFailure == \E i \in DOMAIN samples : \E tools \in Listed(samples[i]) :
                 Cardinality(tools) # Cardinality(Contract(samples[i].readOnly))

Judge ==
  /\ pc = "judge" /\ Go("remove") /\ NoServer /\ UNCHANGED <<k, r, answers, waited, badClose, samples, corpus>>
  /\ NoResult
  /\ \/ code' = 0 /\ UNCHANGED faults   \* no BudgetPath
     \/ \E other \in BOOLEAN : code' = (IF HardFailure \/ other THEN 3 ELSE 0) /\ UNCHANGED faults
     \/ Fault /\ code' = 1   \* a budget file that cannot be used

RemoveCorpus ==
  /\ pc = "remove" /\ NoServer
  /\ \/ corpus' = FALSE /\ UNCHANGED faults
     \/ Fault /\ UNCHANGED corpus
  /\ IF code = 1 THEN Go("done") /\ UNCHANGED resultVars ELSE Go("result") /\ BeginWriting
  /\ UNCHANGED <<k, r, answers, waited, badClose, samples, code, caller>>

WriteResult ==
  /\ pc = "result" /\ NoServer /\ UNCHANGED <<caller, k, r, answers, waited, badClose, samples, corpus>>
  /\ \/ WriterStep /\ UNCHANGED <<pc, code, faults>>
     \/ WriterFault /\ Fault /\ UNCHANGED <<pc, code>>
     \/ step = "written" /\ Go("done") /\ UNCHANGED <<code, resultVars, faults>>
     \/ step = "closed" /\ Go("done") /\ code' = 1 /\ UNCHANGED <<resultVars, faults>>

Runner ==
  \/ CreateCorpus \/ StartServer \/ WriteRequest \/ ReadResponse \/ ReadEnd \/ Notify
  \/ CloseInput \/ WaitGoroutine \/ Collect \/ CollectLate \/ Abort \/ AbortWait
  \/ Judge \/ RemoveCorpus \/ WriteResult

Timers == TimerFires \/ (pc \in InScenario /\ ContextExpires /\ UNCHANGED <<resultVars, runnerVars>>)

(* The runner is killed; its ends of the pipes close. *)
Die ==
  /\ pc \in RunnerSteps /\ Fault /\ Go("dead") /\ stdin' = FALSE
  /\ UNCHANGED <<proc, inbox, outbox>> /\ Elsewhere

Orphaned ==
  /\ pc = "dead" /\ proc.state = "serving" /\ inbox # <<>> /\ Head(inbox).id # 0
  /\ Exits(1) /\ UNCHANGED <<inbox, outbox, stdin, faults, resultVars, runnerVars>>

Server ==
  \/ ServerStep /\ (pc = "dead" => outbox' = outbox) /\ UNCHANGED <<resultVars, runnerVars>>
  \/ Orphaned

(***************************************************************************)
(* A client instead of the benchmark.                                      *)
(***************************************************************************)
ClientStarts ==
  /\ pc = "setup" /\ Go("client")
  /\ \E l \in ClientLaunches : Launch(l.args, l.env, l.root)
  /\ Elsewhere /\ UNCHANGED faults

ClientAsks ==
  /\ pc = "client" /\ inbox = <<>> /\ outbox = <<>> /\ proc.state \in Live
  /\ inbox' = <<[id |-> 1, method |-> "tools/list"]>>
  /\ UNCHANGED <<proc, outbox, stdin, faults, pc>> /\ Elsewhere

ClientCloses ==
  /\ pc = "client" /\ Go("clientClosed") /\ stdin' = FALSE
  /\ UNCHANGED <<proc, inbox, outbox, faults>> /\ Elsewhere

Next ==
  \/ Runner \/ Timers \/ Server \/ Die
  \/ pc \in InScenario /\ Misbehave /\ UNCHANGED <<resultVars, runnerVars>>
  \/ Exchange /\ UNCHANGED <<processVars, runnerVars>>
  \/ ClientStarts \/ ClientAsks \/ ClientCloses

Spec == Init /\ [][Next]_vars /\ WF_vars(Runner) /\ WF_vars(Timers) /\ WF_vars(Server)

(***************************************************************************)
(* Properties.                                                             *)
(***************************************************************************)
(* A sample counts only if its server answered every request and then      *)
(* exited by itself with status 0: whatever way the exit, the close, the   *)
(* five-second timer and the thirty-second context race, nothing measured  *)
(* on a process that was killed or timed out is accepted.                  *)
OnlyCleanRunsCount ==
  \A i \in DOMAIN samples :
    /\ samples[i].exit.status = 0 /\ ~samples[i].exit.killed /\ ~samples[i].exit.expired
    /\ \A j \in 1..Len(Scenarios[i].methods) : samples[i].answers[j].id = j /\ samples[i].answers[j].kind = "result"

(* No server outlives its scenario, and none runs on a corpus that is not  *)
(* there any more, however the scenario failed.                            *)
ServersGone ==
  /\ pc \in (RunnerSteps \ InScenario) \cup {"done"} => proc.state \in {"none", "reaped"}
  /\ (proc.state \in Live /\ pc \notin {"client", "clientClosed"}) => corpus

(* The profile a scenario measures is the one it asked for, whatever       *)
(* environment the benchmark itself was called in.                         *)
ProfilePinned ==
  \A i \in DOMAIN samples : samples[i].exit.honest =>
    \A tools \in Listed(samples[i]) : tools = Contract(samples[i].readOnly)

(* A sample is worth what it says: a clean run, of the profile asked for.  *)
SamplesTrue == OnlyCleanRunsCount /\ ProfilePinned

(* What the exit status tells a supervisor: 3 means that the environment   *)
(* or the root must change, and nothing was served; 0 that the input ended *)
(* or nothing was to be served; nothing is ever served in an environment   *)
(* or on a root that the checks refuse.                                    *)
StatusTells ==
  LET env == proc.env
      usable == /\ env.root = "absolute" \/ (env.root = "dot" /\ env.cwd = "true")
                /\ "other" \notin {env.readOnly, env.cwd, env.limits, env.flags}
                /\ proc.root = "directory" \/ (proc.root = "link" /\ env.flags = "follow")
  IN (proc.state # "none" /\ proc.honest /\ ~proc.killed) =>
       /\ (proc.served \/ proc.state = "serving") => usable /\ proc.args = "none"
       /\ (proc.state = "exited" /\ proc.status \in {2, 3}) => ~proc.served
       /\ (proc.state = "exited" /\ proc.status = 0 /\ proc.args = "none") => usable /\ ~stdin
       /\ (proc.state = "exited" /\ proc.status = 3) => ~usable

(* docs/testing.md: the protected baseline directory is never written.     *)
(* Whatever paths and entries others exchange, what the writer held as the *)
(* baseline when it began is changed by others only.                       *)
BaselineUntouched ==
  [][ (bound["base"] # "none" /\ foreign' = foreign) =>
        entry'[bound["base"]] = entry[bound["base"]] ]_vars

(* The target's name never leads to half a result, and the status tells    *)
(* the truth unless others exchange it: a result of this run is there if   *)
(* it is not 1; if it is 1, nothing has changed, or a call failed after    *)
(* the result was renamed to its place, and the result is complete or was  *)
(* removed.  One failure or exchange leaves no temporary file behind.      *)
ResultTells ==
  LET there == entry[names["out"]]
  IN /\ \A d \in Directories : entry[d] # "partial"
     /\ pc = "done" /\ foreign = 0 =>
          /\ code # 1 => there = "new"
          /\ code = 1 => there = was \/ (temp = "moved" /\ faults > 0 /\ there \in {"new", "absent"})
     /\ pc = "done" /\ faults + foreign <= 1 => temp \in {"none", "moved"}

(* Neither the baseline nor the result can be left damaged. *)
ResultSafe == []ResultTells /\ BaselineUntouched

(* The benchmark ends although servers hang, and a server whose parent was *)
(* killed ends unless it hangs.                                            *)
RunEnds == <>(pc \in Over \cup {"client", "clientClosed"})
OrphanEnds == pc = "dead" ~> proc.state \notin {"booting", "serving"}
EveryoneEnds == RunEnds /\ OrphanEnds
==============================================================================
