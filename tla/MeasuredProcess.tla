--------------------------- MODULE MeasuredProcess ---------------------------
(***************************************************************************)
(* A server process behind two pipes, as os/exec gives it to its parent:   *)
(* it starts up (Startup.tla), answers the requests on its standard input  *)
(* in order, ends at the end of its input, and may hang, crash or answer   *)
(* wrongly instead.  Its parent may kill it, by itself or when the context *)
(* given to exec.CommandContext expires, and has to wait for it.           *)
(***************************************************************************)
EXTENDS Naturals, Integers, Startup

CONSTANTS MaxFaults   \* bound: failing calls, kills and misbehaviour

ASSUME ProcessAssumption == MaxFaults \in Nat

VARIABLES
  proc,    \* the process
  inbox,   \* requests it has not read
  outbox,  \* answers its parent has not read
  stdin,   \* the parent's end of its input is open
  faults

processVars == <<proc, inbox, outbox, stdin, faults>>

NoProcess == [state |-> "none", env |-> <<>>, root |-> "directory", args |-> "none", status |-> 0,
              killed |-> FALSE, expired |-> FALSE, honest |-> TRUE, served |-> FALSE]

Live == {"booting", "serving", "hung"}
ProcessTypeOK ==
  /\ proc.state \in Live \cup {"none", "exited", "reaped"} /\ proc.status \in Statuses \cup {-1}
  /\ \A b \in {proc.killed, proc.expired, proc.honest, proc.served, stdin} : b \in BOOLEAN
  /\ \A i \in DOMAIN inbox : inbox[i].id \in Nat /\ \A j \in DOMAIN outbox : outbox[j].id \in Nat
  /\ faults \in 0..MaxFaults

Fault == faults < MaxFaults /\ faults' = faults + 1

Launch(args, env, root) ==
  /\ proc' = [NoProcess EXCEPT !.state = "booting", !.env = env, !.root = root, !.args = args]
  /\ inbox' = <<>> /\ outbox' = <<>> /\ stdin' = TRUE

Exits(status) == proc' = [proc EXCEPT !.state = "exited", !.status = status]

Boot ==
  /\ proc.state = "booting" /\ UNCHANGED <<inbox, outbox, stdin, faults>>
  /\ LET category == StartupCategory(proc.env, proc.root)
     IN IF Starts(proc.args) /\ category = "" THEN proc' = [proc EXCEPT !.state = "serving"]
        ELSE Exits(ExitStatus(proc.args, category))

(* The notification after initialize carries no id and gets no answer. *)
Answer(request) ==
  CASE request.method = "tools/list" -> [id |-> request.id, kind |-> "result", tools |-> Tools(proc.env)]
    [] OTHER -> [id |-> request.id, kind |-> "result", tools |-> {}]

Serve ==
  /\ proc.state = "serving" /\ inbox # <<>> /\ inbox' = Tail(inbox)
  /\ outbox' = IF Head(inbox).id = 0 THEN outbox ELSE Append(outbox, Answer(Head(inbox)))
  /\ proc' = [proc EXCEPT !.served = TRUE] /\ UNCHANGED <<stdin, faults>>

ServeEnd_OnlyAfterRequest ==   \* mutant: the end of the input is noticed after a request only
  /\ proc.state = "serving" /\ inbox = <<>> /\ ~stdin /\ proc.served
  /\ Exits(ExitStatus("none", "")) /\ UNCHANGED <<inbox, outbox, stdin, faults>>

ServeEnd ==
  /\ proc.state = "serving" /\ inbox = <<>> /\ ~stdin
  /\ Exits(ExitStatus("none", "")) /\ UNCHANGED <<inbox, outbox, stdin, faults>>

ServerStep == Boot \/ Serve \/ ServeEnd

Misbehave ==
  /\ proc.state \in {"booting", "serving"} /\ Fault /\ UNCHANGED stdin
  /\ \/ /\ proc' = [proc EXCEPT !.state = "hung", !.honest = FALSE] /\ UNCHANGED <<inbox, outbox>>
     \/ /\ \E status \in {0, 1} :
             proc' = [proc EXCEPT !.state = "exited", !.status = status, !.honest = FALSE]
        /\ UNCHANGED <<inbox, outbox>>
     \/ /\ proc.state = "serving" /\ inbox # <<>> /\ inbox' = Tail(inbox)
        /\ proc' = [proc EXCEPT !.honest = FALSE, !.served = TRUE]
        /\ \E answer \in {[id |-> Head(inbox).id + 1, kind |-> "result", tools |-> {}],
                          [id |-> Head(inbox).id, kind |-> "error", tools |-> {}],
                          [id |-> Head(inbox).id, kind |-> "result", tools |-> {"write_file"}]} :
             outbox' = Append(outbox, answer)

(* Kill does nothing to a process that has exited, waited for or not. *)
Killed == IF proc.state \in Live THEN [proc EXCEPT !.state = "exited", !.status = -1, !.killed = TRUE] ELSE proc

(* The watcher of exec.CommandContext, until somebody has waited. *)
ContextExpires ==
  /\ proc.state \in Live \cup {"exited"} /\ ~proc.expired
  /\ proc' = [Killed EXCEPT !.expired = TRUE]
  /\ UNCHANGED <<inbox, outbox, stdin, faults>>

Wait == proc.state = "exited" /\ proc' = [proc EXCEPT !.state = "reaped"]
WaitFailed_StatusOnly == proc.status # 0   \* mutant: an expired context is ignored

WaitFailed == proc.status # 0 \/ proc.expired
==============================================================================
