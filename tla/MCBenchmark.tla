----------------------------- MODULE MCBenchmark -----------------------------
(* Three scenarios over both profiles, and environments of many kinds. *)
EXTENDS Benchmark

ThreeScenarios == << [readOnly |-> TRUE, methods |-> <<"initialize">>],
                     [readOnly |-> TRUE, methods |-> <<"initialize", "tools/list", "tools/call">>],
                     [readOnly |-> FALSE, methods |-> <<"initialize", "tools/list">>] >>

Usual == [root |-> "absolute", readOnly |-> "true", cwd |-> "unset", limits |-> "unset", flags |-> "unset"]
Callers == {Usual, [Usual EXCEPT !.readOnly = "false", !.limits = "other"]}
Clients ==
  {l \in [args : Arguments, env : Environments, root : RootStates] :
     \/ l.args = "none" /\ l.env.limits = "unset" /\ l.env.flags # "other"
     \/ l.args = "none" /\ l.env = [Usual EXCEPT !.limits = "other"] 
     \/ l.env = Usual}
==============================================================================
