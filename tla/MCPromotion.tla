----------------------------- MODULE MCPromotion -----------------------------
(* Two processes on one root, with different candidates and one output. *)
EXTENDS Promotion

PromoteTo(t, c) == [kind |-> "promote", target |-> t, source |-> t, current |-> c]
Generate(t, s) == [kind |-> "generate", target |-> t, source |-> s, current |-> FALSE]

DistinctJobs == [p \in Procs |->
  IF p = "p" THEN {PromoteTo("new", TRUE), Generate("bundle", "new")}
  ELSE {PromoteTo("old", TRUE), PromoteTo("old", FALSE), Generate("bundle", "old")}]

OneRunEach == [p \in Procs |-> 1]

SameCandidate == [p \in Procs |-> {PromoteTo("new", TRUE)}]
==============================================================================
