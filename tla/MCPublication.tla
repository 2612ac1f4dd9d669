---------------------------- MODULE MCPublication ----------------------------
(* Two approvals: the original plan's, dispatched twice, and a fresh one. *)
EXTENDS Publication, TLC

RunsPerApproval == "first" :> 2 @@ "fresh" :> 1
==============================================================================
