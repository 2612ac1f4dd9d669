--------------------------- MODULE MCNormalization ---------------------------
(* The approval of the publication and those of the upload, which is       *)
(* dispatched twice, and of the deletion.                                  *)
EXTENDS Normalization, TLC

RunsPerApproval == "first" :> 1 @@ "up" :> 2 @@ "down" :> 1
==============================================================================
