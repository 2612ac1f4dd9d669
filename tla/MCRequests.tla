------------------------------ MODULE MCRequests ------------------------------
(***************************************************************************)
(* Arguments objects for RequestPipeline: every object of at most two      *)
(* members spelled as advertised, objects of three members for the tools   *)
(* that have three, objects with a member in another letter case, and      *)
(* objects in which a member comes twice or three times.                   *)
(***************************************************************************)
EXTENDS RequestPipeline

SmallObjects ==
  UNION {[ms -> {Once(v, TRUE) : v \in Values}] :
           ms \in {m \in SUBSET Members : Cardinality(m) <= 2}}

LargeObjects ==
  {[source |-> Once(p, TRUE), target |-> Once(q, TRUE), overwrite |-> Once(v, TRUE)] :
     p \in TextValues, q \in TextValues, v \in {"true", "null"}}
  \cup {[path |-> Once(p, TRUE), content |-> Once(c, TRUE), overwrite |-> Once(v, TRUE)] :
           p \in TextValues, c \in TextValues, v \in {"false", "text"}}

(* A member spelled otherwise, or repeated, beside a path or alone. *)
Earlier == {[value |-> v, again |-> again] : v \in {"text", "true", "null"}, again \in BOOLEAN}
FewTimes == {es \in SUBSET Earlier : Cardinality(es) <= 2}
Respelled ==
  [value : {"text", "blank", "true", "within", "decimal", "null"}, exact : BOOLEAN,
   earlier : FewTimes]
RespelledObjects ==
  UNION {{[n \in {m, "path"} |-> IF n = m THEN o ELSE Once("text", FALSE)] : o \in Respelled} :
           m \in {"path", "recursive", "maxBytes", "unknown"}}

TriedObjects == SmallObjects \cup LargeObjects \cup RespelledObjects
==============================================================================
