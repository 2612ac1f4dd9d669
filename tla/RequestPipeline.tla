--------------------------- MODULE RequestPipeline ---------------------------
(***************************************************************************)
(* One message on its way through the request boundary: validated, then    *)
(* routed.  Run on every abstract message, it compares the composed checks *)
(* of four packages with what the documentation promises of the whole,     *)
(* both under the policy of the released server and under Policy.  A call  *)
(* then has its arguments decoded by the tool it names.                    *)
(***************************************************************************)
EXTENDS Requests, ToolCalls

CONSTANT Objects    \* the arguments objects clients send

ASSUME PipelineAssumption ==
  /\ Registry \subseteq ReadTools \cup WriteTools
  /\ \A a \in Objects : IsArguments(a)

(* revision.ProductionPolicy *)
Production == INSTANCE Requests WITH Policy <- {Legacy}

VARIABLES
  released, \* the server has the production policy
  msg,      \* the message
  stage,    \* "arrived", "validated", "answered", "ignored", "running" or "called"
  reply,    \* the reply under construction: its id and error code
  args,     \* the arguments object of a call
  made      \* the call on the file system that Execute makes

pipelineVars == <<released, msg, stage, reply, args, made>>

NoReply == [id |-> NullId, code |-> "none"]

(* Members no check reads are fixed, to enumerate each case once. *)
Canonical(m) ==
  /\ m.json # "object" => m.v2 /\ m.id = NoId /\ m.method = NoMethod
  /\ m.json # "object" \/ m.method = NoMethod \/ m.params.shape # "object" =>
       /\ m.params.meta = NoMeta /\ m.params.name = NoName
       /\ m.params.arguments = "absent" /\ m.params.version = ""
       /\ m.params.clientInfo = "ok" /\ ~m.params.tooBig

Enabled == IF released THEN {Legacy} ELSE Policy
DispatchHere(m) == IF released THEN Production!Dispatch(m) ELSE Dispatch(m)

PipelineInit ==
  /\ released \in BOOLEAN
  /\ msg \in {m \in Messages(Registry \cup {"unknown"}) : Canonical(m)}
  /\ stage = "arrived"
  /\ reply = NoReply
  /\ args = NoArguments /\ made = InvalidArguments

ValidateMessage ==
  /\ stage = "arrived"
  /\ LET v == Validate(msg) IN
       /\ stage' = CASE v.kind = "error" -> "answered"
                     [] v.kind = "notification" -> "ignored"
                     [] v.kind = "request" -> "validated"
       /\ reply' = CASE v.kind = "error" -> [id |-> v.id, code |-> v.code]
                     [] v.kind = "notification" -> reply
                     [] v.kind = "request" -> [id |-> v.id, code |-> "none"]
  /\ UNCHANGED <<released, msg, args, made>>

DispatchMessage ==
  /\ stage = "validated"
  /\ IF DispatchHere(msg) = Handled
     THEN stage' = "running" /\ UNCHANGED reply
     ELSE stage' = "answered" /\ reply' = [reply EXCEPT !.code = DispatchHere(msg)]
  /\ UNCHANGED <<released, msg, args, made>>

(* validateCallParams has put {} for arguments that are missing or null.   *)
CallTool ==
  /\ stage = "running" /\ msg.method = "tools/call"
  /\ stage' = "called"
  /\ \E a \in Objects \cup {NoArguments} :
       /\ msg.params.arguments # "object" => a = NoArguments
       /\ args' = a
       /\ made' = Execute(msg.params.name, a)
  /\ UNCHANGED <<released, msg, reply>>

PipelineNext == ValidateMessage \/ DispatchMessage \/ CallTool

PipelineSpec == PipelineInit /\ [][PipelineNext]_pipelineVars

-----------------------------------------------------------------------------

PipelineTypeOK ==
  /\ released \in BOOLEAN
  /\ msg \in Messages(Registry \cup {"unknown"})
  /\ stage \in {"arrived", "validated", "answered", "ignored", "running", "called"}
  /\ reply \in [id : Ids \cup {NullId}, code : Codes \cup {"none"}]
  /\ IsArguments(args) /\ made \in ToolOutcomes

(* Whatever check refuses a message, the reply carries the message's own   *)
(* id exactly when there is one a client can match, and null otherwise     *)
(* (security.md:191-195, requestIDOrNull, idForInvalidRequest).            *)
ErrorEchoesId ==
  stage \in {"answered", "running", "called"} =>
    reply.id = IF msg.json = "object" /\ msg.id \in Ids THEN msg.id ELSE NullId

(* A message is ignored exactly when it is a well-formed request without   *)
(* an id; nothing malformed is taken for a notification, and no            *)
(* notification goes further (security.md:197).                            *)
OnlyNotificationsIgnored ==
  /\ stage = "ignored" => msg.json = "object" /\ msg.v2 /\ msg.method # NoMethod
  /\ stage \in {"ignored", "validated", "running", "called"} =>
       (stage = "ignored" <=> msg.id = NoId)

(* What a message gets back, whichever check settles it. *)
RepliesRight == PipelineTypeOK /\ ErrorEchoesId /\ OnlyNotificationsIgnored

(* What it takes to run a tool, checked by four packages one after the     *)
(* other: an identified request, bounded object parameters, a registered   *)
(* name, and the one revision the router accepts for its envelope.         *)
RunsTool ==
  /\ stage \in {"running", "called"} /\ msg.method = "tools/call"

ToolNeedsEveryCheck ==
  RunsTool =>
    /\ msg.json = "object" /\ msg.v2 /\ msg.id \in Ids \cup {NullId}
    /\ msg.params.shape = "object" /\ ~msg.params.tooBig
    /\ msg.params.name \in Registry
    /\ msg.params.arguments \in {"absent", "null", "object"}
    /\ \/ msg.params.meta \in {NoMeta, PlainMeta} /\ Legacy \in Enabled
       \/ msg.params.meta = Stateless /\ Stateless \in Enabled

(* The stateless envelope selects a wire contract and nothing else: with   *)
(* both revisions enabled a call runs its tool in the envelope if and only *)
(* if the same call runs it without one (revision.go:57, router.go:49).    *)
EnvelopeDoesNotAuthorize ==
  ~released /\ Policy = {Legacy, Stateless} /\ msg.params.meta \in {NoMeta, Stateless} =>
    LET twin(meta) == [msg EXCEPT !.params.meta = meta]
    IN ReachesTool(twin(Stateless)) = ReachesTool(twin(NoMeta))

(* The two discovery paths stay apart: initialize is never handled in a    *)
(* stateless envelope, server/discover never outside one, and a revision   *)
(* the policy does not enable reaches no handler (DispatchRevision).       *)
RevisionsIsolated ==
  stage \in {"running", "called"} =>
    LET enveloped == msg.params.shape = "object" /\ msg.params.meta \in Versions
    IN /\ enveloped => Stateless \in Enabled /\ msg.method # "initialize"
       /\ ~enveloped => Legacy \in Enabled /\ msg.method # "server/discover"

(* What tools/list advertises and what Execute accepts are written down    *)
(* apart, and differ in four things: Execute takes a member in any letter  *)
(* case; it takes repeated members, if all of them decode; it refuses a    *)
(* blank path; and a maxBytes that is no int64 as Go reads one.  AsRead is *)
(* the object as Execute reads it.                                         *)
AsRead(a) == [m \in DOMAIN a |-> Once(a[m].value, TRUE)]
Blank(a) == \E m \in DOMAIN a : m \in {"path", "source", "target"} /\ a[m].value = "blank"
Unreadable(a) == \E m \in DOMAIN a : a[m].value \in NoInt64
Repeats(a) == \E m \in DOMAIN a : a[m].earlier # {}

(* In everything else they agree: no call is made for arguments that the   *)
(* schema does not admit as they are read, and one is made for every       *)
(* object that it admits and that none of the other three concerns.  Only  *)
(* a registered tool that writes makes a call that changes files, and      *)
(* nothing is overwritten and no directory emptied unless the value that   *)
(* counts is true (tools.md:20,128,182).                                   *)
ArgumentsChecked ==
  stage = "called" =>
    LET admitted == Admits(InputSchema(msg.params.name), AsRead(args)) /\ ~Blank(args)
    IN /\ made # InvalidArguments => admitted /\ ~Unreadable(args)
       /\ admitted /\ ~Unreadable(args) /\ ~Repeats(args) => made # InvalidArguments
       /\ made.op \in WriteOps => msg.params.name \in Registry \cap WriteTools
       /\ made.flag => \E m \in DOMAIN args :
                          m \in {"overwrite", "recursive"} /\ args[m].value = "true"
       /\ made.limit = "asked" => args["maxBytes"].value = "within"

(* No message gets past a check of one package through what another one    *)
(* accepts: the checks hold together, for both revisions.                  *)
OnlyThroughEveryCheck ==
  /\ ToolNeedsEveryCheck /\ EnvelopeDoesNotAuthorize /\ RevisionsIsolated
  /\ ArgumentsChecked
=============================================================================
