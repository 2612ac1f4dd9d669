------------------------------- MODULE Requests -------------------------------
(***************************************************************************)
(* The request boundary as operators on abstract messages: the envelope    *)
(* and parameter checks of internal/mcp/server/request_validation.go, the  *)
(* revision envelope of internal/mcp/revision, the routing decision of     *)
(* internal/mcp/router and the parameter checks of the three handlers.     *)
(*                                                                         *)
(* A message keeps of its JSON text what these checks tell apart:          *)
(*   json     not JSON / JSON but no object / an object                    *)
(*   v2       "jsonrpc" is the string "2.0"                                *)
(*   id       a valid id, or NoId (absent) or BadId (neither string,       *)
(*            number nor null)                                             *)
(*   method   the method, or NoMethod (absent, not a string, blank)        *)
(*   params   its shape, whether it exceeds MaxArgumentBytes, and the      *)
(*            members the checks read                                      *)
(***************************************************************************)
EXTENDS Naturals, Sequences

CONSTANTS
  Ids,         \* the string and number ids clients use
  Policy,      \* the enabled revisions (revision.Policy)
  Registry     \* names of the registered tools (tools.Registry)

NullId == "null"
NoId == "no id"
BadId == "bad id"
NoMethod == "no method"
NoName == "no name"

Legacy == "2025-11-25"        \* protocol.ProtocolVersion
Stateless == "2026-07-28"     \* revision.Stateless
Versions == {Legacy, Stateless, "other"}

ASSUME RequestAssumption ==
  /\ Ids \cap {NullId, NoId, BadId} = {}
  /\ Policy \subseteq {Legacy, Stateless}
  /\ NoName \notin Registry

Methods == {"initialize", "tools/list", "tools/call", "server/discover", "other"}
Shapes == {"absent", "null", "object", "other"}
NoMeta == "none"
PlainMeta == "unreserved"     \* a _meta object without any reserved key
BadMeta == "malformed"        \* reserved keys that do not form an envelope
Metas == {NoMeta, PlainMeta, BadMeta} \cup Versions

Params(names) ==
  [shape : Shapes,
   tooBig : BOOLEAN,          \* longer than MaxArgumentBytes
   version : {"", "set"},     \* initialize: protocolVersion, "" if unusable
   clientInfo : {"ok", "bad"},\* initialize: decodes into the params struct
   meta : Metas,
   name : names \cup {NoName},\* tools/call: name, NoName if absent or blank
   arguments : Shapes]

Messages(names) ==
  [json : {"invalid", "not object", "object"}, v2 : BOOLEAN,
   id : Ids \cup {NullId, NoId, BadId},
   method : Methods \cup {NoMethod}, params : Params(names)]

-----------------------------------------------------------------------------
(* Errors and outcomes. *)

ParseError == "parse error"                \* -32700
InvalidRequest == "invalid request"        \* -32600
MethodNotFound == "method not found"       \* -32601
InvalidParams == "invalid params"          \* -32602
InternalError == "internal error"          \* -32603
Unsupported == "unsupported version"       \* -32022
Codes == {ParseError, InvalidRequest, MethodNotFound, InvalidParams,
          InternalError, Unsupported}

Reject(id, code) == [kind |-> "error", id |-> id, code |-> code]
Accepted(id) == [kind |-> "request", id |-> id]
Notification == [kind |-> "notification"]

ValidId(m) == m.id \notin {NoId, BadId}

(* idForInvalidRequest *)
EchoId(m) == IF ValidId(m) THEN m.id ELSE NullId

(* Mutant: a null id makes a notification. *)
IsNotification_Null(m) == m.id \in {NoId, NullId}

IsNotification(m) == m.id = NoId

(* validateToolsCallParams.  A missing or null "arguments" is replaced by  *)
(* {}, so what follows sees an object.                                     *)
ToolsCallParamsOK(p) ==
  /\ p.shape = "object"
  /\ ~p.tooBig
  /\ p.name # NoName
  /\ p.arguments # "other"

(* validateMethodParams *)
MethodParamsOK(method, p) ==
  /\ method = "initialize" => p.shape = "object" /\ p.version # ""
  /\ method = "tools/list" => p.shape # "other"
  /\ method = "tools/call" => ToolsCallParamsOK(p)

(* validateRequestMessageWithLimits, its checks in the order of the code *)
Validate(m) ==
  IF m.json = "invalid" THEN Reject(NullId, ParseError)
  ELSE IF m.json = "not object" THEN Reject(NullId, InvalidRequest)
  ELSE IF ~m.v2 \/ m.id = BadId \/ m.method = NoMethod
       THEN Reject(EchoId(m), InvalidRequest)
  ELSE IF IsNotification(m) THEN Notification
  ELSE IF MethodParamsOK(m.method, m.params) THEN Accepted(m.id)
  ELSE Reject(m.id, InvalidParams)

-----------------------------------------------------------------------------
(* Mutant: the envelope is not remembered. *)
Inspect_NoEnvelope(p) ==
  [version |-> IF p.shape # "object" \/ p.meta \in {NoMeta, PlainMeta} THEN Legacy ELSE p.meta,
   envelope |-> FALSE]

(* revision.Inspect: the revision a request asks for and whether it comes  *)
(* in a stateless envelope, or BadMeta.                                    *)
Inspect(p) ==
  IF p.shape # "object" \/ p.meta \in {NoMeta, PlainMeta}
  THEN [version |-> Legacy, envelope |-> FALSE]
  ELSE IF p.meta = BadMeta
  THEN [version |-> BadMeta, envelope |-> FALSE]
  ELSE [version |-> p.meta, envelope |-> TRUE]

Handled == "handled"

(* router.DispatchRevision up to the handler's call: an error, or Handled. *)
(* server/discover is answered by the router, the others by the handlers   *)
(* newRouter registers.                                                    *)
Route(r, method) ==
  IF method = "server/discover" /\ Stateless \notin Policy THEN MethodNotFound
  ELSE IF method = "server/discover" /\ ~r.envelope THEN InvalidParams
  ELSE IF \/ r.version # (IF r.envelope THEN Stateless ELSE Legacy)
          \/ r.version \notin Policy THEN Unsupported
  ELSE IF r.version = Stateless /\ method = "initialize" THEN MethodNotFound
  ELSE IF method = "other" THEN MethodNotFound
  ELSE Handled

(* The handlers' own checks: initialize decodes its parameters, tools/call *)
(* looks the tool up, tools/list and discovery accept what is left.        *)
HandlerCheck(method, p) ==
  IF \/ method = "initialize" /\ p.clientInfo = "bad"
     \/ method = "tools/call" /\ p.name \notin Registry
  THEN InvalidParams ELSE Handled

(* handleRequest of an accepted message, up to a tool's Execute. *)
Dispatch(m) ==
  LET r == Inspect(m.params)
      route == Route(r, m.method)
  IN IF r.version = BadMeta THEN InvalidParams
     ELSE IF route # Handled THEN route
     ELSE HandlerCheck(m.method, m.params)

(* The message reaches a registered tool's Execute. *)
ReachesTool(m) ==
  /\ Validate(m).kind = "request"
  /\ m.method = "tools/call"
  /\ Dispatch(m) = Handled
=============================================================================
