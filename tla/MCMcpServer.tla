----------------------------- MODULE MCMcpServer -----------------------------
(* Instances of McpServer for TLC: lines of two, three and four bytes for  *)
(* a limit of two (at the limit, one byte above, further above), and one   *)
(* message of each kind the loop treats differently.                       *)
EXTENDS McpServer

CONSTANTS a, b

NoParams ==
  [shape |-> "absent", tooBig |-> FALSE, version |-> "", clientInfo |-> "ok",
   meta |-> NoMeta, name |-> NoName, arguments |-> "absent"]

Call(id, name) ==
  [json |-> "object", v2 |-> TRUE, id |-> id, method |-> "tools/call",
   params |-> [NoParams EXCEPT !.shape = "object", !.name = name]]

List(id) ==
  [json |-> "object", v2 |-> TRUE, id |-> id, method |-> "tools/list",
   params |-> NoParams]

Garbage ==
  [json |-> "invalid", v2 |-> FALSE, id |-> NoId, method |-> NoMethod,
   params |-> NoParams]

(* A tool call, the same as a notification, a listing, a call of a tool    *)
(* that is not registered, and what is no JSON at all.                     *)
Traffic ==
  {Call(a, "write_file"), Call(NoId, "write_file"), List(b), Call(b, "unknown"), Garbage}

(* What stands in a line above the limit is not looked at: there it is     *)
(* always the call.                                                        *)
TrafficLines ==
  {line \in LineLengths \X Traffic : Fits(line[1]) \/ line[2] = Call(a, "write_file")}
=============================================================================
