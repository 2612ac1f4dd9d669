------------------------------ MODULE McpServer ------------------------------
(***************************************************************************)
(* The request loop of internal/mcp/server: Run reads a line, validates    *)
(* it, dispatches it through the router to at most one tool, and writes    *)
(* the response, strictly one message at a time, while the client writes,  *)
(* closes its end or cancels the context at any moment.                    *)
(*                                                                         *)
(* Reading is LineTransport's, the checks on a message are Requests'.  The *)
(* outcome of a tool and its effect on the file system are left open here. *)
(***************************************************************************)
EXTENDS LineTransport, Requests

CONSTANTS
  ClientMessages,  \* the messages clients send
  ClientLines,     \* the lines they are sent in: a length and a message
  Lockstep         \* clients await each answer before they send again

ASSUME ServerAssumption ==
  /\ ClientMessages \subseteq Messages(Registry \cup {"unknown"})
  /\ ClientLines \subseteq LineLengths \X ClientMessages
  /\ Lockstep \in BOOLEAN

VARIABLES
  msgs,      \* the messages of the lines in lens
  ctxDone,   \* the context given to Run has been cancelled
  pc,        \* where Run is
  reply,     \* the response being written
  out,       \* the complete lines on standard output
  executed,  \* history: the lines whose tool ran, in order
  late,      \* history: messages read since the context was cancelled
  exit       \* what Run returned

loopVars == <<msgs, ctxDone, pc, reply, out, executed, late, exit>>
vars == <<transportVars, loopVars>>

Result == "result"
ToolError == "tool error"      \* a CallToolResult with isError
Kinds == Codes \cup {Result, ToolError}

(* bounded: written with WriteMessage; big: it exceeds MaxResponseBytes *)
Replies ==
  [line : Nat, id : Ids \cup {NullId}, kind : Kinds,
   bounded : BOOLEAN, big : BOOLEAN]

Response(k, id, kind, isBig) ==
  [line |-> k, id |-> id, kind |-> kind, bounded |-> TRUE, big |-> isBig]
ErrorReply(k, id, code) ==
  [line |-> k, id |-> id, kind |-> code, bounded |-> FALSE, big |-> FALSE]

Answers == [line : Nat, id : Ids \cup {NullId}, kind : Kinds]

TypeOK ==
  /\ TransportTypeOK
  /\ msgs \in Seq(ClientMessages)
  /\ ctxDone \in BOOLEAN
  /\ pc \in {"top", "read", "validate", "handle", "write", "stopped"}
  /\ reply \in Replies
  /\ out \in Seq(Answers)
  /\ executed \in Seq(Nat)
  /\ late \in Nat
  /\ exit \in {"running", "nil", "canceled", "read error", "write error"}

Init ==
  /\ TransportInit
  /\ msgs = << >>
  /\ ctxDone = FALSE
  /\ pc = "top"
  /\ reply = ErrorReply(0, NullId, InvalidRequest)
  /\ out = << >>
  /\ executed = << >> /\ late = 0
  /\ exit = "running"

current == Len(fate)
message == msgs[current]

-----------------------------------------------------------------------------
(* What is owed for a line. *)

Silent(m) == Validate(m).kind = "notification"

Owed(k) ==
  \/ fate[k] = "rejected"
  \/ fate[k] = "message" /\ ~Silent(msgs[k])

IsAnswered(k) == \E i \in 1..Len(out) : out[i].line = k

-----------------------------------------------------------------------------
(* The client and the caller of Run. *)

(* A client that works request by request waits for every line it has      *)
(* written to be answered, unless it was a notification.                   *)
AwaitsNothing ==
  \A k \in 1..Len(msgs) : IsAnswered(k) \/ (Fits(lens[k]) /\ Silent(msgs[k]))

ClientSend ==
  /\ \E n \in LineLengths, m \in ClientMessages :
       <<n, m>> \in ClientLines /\ Send(n) /\ msgs' = Append(msgs, m)
  /\ Lockstep => AwaitsNothing
  /\ UNCHANGED <<ctxDone, pc, reply, out, executed, late, exit>>

ClientClose ==
  /\ \E t \in TailLengths : Close(t)
  /\ Lockstep => AwaitsNothing
  /\ UNCHANGED loopVars

Cancel ==
  /\ ~ctxDone /\ pc # "stopped"
  /\ ctxDone' = TRUE
  /\ UNCHANGED <<transportVars, msgs, pc, reply, out, executed, late, exit>>

-----------------------------------------------------------------------------
(* Run.  The context is looked at only between two messages. *)

(* Mutant: the context is not looked at. *)
CheckContext_Ignored ==
  /\ pc = "top" /\ pc' = "read"
  /\ UNCHANGED <<transportVars, msgs, ctxDone, reply, out, executed, late, exit>>

CheckContext ==
  /\ pc = "top"
  /\ IF ctxDone THEN pc' = "stopped" /\ exit' = "canceled"
                ELSE pc' = "read" /\ UNCHANGED exit
  /\ UNCHANGED <<transportVars, msgs, ctxDone, reply, out, executed, late>>

CountLate == late' = IF ctxDone THEN late + 1 ELSE late

ReadRequest ==
  /\ pc = "read"
  /\ ReadLine
  /\ pc' = "validate"
  /\ CountLate
  /\ UNCHANGED <<msgs, ctxDone, reply, out, executed, exit>>

(* Mutant: an overlong line is skipped without a word. *)
RejectTooLarge_Silent(k) ==
  /\ pc' = "top"
  /\ CountLate
  /\ UNCHANGED <<msgs, ctxDone, reply, out, executed, exit>>

(* ReadMessage returned ErrMessageTooLarge for line k. *)
RejectTooLarge(k) ==
  /\ pc' = "write"
  /\ reply' = ErrorReply(k, NullId, InvalidRequest)
  /\ CountLate
  /\ UNCHANGED <<msgs, ctxDone, out, executed, exit>>

(* ReadMessage is still inside discardLine. *)
StayInRead ==
  UNCHANGED loopVars

ReadTooLarge ==
  /\ pc = "read"
  /\ \/ ReadOverlong /\ (IF discarding' THEN StayInRead ELSE RejectTooLarge(current + 1))
     \/ DiscardNext /\ RejectTooLarge(current)
     \/ DiscardToEOF /\ RejectTooLarge(current)
     \/ ReadOverlongTail /\ RejectTooLarge(Len(lens) + 1)

ReadEnd ==
  /\ pc = "read"
  /\ ReadEOF
  /\ pc' = "stopped" /\ exit' = "nil"
  /\ UNCHANGED <<msgs, ctxDone, reply, out, executed, late>>

(* The stream fails in the middle of a line or between two. *)
ReadFails ==
  /\ pc = "read" /\ ~discarding
  /\ pc' = "stopped" /\ exit' = "read error"
  /\ UNCHANGED <<transportVars, msgs, ctxDone, reply, out, executed, late>>

ValidateRequest ==
  /\ pc = "validate"
  /\ LET v == Validate(message) IN
       \/ /\ v.kind = "error"
          /\ pc' = "write"
          /\ reply' = ErrorReply(current, v.id, v.code)
       \/ v.kind = "notification" /\ pc' = "top" /\ UNCHANGED reply
       \/ v.kind = "request" /\ pc' = "handle" /\ UNCHANGED reply
  /\ UNCHANGED <<transportVars, msgs, ctxDone, out, executed, late, exit>>

(* handleRequest when no tool is involved: a protocol error, or the result *)
(* of initialize, tools/list or server/discover; a panic is recovered.     *)
HandleWithoutTool ==
  /\ pc = "handle"
  /\ ~ReachesTool(message)
  /\ \E isBig \in BOOLEAN :
       \/ /\ Dispatch(message) # Handled
          /\ reply' = Response(current, message.id, Dispatch(message), isBig)
       \/ /\ Dispatch(message) = Handled
          /\ \E kind \in {Result, InternalError} :
               reply' = Response(current, message.id, kind, isBig)
  /\ pc' = "write"
  /\ UNCHANGED <<transportVars, msgs, ctxDone, out, executed, late, exit>>

(* handleRequest of a tools/call that reaches Execute: a result, a typed   *)
(* tool error, or an unclassified error or recovered panic.                *)
ExecuteTool ==
  /\ pc = "handle"
  /\ ReachesTool(message)
  /\ executed' = Append(executed, current)
  /\ \E kind \in {Result, ToolError, InternalError}, isBig \in BOOLEAN :
       reply' = Response(current, message.id, kind, isBig)
  /\ pc' = "write"
  /\ UNCHANGED <<transportVars, msgs, ctxDone, out, late, exit>>

(* Mutants: the replacement loses the id, or the response is dropped. *)
ReplaceOversized_NoId ==
  /\ pc = "write"
  /\ reply.bounded /\ reply.big
  /\ reply' = ErrorReply(reply.line, NullId, InternalError)
  /\ UNCHANGED <<transportVars, msgs, ctxDone, pc, out, executed, late, exit>>
ReplaceOversized_Drop ==
  /\ pc = "write"
  /\ reply.bounded /\ reply.big
  /\ pc' = "top"
  /\ UNCHANGED <<transportVars, msgs, ctxDone, reply, out, executed, late, exit>>

(* writeResponse: a response above the limit is replaced by an internal    *)
(* error, written without the limit.                                       *)
ReplaceOversized ==
  /\ pc = "write"
  /\ reply.bounded /\ reply.big
  /\ reply' = ErrorReply(reply.line, reply.id, InternalError)
  /\ UNCHANGED <<transportVars, msgs, ctxDone, pc, out, executed, late, exit>>

Wire(r) == [line |-> r.line, id |-> r.id, kind |-> r.kind]

(* Mutant: the response is written again. *)
WriteReply_Twice ==
  /\ pc = "write"
  /\ ~(reply.bounded /\ reply.big)
  /\ out' = Append(out, Wire(reply))
  /\ Len(out) < 6
  /\ UNCHANGED <<transportVars, msgs, ctxDone, pc, reply, executed, late, exit>>

(* Flush returns when the client has taken enough off the pipe: until then *)
(* Run waits in this step.                                                 *)
WriteReply ==
  /\ pc = "write"
  /\ ~(reply.bounded /\ reply.big)
  /\ out' = Append(out, Wire(reply))
  /\ pc' = "top"
  /\ UNCHANGED <<transportVars, msgs, ctxDone, reply, executed, late, exit>>

(* A failing Write or Flush ends Run; any part of the line that got out is *)
(* the last thing written.                                                 *)
WriteFails ==
  /\ pc = "write"
  /\ ~(reply.bounded /\ reply.big)
  /\ pc' = "stopped" /\ exit' = "write error"
  /\ UNCHANGED <<transportVars, msgs, ctxDone, reply, out, executed, late>>

(* What Run does without waiting for the client to read. *)
Unaided ==
  \/ CheckContext
  \/ ReadRequest \/ ReadTooLarge \/ ReadEnd
  \/ ValidateRequest
  \/ HandleWithoutTool \/ ExecuteTool
  \/ ReplaceOversized

Run == Unaided \/ WriteReply

Fault == ReadFails \/ WriteFails

Next == ClientSend \/ ClientClose \/ Cancel \/ Run \/ Fault

(* Run is one goroutine: it goes on while it can.  The client and the      *)
(* caller owe nothing, and no stream has to fail: a client that does not   *)
(* read leaves Run in WriteReply, for ever if it never does.               *)
Spec == Init /\ [][Next]_vars /\ WF_vars(Unaided)

-----------------------------------------------------------------------------

(* Every line is answered at most once, and answers come in the order of   *)
(* the lines they answer (the sequential loop of Run).                     *)
AnswersInOrder ==
  \A i, j \in 1..Len(out) : i < j => out[i].line < out[j].line

(* The line whose handling is under way, 0 if none is. *)
InHand ==
  IF pc \in {"validate", "handle"} THEN current
  ELSE IF pc = "write" \/ exit = "write error" THEN reply.line
  ELSE IF pc = "read" /\ discarding THEN current
  ELSE 0

(* No answer is ever skipped and none is made up: apart from the one line  *)
(* in hand, a consumed line has an answer exactly if one is owed for it.   *)
AnsweredIffOwed ==
  \A k \in 1..Len(fate) : k # InHand => (IsAnswered(k) <=> Owed(k))

(* The id a request carries, null where none can be read. *)
OwnId(k) ==
  IF /\ k <= Len(lens) /\ Fits(lens[k])
     /\ msgs[k].json = "object" /\ msgs[k].id \in Ids
  THEN msgs[k].id ELSE NullId

(* An answer carries the id of the very request it answers, or null if     *)
(* that request has none that can be read (the id handed from validation   *)
(* through dispatch to writeResponse and writeError).                      *)
AnswerMatchesRequest ==
  \A i \in 1..Len(out) : out[i].id = OwnId(out[i].line)

(* A tool runs at most once per line and in line order, only for an        *)
(* accepted request, never for a notification, a refused or a lost line.   *)
ToolsRunOnce ==
  /\ \A i, j \in 1..Len(executed) : i < j => executed[i] < executed[j]
  /\ \A i \in 1..Len(executed) :
       /\ executed[i] \in 1..Len(fate)
       /\ fate[executed[i]] = "message"
       /\ ReachesTool(msgs[executed[i]])

(* Whatever a tool did, its caller is told something before another        *)
(* message is handled, even if its result was too large to be sent; only   *)
(* a broken output stream can swallow the answer, and it ends the server.  *)
EffectsAnswered ==
  \A i \in 1..Len(executed) :
    IsAnswered(executed[i]) \/ executed[i] = InHand

(* After cancellation at most one more message is taken from the stream,   *)
(* the one Run was waiting for or working on.                              *)
CancelStopsIntake == late <= 1 /\ (late = 1 => pc # "read")

(* A server that ended by itself left nothing unanswered behind. *)
EndedMeansDrained ==
  exit = "nil" =>
    /\ Len(fate) = Len(lens)
    /\ \A k \in 1..Len(lens) : Owed(k) => IsAnswered(k)

(* What a client sees: an answer for every line that is owed one and for   *)
(* no other, once, in the order of the lines, each under its own id.       *)
AnsweredOnce == AnswersInOrder /\ AnsweredIffOwed /\ AnswerMatchesRequest

(* What the tools do: each accepted call acts once, and its caller hears   *)
(* of it before anything else happens.                                     *)
ToolsAccounted == ToolsRunOnce /\ EffectsAnswered

(* How the server ends: nothing new is begun after a cancellation, nothing *)
(* is left undone at the end of the input.                                 *)
EndsCleanly == CancelStopsIntake /\ EndedMeansDrained

(* The client reads its answers: no Flush blocks for ever (or it fails).   *)
Flushing == pc = "write" /\ ~(reply.bounded /\ reply.big)
ClientReads == []<>~Flushing

(* A client that reads what it is sent has every line dealt with in the    *)
(* end, unless Run returned first or the reader has fallen into a discard  *)
(* that waits for bytes the client has not sent.                           *)
Stuck == discarding /\ ~Unread /\ ~eof

LinesDealtWith ==
  ClientReads =>
    \A k \in 1..MaxLines :
      Len(lens) >= k ~>
        \/ Len(fate) >= k /\ (Owed(k) => IsAnswered(k))
        \/ pc = "stopped"
        \/ Stuck

(* security.md:218 promises that a message above the cap is rejected: with *)
(* a client that reads and no cancellation, its rejection gets out.        *)
OverlongRejected ==
  ClientReads =>
    \A k \in 1..MaxLines :
      (Len(lens) >= k /\ ~Fits(lens[k])) ~>
        (IsAnswered(k) \/ pc = "stopped")

-----------------------------------------------------------------------------
(* The inductive invariant behind these properties: what ties the place in *)
(* the loop to the line in hand, the reply, the output and the tool runs.  *)

LineInHand ==
  /\ Len(msgs) = Len(lens) /\ Len(lens) <= MaxLines /\ Len(fate) <= Len(lens)
  /\ exit = "running" <=> pc # "stopped"
  /\ discarding =>
       /\ pc = "read" /\ current > 0
       /\ fate[current] = "rejected" /\ EndsOnLimit(lens[current])
  /\ pc \in {"validate", "handle"} => current > 0 /\ fate[current] = "message"
  /\ pc = "handle" => Validate(message).kind = "request"

TailReported == eof /\ ~Unread /\ tail = 0

Replying == pc = "write" \/ exit = "write error"

ReplyInHand ==
  Replying =>
    /\ \/ current > 0 /\ reply.line = current /\ Owed(current)
       \/ current > 1 /\ reply.line = current - 1 /\ fate[current] = "swallowed"
       \/ reply.line = Len(lens) + 1 /\ TailReported
    /\ reply.id = OwnId(reply.line)

(* Every answer is for a line already consumed that was owed one, and that *)
(* lies before the line in hand.                                           *)
OutputSound ==
  \A i \in 1..Len(out) :
    /\ out[i].line > 0
    /\ \/ out[i].line <= current /\ Owed(out[i].line)
       \/ out[i].line = Len(lens) + 1 /\ TailReported
    /\ InHand > 0 => out[i].line < InHand

RunsBeforeHand ==
  pc \in {"validate", "handle"} => \A i \in 1..Len(executed) : executed[i] < current

IndInv ==
  /\ TypeOK /\ FateSound
  /\ LineInHand /\ ReplyInHand /\ OutputSound /\ RunsBeforeHand
  /\ AnswersInOrder /\ AnsweredIffOwed /\ AnswerMatchesRequest /\ ToolsRunOnce

-----------------------------------------------------------------------------
(* The loop implements the service: however reading, limits, the context   *)
(* and the output stream behave, each step settles the next line the way   *)
(* the service may, or nothing a client could see.                         *)
Settled ==
  IF Replying THEN reply.line - 1
  ELSE IF pc \in {"validate", "handle"} \/ discarding THEN current - 1
  ELSE current

Service == INSTANCE RpcService WITH
             open <- ~eof, answers <- out, settled <- Settled

ImplementsService == Service!ServiceSpec
=============================================================================
