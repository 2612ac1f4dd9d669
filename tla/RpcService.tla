------------------------------ MODULE RpcService ------------------------------
(***************************************************************************)
(* What a client may expect of the server, without reading, validating,    *)
(* limiting or writing: the lines it has written are settled one after the *)
(* other, each by one answer or, for a notification, by none.  The one     *)
(* thing the code forces into this picture is that a line refused because  *)
(* of its very last byte may take the next line with it.                   *)
(***************************************************************************)
EXTENDS Requests

CONSTANTS MaxReadBytes, LineLengths, MaxLines, ClientMessages

VARIABLES
  lens, msgs,   \* length and content of the lines the client has written
  open,         \* the client may still write
  answers,      \* the answers it has received
  settled       \* number of lines dealt with

serviceVars == <<lens, msgs, open, answers, settled>>

TooLong(n) == MaxReadBytes > 0 /\ n > MaxReadBytes

IsSilent(m) == Validate(m).kind = "notification"

(* The answers a line can get. *)
AnswerId(k) ==
  IF ~TooLong(lens[k]) /\ msgs[k].json = "object" /\ msgs[k].id \in Ids
  THEN msgs[k].id ELSE NullId

AnswerKinds(k) ==
  LET v == Validate(msgs[k])
      d == Dispatch(msgs[k])
  IN IF TooLong(lens[k]) THEN {InvalidRequest}
     ELSE IF v.kind = "error" THEN {v.code}
     ELSE IF v.kind = "notification" THEN {}
     ELSE IF d # Handled THEN {d, InternalError}
     ELSE IF ReachesTool(msgs[k]) THEN {"result", "tool error", InternalError}
     ELSE {"result", InternalError}

ServiceInit ==
  lens = << >> /\ msgs = << >> /\ open = TRUE /\ answers = << >> /\ settled = 0

Ask ==
  /\ open /\ Len(msgs) < MaxLines
  /\ \E n \in LineLengths, m \in ClientMessages :
       lens' = Append(lens, n) /\ msgs' = Append(msgs, m)
  /\ UNCHANGED <<open, answers, settled>>

Hangup == open /\ open' = FALSE /\ UNCHANGED <<lens, msgs, answers, settled>>

NextLine == settled + 1

AnswerNext ==
  \E kind \in AnswerKinds(NextLine) :
    answers' = Append(answers, [line |-> NextLine, id |-> AnswerId(NextLine), kind |-> kind])

Answer ==
  /\ settled < Len(msgs)
  /\ AnswerNext
  /\ \/ settled' = NextLine
     \/ /\ lens[NextLine] = MaxReadBytes + 1    \* the next line is lost
        /\ NextLine < Len(msgs)
        /\ settled' = NextLine + 1
  /\ UNCHANGED <<lens, msgs, open>>

Ignore ==
  /\ settled < Len(msgs)
  /\ ~TooLong(lens[NextLine]) /\ IsSilent(msgs[NextLine])
  /\ settled' = NextLine
  /\ UNCHANGED <<lens, msgs, open, answers>>

(* An unterminated line above the limit is refused after all the others. *)
RefuseTail ==
  /\ ~open /\ settled = Len(msgs)
  /\ \A i \in 1..Len(answers) : answers[i].line <= settled
  /\ answers' = Append(answers, [line |-> NextLine, id |-> NullId, kind |-> InvalidRequest])
  /\ UNCHANGED <<lens, msgs, open, settled>>

ServiceNext == Ask \/ Hangup \/ Answer \/ Ignore \/ RefuseTail

ServiceSpec == ServiceInit /\ [][ServiceNext]_serviceVars
=============================================================================
