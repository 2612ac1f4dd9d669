--------------------------- MODULE McpServerProofs ---------------------------
(***************************************************************************)
(* Machine-checked proofs about the request loop, for every limit, every   *)
(* set of line lengths, tails, ids, messages and tools, and any number of  *)
(* lines: type correctness, the safety properties of McpServer, and that   *)
(* the loop implements RpcService.                                         *)
(***************************************************************************)
EXTENDS McpServer, TLAPS

USE DEF Result, ToolError

-----------------------------------------------------------------------------
(* What validation and dispatch return. *)

(* A refused message is answered with its own id, or null, and a code.     *)
LEMMA ValidateError ==
  ASSUME NEW m \in ClientMessages, Validate(m).kind = "error"
  PROVE  /\ Validate(m).id = IF m.json = "object" /\ m.id \in Ids THEN m.id ELSE NullId
         /\ Validate(m).id \in Ids \cup {NullId}
         /\ Validate(m).code \in Codes
<1>1. m \in Messages(Registry \cup {"unknown"})
  BY ServerAssumption
<1>2. m.id \in Ids \cup {NullId, NoId, BadId} /\ m.json \in {"invalid", "not object", "object"}
  BY <1>1 DEF Messages
<1>3. NullId # NoId /\ NullId # BadId /\ NullId \notin Ids /\ NoId \notin Ids /\ BadId \notin Ids
  BY RequestAssumption DEF NullId, NoId, BadId
<1> QED
  BY <1>2, <1>3 DEF Validate, Reject, Accepted, Notification, ValidId, EchoId, IsNotification, Codes

(* An accepted message is an object with an id that can be echoed. *)
LEMMA ValidateRequest_Id ==
  ASSUME NEW m \in ClientMessages, Validate(m).kind = "request"
  PROVE  m.id \in Ids \cup {NullId} /\ m.json = "object"
<1>1. m \in Messages(Registry \cup {"unknown"})
  BY ServerAssumption
<1>2. m.id \in Ids \cup {NullId, NoId, BadId} /\ m.json \in {"invalid", "not object", "object"}
  BY <1>1 DEF Messages
<1> QED
  BY <1>2 DEF Validate, Reject, Accepted, Notification, IsNotification

(* The three outcomes of validation. *)
LEMMA ValidateKinds ==
  ASSUME NEW m PROVE Validate(m).kind \in {"error", "notification", "request"}
BY DEF Validate, Reject, Accepted, Notification

(* Dispatch answers with a code of its own or hands the message on. *)
LEMMA DispatchCodes ==
  ASSUME NEW m, Dispatch(m) # Handled
  PROVE  Dispatch(m) \in Codes
BY DEF Dispatch, Route, HandlerCheck, Handled, Codes

-----------------------------------------------------------------------------
(* Appending one element: the elements before it stay where they are. *)
LEMMA AppendFacts ==
  ASSUME NEW S, NEW s \in Seq(S), NEW e \in S, NEW t, t = Append(s, e)
  PROVE  /\ t \in Seq(S) /\ Len(t) = Len(s) + 1
         /\ Len(t) \in 1..Len(t) /\ t[Len(t)] = e
         /\ \A i \in 1..Len(s) : i \in 1..Len(t) /\ t[i] = s[i]
         /\ \A i \in 1..Len(t) : i \in 1..Len(s) \/ t[i] = e
         /\ \A i, j \in 1..Len(t) : i < j => i \in 1..Len(s)
OBVIOUS

-----------------------------------------------------------------------------
(* Initially. *)

(* Run starts with nothing read, nothing written and no tool run. *)
LEMMA InitInv == Init => IndInv
<1> SUFFICES ASSUME Init PROVE IndInv
  OBVIOUS
<1>2. reply \in Replies
  BY DEF Init, Replies, ErrorReply, Kinds, Codes
<1>3. /\ msgs = << >> /\ ctxDone = FALSE /\ pc = "top" /\ out = << >>
      /\ executed = << >> /\ late = 0 /\ exit = "running"
      /\ lens = << >> /\ fate = << >> /\ discarding = FALSE
  BY Zenon DEF Init, TransportInit
<1>1. TransportTypeOK
  <2>1. lens \in Seq(LineLengths) /\ fate \in Seq(Fates)
    BY <1>3
  <2> QED
    BY <2>1, Zenon DEF Init, TransportInit, TransportTypeOK
<1>4. msgs \in Seq(ClientMessages) /\ out \in Seq(Answers) /\ executed \in Seq(Nat) /\ late \in Nat
  BY <1>3
<1>5. TypeOK
  BY <1>1, <1>2, <1>3, <1>4, Zenon DEF TypeOK
<1>6. FateSound /\ AnswersInOrder /\ AnswersInOrder /\ AnsweredIffOwed
      /\ AnswerMatchesRequest /\ ToolsRunOnce /\ OutputSound
  BY <1>3 DEF FateSound, AnswersInOrder, AnsweredIffOwed,
              AnswerMatchesRequest, ToolsRunOnce, OutputSound
<1>7. LineInHand /\ ReplyInHand /\ RunsBeforeHand
  BY <1>3, TransportAssumption DEF LineInHand, ReplyInHand, Replying, RunsBeforeHand
<1> QED
  BY <1>5, <1>6, <1>7 DEF IndInv

-----------------------------------------------------------------------------
(* What every state of the invariant offers the steps. *)

(* The types of the sequences, and the order of their lengths. *)
LEMMA Basics ==
  ASSUME IndInv
  PROVE  /\ TransportTypeOK
         /\ lens \in Seq(LineLengths) /\ fate \in Seq(Fates)
         /\ msgs \in Seq(ClientMessages) /\ out \in Seq(Answers)
         /\ executed \in Seq(Nat) /\ reply \in Replies /\ late \in Nat
         /\ current = Len(fate) /\ current \in Nat
         /\ Len(lens) \in Nat /\ Len(msgs) = Len(lens)
         /\ Len(fate) <= Len(lens) /\ Len(lens) <= MaxLines /\ MaxLines \in Nat
<1>1. TypeOK
  BY DEF IndInv
<1>2. TransportTypeOK /\ msgs \in Seq(ClientMessages) /\ out \in Seq(Answers)
      /\ executed \in Seq(Nat) /\ reply \in Replies /\ late \in Nat
  BY <1>1, Zenon DEF TypeOK
<1>3. lens \in Seq(LineLengths) /\ fate \in Seq(Fates)
  BY <1>2, Zenon DEF TransportTypeOK
<1>4. LineInHand
  BY DEF IndInv
<1>5. Len(msgs) = Len(lens) /\ Len(fate) <= Len(lens) /\ Len(lens) <= MaxLines
  BY <1>4, Zenon DEF LineInHand
<1> QED
  BY <1>2, <1>3, <1>5, TransportAssumption DEF current

(* The lines answers are for are positive numbers. *)
LEMMA AnswerLines ==
  ASSUME IndInv
  PROVE  /\ Len(out) \in Nat /\ reply.line \in Nat
         /\ \A i \in 1..Len(out) : out[i].line \in Nat /\ out[i].line > 0
<1>1. OutputSound
  BY DEF IndInv
<1>2. reply.line \in Nat
  BY Basics DEF Replies
<1>3. \A i \in 1..Len(out) : out[i] \in Answers
  BY Basics
<1> QED
  BY <1>1, <1>2, <1>3, Basics DEF Answers, OutputSound

(* ReadMessage keeps the types of the stream. *)
LEMMA ReaderTypes ==
  ASSUME TransportTypeOK,
         ReadLine \/ ReadOverlong \/ DiscardNext \/ DiscardToEOF \/ ReadOverlongTail \/ ReadEOF
  PROVE  TransportTypeOK'
<1>1. lens \in Seq(LineLengths) /\ fate \in Seq(Fates) /\ tail \in TailLengths \cup {0}
      /\ eof \in BOOLEAN /\ discarding \in BOOLEAN /\ atEOF \in BOOLEAN
  BY Zenon DEF TransportTypeOK
<1>2. \A f \in Fates : Append(fate, f) \in Seq(Fates)
  BY <1>1
<1>3. CASE ReadLine
  BY <1>1, <1>2, <1>3, Zenon DEF TransportTypeOK, ReadLine, Fates
<1>4. CASE ReadOverlong
  BY <1>1, <1>2, <1>4, Zenon DEF TransportTypeOK, ReadOverlong, Fates, EndsOnLimit
<1>5. CASE DiscardNext
  BY <1>1, <1>2, <1>5, Zenon DEF TransportTypeOK, DiscardNext, Fates
<1>6. CASE DiscardToEOF
  BY <1>1, <1>6, Zenon DEF TransportTypeOK, DiscardToEOF
<1>7. CASE ReadOverlongTail
  BY <1>1, <1>7, Zenon DEF TransportTypeOK, ReadOverlongTail
<1>8. CASE ReadEOF
  BY <1>1, <1>8, Zenon DEF TransportTypeOK, ReadEOF
<1> QED
  BY <1>3, <1>4, <1>5, <1>6, <1>7, <1>8

-----------------------------------------------------------------------------
(* The steps of the client and of the caller. *)

(* A line the client adds changes nothing about the lines already read. *)
LEMMA ClientSendStep ==
  ASSUME IndInv, ClientSend PROVE IndInv'
<1>0. PICK n \in LineLengths, m \in ClientMessages :
        <<n, m>> \in ClientLines /\ Send(n) /\ msgs' = Append(msgs, m)
  BY Zenon DEF ClientSend
<1>1. /\ ~eof /\ lens' = Append(lens, n) /\ msgs' = Append(msgs, m) /\ Len(lens) < MaxLines
      /\ UNCHANGED <<eof, tail, fate, discarding, atEOF, ctxDone, pc, reply, out,
                     executed, late, exit>>
  BY <1>0, Zenon DEF ClientSend, Send
<1>2. /\ Len(lens') = Len(lens) + 1 /\ Len(msgs') = Len(msgs) + 1
      /\ lens' \in Seq(LineLengths) /\ msgs' \in Seq(ClientMessages)
      /\ \A k \in 1..Len(lens) : lens'[k] = lens[k] /\ msgs'[k] = msgs[k]
  BY <1>1, Basics
<1>3. /\ TypeOK /\ FateSound /\ LineInHand /\ ReplyInHand /\ OutputSound /\ RunsBeforeHand
      /\ AnswersInOrder /\ AnsweredIffOwed /\ AnswerMatchesRequest /\ ToolsRunOnce
  BY Zenon DEF IndInv
<1>4. TypeOK'
  BY <1>1, <1>2, <1>3, Zenon DEF TypeOK, TransportTypeOK
<1>5. current' = current /\ InHand' = InHand /\ Replying' = Replying
  BY <1>1, Zenon DEF current, InHand, Replying
<1>6. \A k \in 1..Len(fate) : Owed(k)' <=> Owed(k)
  BY <1>1, <1>2, Basics DEF Owed
<1>7. \A k \in 1..Len(lens) : OwnId(k)' = OwnId(k)
  BY <1>1, <1>2, Basics DEF OwnId
<1>8. \A k : IsAnswered(k)' <=> IsAnswered(k)
  BY <1>1, Zenon DEF IsAnswered
<1>9. FateSound'
  BY <1>1, <1>2, <1>3, Basics DEF FateSound
<1>10. LineInHand'
  <2>1. pc = "handle" => message' = message
    BY <1>1, <1>2, <1>3, <1>5, Basics DEF LineInHand, message
  <2>2. discarding => lens'[current] = lens[current]
    BY <1>1, <1>2, <1>3, Basics DEF LineInHand
  <2>3. Len(msgs') = Len(lens') /\ Len(lens') <= MaxLines /\ Len(fate') <= Len(lens')
    BY <1>1, <1>2, Basics
  <2> QED
    BY <1>1, <1>3, <1>5, <2>1, <2>2, <2>3, Zenon DEF LineInHand
<1>11. ReplyInHand'
  BY <1>1, <1>2, <1>3, <1>5, <1>6, <1>7, Basics DEF ReplyInHand, TailReported, Replies
<1>12. OutputSound'
  <2>1. \A i \in 1..Len(out) : out[i].line \in 1..Len(fate) /\ Owed(out[i].line)
    BY <1>1, <1>3, Basics, AnswerLines DEF OutputSound, TailReported
  <2>2. \A i \in 1..Len(out) : Owed(out[i].line)'
    BY <1>1, <1>6, <2>1, Zenon
  <2> QED
    BY <1>1, <1>3, <1>5, <2>1, <2>2, Basics, AnswerLines DEF OutputSound
<1>13. RunsBeforeHand'
  BY <1>1, <1>3, <1>5, Zenon DEF RunsBeforeHand
<1>14. AnswersInOrder'
  BY <1>1, <1>3, Zenon DEF AnswersInOrder
<1>15. AnsweredIffOwed'
  BY <1>1, <1>3, <1>5, <1>6, <1>8, Zenon DEF AnsweredIffOwed
<1>16. AnswerMatchesRequest'
  <2>1. \A i \in 1..Len(out) : out[i].line \in 1..Len(lens)
    BY <1>1, <1>3, Basics, AnswerLines DEF OutputSound, TailReported
  <2> QED
    BY <1>1, <1>3, <1>7, <2>1, Zenon DEF AnswerMatchesRequest
<1>17. ToolsRunOnce'
  <2>1. \A i \in 1..Len(executed) : executed[i] \in 1..Len(lens)
    BY <1>3, Basics DEF ToolsRunOnce
  <2>2. \A i \in 1..Len(executed) : msgs'[executed[i]] = msgs[executed[i]]
    BY <1>2, <2>1
  <2> QED
    BY <1>1, <1>3, <2>2, Zenon DEF ToolsRunOnce
<1> QED
  BY <1>4, <1>9, <1>10, <1>11, <1>12, <1>13, <1>14, <1>15, <1>16, <1>17, Zenon DEF IndInv

(* Closing the stream reports nothing yet. *)
LEMMA ClientCloseStep ==
  ASSUME IndInv, ClientClose PROVE IndInv'
<1>0. PICK t \in TailLengths : Close(t)
  BY Zenon DEF ClientClose
<1>1. /\ ~eof /\ eof' = TRUE /\ tail' = t
      /\ UNCHANGED <<lens, fate, discarding, atEOF, msgs, ctxDone, pc, reply, out,
                     executed, late, exit>>
  BY <1>0, Zenon DEF ClientClose, Close, loopVars
<1>2. /\ TypeOK /\ FateSound /\ LineInHand /\ ReplyInHand /\ OutputSound /\ RunsBeforeHand
      /\ AnswersInOrder /\ AnsweredIffOwed /\ AnswerMatchesRequest /\ ToolsRunOnce
  BY Zenon DEF IndInv
<1>3. TypeOK'
  BY <1>1, <1>2, Zenon DEF TypeOK, TransportTypeOK
<1>4. /\ current' = current /\ message' = message
      /\ InHand' = InHand /\ (Replying' <=> Replying)
  BY <1>1, Zenon DEF current, message, InHand, Replying
<1>5. \A k : (Owed(k)' <=> Owed(k)) /\ OwnId(k)' = OwnId(k) /\ (IsAnswered(k)' <=> IsAnswered(k))
  BY <1>1, Zenon DEF Owed, OwnId, IsAnswered
<1>6. FateSound' /\ LineInHand' /\ RunsBeforeHand' /\ ToolsRunOnce'
  BY <1>1, <1>2, <1>4, Zenon DEF FateSound, LineInHand, RunsBeforeHand, ToolsRunOnce
<1>7. AnswersInOrder' /\ AnsweredIffOwed' /\ AnswerMatchesRequest'
  BY <1>1, <1>2, <1>4, <1>5, Zenon DEF AnswersInOrder, AnsweredIffOwed, AnswerMatchesRequest
<1>8. ~TailReported
  BY <1>1, Zenon DEF TailReported
<1>9. ReplyInHand' /\ OutputSound'
  BY <1>1, <1>2, <1>4, <1>5, <1>8, Zenon DEF ReplyInHand, OutputSound
<1> QED
  BY <1>3, <1>6, <1>7, <1>9, Zenon DEF IndInv

(* Steps that leave the stream and the output alone and keep the line in  *)
(* hand keep what relates them.                                           *)
LEMMA SameHand ==
  ASSUME IndInv, UNCHANGED <<transportVars, msgs, out>>, InHand' = InHand
  PROVE  FateSound' /\ OutputSound' /\ AnswersInOrder' /\ AnsweredIffOwed' /\ AnswerMatchesRequest'
<1>1. FateSound /\ OutputSound /\ AnswersInOrder /\ AnsweredIffOwed /\ AnswerMatchesRequest
  BY Zenon DEF IndInv
<1>2. UNCHANGED <<lens, eof, tail, fate, msgs, out>>
  BY Zenon DEF transportVars
<1>3. current' = current /\ (TailReported' <=> TailReported)
  BY <1>2, Zenon DEF current, TailReported, Unread
<1>4. \A k : (Owed(k)' <=> Owed(k)) /\ OwnId(k)' = OwnId(k) /\ (IsAnswered(k)' <=> IsAnswered(k))
  BY <1>2, Zenon DEF Owed, OwnId, IsAnswered
<1>5. FateSound' /\ AnswersInOrder'
  BY <1>1, <1>2, Zenon DEF FateSound, AnswersInOrder
<1>6. AnsweredIffOwed' /\ AnswerMatchesRequest'
  BY <1>1, <1>2, <1>4, Zenon DEF AnsweredIffOwed, AnswerMatchesRequest
<1>7. OutputSound'
  BY <1>1, <1>2, <1>3, <1>4, Zenon DEF OutputSound
<1> QED
  BY <1>5, <1>6, <1>7

(* Cancelling touches nothing but the context. *)
LEMMA CancelStep ==
  ASSUME IndInv, Cancel PROVE IndInv'
<1>1. UNCHANGED <<transportVars, msgs, pc, reply, out, executed, late, exit>> /\ ctxDone' = TRUE
  BY Zenon DEF Cancel
<1>2. UNCHANGED <<lens, eof, tail, fate, discarding, atEOF>>
  BY <1>1, Zenon DEF transportVars
<1>3. TypeOK /\ LineInHand /\ ReplyInHand /\ RunsBeforeHand /\ ToolsRunOnce
  BY Zenon DEF IndInv
<1>4. TypeOK'
  BY <1>1, <1>2, <1>3, Zenon DEF TypeOK, TransportTypeOK
<1>5. /\ current' = current /\ message' = message /\ InHand' = InHand
      /\ (Replying' <=> Replying) /\ (TailReported' <=> TailReported)
      /\ \A k : (Owed(k)' <=> Owed(k)) /\ OwnId(k)' = OwnId(k)
  BY <1>1, <1>2, Zenon
  DEF current, message, InHand, Replying, TailReported, Unread, Owed, OwnId
<1>6. LineInHand' /\ RunsBeforeHand' /\ ToolsRunOnce'
  BY <1>1, <1>2, <1>3, <1>5, Zenon DEF LineInHand, RunsBeforeHand, ToolsRunOnce
<1>7. ReplyInHand'
  BY <1>1, <1>2, <1>3, <1>5, Zenon DEF ReplyInHand
<1> QED
  BY <1>1, <1>4, <1>5, <1>6, <1>7, SameHand, Zenon DEF IndInv

-----------------------------------------------------------------------------
(* The steps of Run that leave the stream alone. *)

(* The top of the loop has nothing in hand, and neither has what follows. *)
LEMMA CheckContextStep ==
  ASSUME IndInv, CheckContext PROVE IndInv'
<1>1. /\ pc = "top" /\ UNCHANGED <<transportVars, msgs, ctxDone, reply, out, executed, late>>
      /\ \/ pc' = "stopped" /\ exit' = "canceled"
         \/ pc' = "read" /\ exit' = exit
  BY Zenon DEF CheckContext
<1>2. UNCHANGED <<lens, eof, tail, fate, discarding, atEOF>>
  BY <1>1, Zenon DEF transportVars
<1>3. TypeOK /\ LineInHand /\ ToolsRunOnce
  BY Zenon DEF IndInv
<1>4. exit = "running" /\ ~discarding
  BY <1>1, <1>3 DEF LineInHand
<1>5. TypeOK'
  BY <1>1, <1>2, <1>3, Zenon DEF TypeOK, TransportTypeOK
<1>6. InHand' = InHand /\ ~Replying'
  BY <1>1, <1>2, <1>4 DEF InHand, Replying
<1>7. LineInHand'
  <2>1. exit' = "running" <=> pc' # "stopped"
    BY <1>1, <1>4
  <2>2. pc' \notin {"validate", "handle"}
    BY <1>1
  <2> QED
    BY <1>2, <1>1, <1>3, <1>4, <2>1, <2>2, Zenon DEF LineInHand
<1>8. ReplyInHand' /\ RunsBeforeHand'
  BY <1>1, <1>6 DEF ReplyInHand, RunsBeforeHand
<1>9. ToolsRunOnce'
  BY <1>1, <1>2, <1>3, Zenon DEF ToolsRunOnce
<1> QED
  BY <1>1, <1>5, <1>6, <1>7, <1>8, <1>9, SameHand, Zenon DEF IndInv

(* The message being validated or handled is one that was read whole. *)
LEMMA MessageInHand ==
  ASSUME IndInv, pc \in {"validate", "handle"}
  PROVE  /\ current \in 1..Len(fate) /\ current > 0 /\ current <= Len(lens)
         /\ fate[current] = "message" /\ Fits(lens[current])
         /\ message \in ClientMessages
         /\ discarding = FALSE /\ exit = "running" /\ InHand = current
         /\ pc = "handle" => Validate(message).kind = "request"
<1>1. LineInHand /\ FateSound /\ TypeOK
  BY Zenon DEF IndInv
<1>2. current > 0 /\ fate[current] = "message" /\ (pc = "handle" => Validate(message).kind = "request")
  BY <1>1, Zenon DEF LineInHand
<1>3. current \in 1..Len(fate) /\ current \in 1..Len(msgs)
  BY <1>2, Basics
<1>4. Fits(lens[current])
  BY <1>1, <1>2, <1>3, Zenon DEF FateSound
<1>5. ~discarding /\ exit = "running"
  BY <1>1 DEF LineInHand
<1>6. discarding = FALSE
  BY <1>1, <1>5, Zenon DEF TypeOK, TransportTypeOK
<1>7. InHand = current
  BY Zenon DEF InHand
<1>8. message \in ClientMessages
  BY <1>3, Basics DEF message
<1> QED
  BY <1>2, <1>3, <1>4, <1>5, <1>6, <1>7, <1>8, Basics

(* A reply made for the line in hand, with its id, keeps the invariant. *)
LEMMA ReplyStep ==
  ASSUME IndInv, pc \in {"validate", "handle"}, pc' = "write",
         UNCHANGED <<transportVars, msgs, ctxDone, out, late, exit>>,
         reply' \in Replies, reply'.line = current, reply'.id = OwnId(current), Owed(current),
         executed' \in Seq(Nat), ToolsRunOnce'
  PROVE  IndInv'
<1>1. UNCHANGED <<lens, eof, tail, fate, discarding, atEOF, msgs, ctxDone, out, late, exit>>
  BY Zenon DEF transportVars
<1>2. TypeOK /\ LineInHand
  BY Zenon DEF IndInv
<1>3. TypeOK'
  BY <1>1, <1>2, Zenon DEF TypeOK, TransportTypeOK
<1>4. current' = current /\ message' = message /\ Replying'
  BY <1>1, Zenon DEF current, message, Replying
<1>5. InHand' = InHand
  BY <1>4, MessageInHand DEF InHand
<1>6. LineInHand'
  BY <1>1, <1>2, <1>4, MessageInHand, Basics DEF LineInHand
<1>7. ReplyInHand'
  <2>1. reply'.line = current'
    BY <1>4, Zenon
  <2>4. current > 0
    BY MessageInHand, Zenon
  <2>2. Owed(current)'
    BY <1>1, <1>4, Zenon DEF Owed
  <2>3. OwnId(reply.line)' = OwnId(current)
    BY <1>1, Zenon DEF OwnId
  <2> QED
    BY <1>4, <2>1, <2>2, <2>3, <2>4, Zenon DEF ReplyInHand
<1>8. RunsBeforeHand'
  BY DEF RunsBeforeHand
<1> QED
  BY <1>1, <1>3, <1>5, <1>6, <1>7, <1>8, SameHand, Zenon DEF IndInv

(* Tool runs are kept by steps that run no tool. *)
LEMMA SameRuns ==
  ASSUME IndInv, UNCHANGED <<transportVars, msgs, executed>>
  PROVE  ToolsRunOnce' /\ executed' \in Seq(Nat)
<1>1. ToolsRunOnce /\ UNCHANGED <<fate, msgs, executed>>
  BY Zenon DEF IndInv, transportVars
<1> QED
  BY <1>1, Basics, Zenon DEF ToolsRunOnce

(* The id of an object with a usable id is the id its answer carries. *)
LEMMA IdInHand ==
  ASSUME IndInv, pc \in {"validate", "handle"}
  PROVE  OwnId(current) =
           IF message.json = "object" /\ message.id \in Ids THEN message.id ELSE NullId
BY MessageInHand, Zenon DEF OwnId, message

(* Validation answers the line with its id, drops a notification, or       *)
(* passes the message on.                                                  *)
LEMMA ValidateRequestStep ==
  ASSUME IndInv, ValidateRequest PROVE IndInv'
<1>1. pc = "validate" /\ UNCHANGED <<transportVars, msgs, ctxDone, out, executed, late, exit>>
  BY Zenon DEF ValidateRequest
<1>2. CASE Validate(message).kind = "error"
  <2>1. /\ pc' = "write"
        /\ reply' = ErrorReply(current, Validate(message).id, Validate(message).code)
    BY <1>2 DEF ValidateRequest
  <2>2. reply' \in Replies /\ reply'.line = current /\ reply'.id = OwnId(current)
    BY <1>1, <1>2, <2>1, ValidateError, IdInHand, MessageInHand, Basics
    DEF ErrorReply, Replies, Kinds
  <2>3. Owed(current)
    BY <1>1, <1>2, MessageInHand DEF Owed, Silent, message
  <2> QED
    BY <1>1, <2>1, <2>2, <2>3, SameRuns, ReplyStep
<1>3. CASE Validate(message).kind # "error"
  <2>1. \/ Validate(message).kind = "notification" /\ pc' = "top" /\ reply' = reply
        \/ Validate(message).kind = "request" /\ pc' = "handle" /\ reply' = reply
    BY <1>3 DEF ValidateRequest
  <2>2. UNCHANGED <<lens, eof, tail, fate, discarding, atEOF, reply>>
    BY <1>1, <2>1, Zenon DEF transportVars
  <2>3. TypeOK /\ LineInHand /\ RunsBeforeHand /\ OutputSound /\ AnsweredIffOwed
    BY Zenon DEF IndInv
  <2>4. TypeOK'
    BY <1>1, <2>1, <2>2, <2>3, Zenon DEF TypeOK, TransportTypeOK
  <2>5. /\ current' = current /\ message' = message
        /\ \A k : (Owed(k)' <=> Owed(k)) /\ OwnId(k)' = OwnId(k) /\ (IsAnswered(k)' <=> IsAnswered(k))
    BY <1>1, <2>2, Zenon DEF current, message, Owed, OwnId, IsAnswered
  <2>6. pc' \in {"top", "handle"} /\ ~Replying' /\ discarding' = FALSE /\ exit' = "running"
    BY <1>1, <2>1, <2>2, MessageInHand DEF Replying
  <2>7. LineInHand'
    BY <1>1, <2>1, <2>2, <2>3, <2>5, <2>6, MessageInHand, Basics DEF LineInHand
  <2>8. ReplyInHand'
    BY <2>6 DEF ReplyInHand
  <2>9. RunsBeforeHand'
    BY <1>1, <2>3, <2>5 DEF RunsBeforeHand
  <2>10. CASE Validate(message).kind = "request"
    <3>1. InHand' = InHand
      BY <1>1, <2>1, <2>2, <2>5, <2>10, MessageInHand DEF InHand
    <3> QED
      BY <1>1, <2>4, <2>7, <2>8, <2>9, <3>1, SameRuns, SameHand, Zenon DEF IndInv
  <2>11. CASE Validate(message).kind = "notification"
    <3>1. InHand' = 0
      BY <2>1, <2>2, <2>6, <2>11 DEF InHand
    <3>2. ~Owed(current)
      BY <1>1, <2>11, MessageInHand DEF Owed, Silent, message
    <3>3. ~IsAnswered(current)
      BY <1>1, <2>3, MessageInHand, Basics, AnswerLines DEF OutputSound, IsAnswered
    <3>4. AnsweredIffOwed'
      BY <1>1, <2>2, <2>3, <2>5, <3>2, <3>3, MessageInHand DEF AnsweredIffOwed
    <3>5. OutputSound'
      BY <1>1, <2>2, <2>3, <2>5, <3>1 DEF OutputSound, TailReported, Unread
    <3>6. FateSound' /\ AnswersInOrder' /\ AnswerMatchesRequest'
      BY <1>1, <2>2, <2>5, Zenon DEF IndInv, FateSound, AnswersInOrder, AnswerMatchesRequest
    <3> QED
      BY <1>1, <2>4, <2>7, <2>8, <2>9, <3>4, <3>5, <3>6, SameRuns, Zenon DEF IndInv
  <2> QED
    BY <2>1, <2>10, <2>11
<1> QED
  BY <1>2, <1>3

(* A request being handled is owed an answer that carries its id. *)
LEMMA RequestInHand ==
  ASSUME IndInv, pc = "handle"
  PROVE  Owed(current) /\ OwnId(current) = message.id /\ message.id \in Ids \cup {NullId}
<1>1. message \in ClientMessages /\ Validate(message).kind = "request" /\ fate[current] = "message"
  BY MessageInHand
<1>2. message.id \in Ids \cup {NullId} /\ message.json = "object"
  BY <1>1, ValidateRequest_Id
<1>3. OwnId(current) = message.id
  BY <1>2, IdInHand
<1>4. Owed(current)
  BY <1>1 DEF Owed, Silent, message
<1> QED
  BY <1>2, <1>3, <1>4

(* Any response for the line in hand is a reply as ReplyStep wants it. *)
LEMMA ResponseForHand ==
  ASSUME IndInv, pc = "handle", NEW kind \in Kinds, NEW isBig \in BOOLEAN,
         reply' = Response(current, message.id, kind, isBig)
  PROVE  reply' \in Replies /\ reply'.line = current /\ reply'.id = OwnId(current)
BY RequestInHand, Basics DEF Response, Replies

(* A request that reaches no tool gets its one response. *)
LEMMA HandleWithoutToolStep ==
  ASSUME IndInv, HandleWithoutTool PROVE IndInv'
<1>1. /\ pc = "handle" /\ pc' = "write"
      /\ UNCHANGED <<transportVars, msgs, ctxDone, out, executed, late, exit>>
  BY Zenon DEF HandleWithoutTool
<1>2. PICK isBig \in BOOLEAN :
        \/ /\ Dispatch(message) # Handled
           /\ reply' = Response(current, message.id, Dispatch(message), isBig)
        \/ \E kind \in {Result, InternalError} :
             reply' = Response(current, message.id, kind, isBig)
  BY Zenon DEF HandleWithoutTool
<1>3. PICK kind \in Kinds : reply' = Response(current, message.id, kind, isBig)
  <2>1. Dispatch(message) # Handled => Dispatch(message) \in Kinds
    BY DispatchCodes DEF Kinds
  <2>2. Result \in Kinds /\ InternalError \in Kinds
    BY DEF Kinds, Codes
  <2> QED
    BY <1>2, <2>1, <2>2, Zenon
<1>4. reply' \in Replies /\ reply'.line = current /\ reply'.id = OwnId(current)
  BY <1>1, <1>3, ResponseForHand
<1> QED
  BY <1>1, <1>4, SameRuns, RequestInHand, ReplyStep

(* A tool runs once for the line in hand, after all the tools before it. *)
LEMMA ExecuteToolStep ==
  ASSUME IndInv, ExecuteTool PROVE IndInv'
<1>1. /\ pc = "handle" /\ pc' = "write" /\ ReachesTool(message)
      /\ executed' = Append(executed, current)
      /\ UNCHANGED <<transportVars, msgs, ctxDone, out, late, exit>>
  BY Zenon DEF ExecuteTool
<1>2. reply' \in Replies /\ reply'.line = current /\ reply'.id = OwnId(current)
  <2>1. PICK kind \in {Result, ToolError, InternalError}, isBig \in BOOLEAN :
          reply' = Response(current, message.id, kind, isBig)
    BY Zenon DEF ExecuteTool
  <2>2. kind \in Kinds
    BY DEF Kinds, Codes
  <2> QED
    BY <1>1, <2>1, <2>2, ResponseForHand
<1>3. /\ executed' \in Seq(Nat)
      /\ \A i \in 1..Len(executed) : executed'[i] = executed[i]
      /\ \A i \in 1..Len(executed') : i \in 1..Len(executed) \/ executed'[i] = current
      /\ \A i, j \in 1..Len(executed') : i < j => i \in 1..Len(executed)
  <2>1. executed \in Seq(Nat) /\ current \in Nat
    BY Basics
  <2>2. executed' = Append(executed, current)
    BY <1>1
  <2> QED
    BY <2>1, <2>2, AppendFacts
<1>4. ToolsRunOnce /\ RunsBeforeHand
  BY Zenon DEF IndInv
<1>5. \A i \in 1..Len(executed) : executed[i] < current
  BY <1>1, <1>4, Zenon DEF RunsBeforeHand
<1>6. UNCHANGED <<fate, msgs>> /\ msgs[current] = message
  BY <1>1, Zenon DEF transportVars, message
<1>7. ToolsRunOnce'
  <2>1. ASSUME NEW i \in 1..Len(executed'), NEW j \in 1..Len(executed'), i < j
        PROVE  executed'[i] < executed'[j]
    <3>1. i \in 1..Len(executed)
      BY <1>3, <2>1, Zenon
    <3>2. CASE j \in 1..Len(executed)
      BY <1>3, <1>4, <2>1, <3>1, <3>2 DEF ToolsRunOnce
    <3>3. CASE executed'[j] = current
      BY <1>3, <1>5, <3>1, <3>3
    <3> QED
      BY <1>3, <3>2, <3>3
  <2>2. ASSUME NEW i \in 1..Len(executed')
        PROVE  /\ executed'[i] \in 1..Len(fate')
               /\ fate'[executed'[i]] = "message"
               /\ ReachesTool(msgs'[executed'[i]])
    <3>1. CASE i \in 1..Len(executed)
      BY <1>3, <1>4, <1>6, <3>1, Zenon DEF ToolsRunOnce
    <3>2. CASE executed'[i] = current
      BY <1>1, <1>6, <3>2, MessageInHand, Zenon
    <3> QED
      BY <1>3, <3>1, <3>2
  <2> QED
    BY <2>1, <2>2, Zenon DEF ToolsRunOnce
<1> QED
  BY <1>1, <1>2, <1>3, <1>7, RequestInHand, ReplyStep

-----------------------------------------------------------------------------
(* Writing the response. *)

(* The loop while a response is being written. *)
LEMMA WritingInHand ==
  ASSUME IndInv, pc = "write"
  PROVE  /\ discarding = FALSE /\ exit = "running" /\ Replying /\ InHand = reply.line
         /\ reply.line > 0 /\ reply.id = OwnId(reply.line)
         /\ \/ reply.line \in 1..current /\ Owed(reply.line)
            \/ reply.line \in 1..current /\ reply.line = current - 1 /\ fate[current] = "swallowed"
            \/ reply.line = Len(lens) + 1 /\ TailReported
<1>1. LineInHand /\ ReplyInHand /\ TypeOK
  BY Zenon DEF IndInv
<1>2. ~discarding /\ exit = "running"
  BY <1>1 DEF LineInHand
<1>3. discarding = FALSE
  BY <1>1, <1>2, Zenon DEF TypeOK, TransportTypeOK
<1>4. Replying /\ InHand = reply.line
  BY DEF Replying, InHand
<1>5. /\ \/ current > 0 /\ reply.line = current /\ Owed(current)
         \/ current > 1 /\ reply.line = current - 1 /\ fate[current] = "swallowed"
         \/ reply.line = Len(lens) + 1 /\ TailReported
      /\ reply.id = OwnId(reply.line)
  BY <1>1, <1>4, Zenon DEF ReplyInHand
<1> QED
  BY <1>2, <1>3, <1>4, <1>5, Basics

(* An oversized response is replaced for the same line and id. *)
LEMMA ReplaceOversizedStep ==
  ASSUME IndInv, ReplaceOversized PROVE IndInv'
<1>1. /\ pc = "write" /\ reply' = ErrorReply(reply.line, reply.id, InternalError)
      /\ UNCHANGED <<transportVars, msgs, ctxDone, pc, out, executed, late, exit>>
  BY Zenon DEF ReplaceOversized
<1>2. UNCHANGED <<lens, eof, tail, fate, discarding, atEOF>>
  BY <1>1, Zenon DEF transportVars
<1>3. TypeOK /\ LineInHand /\ ReplyInHand
  BY Zenon DEF IndInv
<1>4. reply' \in Replies /\ reply'.line = reply.line /\ reply'.id = reply.id
  BY <1>1, Basics DEF ErrorReply, Replies, Kinds, Codes
<1>5. TypeOK'
  BY <1>1, <1>2, <1>3, <1>4, Zenon DEF TypeOK, TransportTypeOK
<1>6. current' = current /\ message' = message /\ InHand' = InHand
      /\ (TailReported' <=> TailReported)
  BY <1>1, <1>2, <1>4, Zenon DEF current, message, InHand, TailReported, Unread
<1>7. \A k : (Owed(k)' <=> Owed(k)) /\ OwnId(k)' = OwnId(k)
  BY <1>1, <1>2, Zenon DEF Owed, OwnId
<1>8. LineInHand'
  BY <1>1, <1>2, <1>3, <1>6, Zenon DEF LineInHand
<1>9. ReplyInHand'
  BY <1>1, <1>2, <1>3, <1>4, <1>6, <1>7, Zenon DEF ReplyInHand, Replying
<1>10. RunsBeforeHand'
  BY <1>1 DEF RunsBeforeHand
<1> QED
  BY <1>1, <1>5, <1>6, <1>8, <1>9, <1>10, SameRuns, SameHand, Zenon DEF IndInv

(* A failing write ends Run with the line still in hand. *)
LEMMA WriteFailsStep ==
  ASSUME IndInv, WriteFails PROVE IndInv'
<1>1. /\ pc = "write" /\ pc' = "stopped" /\ exit' = "write error"
      /\ UNCHANGED <<transportVars, msgs, ctxDone, reply, out, executed, late>>
  BY Zenon DEF WriteFails
<1>2. UNCHANGED <<lens, eof, tail, fate, discarding, atEOF>>
  BY <1>1, Zenon DEF transportVars
<1>3. TypeOK /\ LineInHand /\ ReplyInHand
  BY Zenon DEF IndInv
<1>4. TypeOK'
  BY <1>1, <1>2, <1>3, Zenon DEF TypeOK, TransportTypeOK
<1>5. current' = current /\ InHand' = InHand /\ (TailReported' <=> TailReported)
  BY <1>1, <1>2, WritingInHand DEF current, InHand, TailReported, Unread
<1>6. \A k : (Owed(k)' <=> Owed(k)) /\ OwnId(k)' = OwnId(k)
  BY <1>1, <1>2, Zenon DEF Owed, OwnId
<1>7. LineInHand'
  BY <1>1, <1>2, WritingInHand, Basics DEF LineInHand
<1>8. ReplyInHand'
  BY <1>1, <1>2, <1>3, <1>5, <1>6, WritingInHand, Zenon DEF ReplyInHand
<1>9. RunsBeforeHand'
  BY <1>1 DEF RunsBeforeHand
<1> QED
  BY <1>1, <1>4, <1>5, <1>7, <1>8, <1>9, SameRuns, SameHand, Zenon DEF IndInv

(* A written response answers the line in hand, after all earlier ones,    *)
(* and leaves nothing in hand.                                             *)
LEMMA WriteReplyStep ==
  ASSUME IndInv, WriteReply PROVE IndInv'
<1>1. /\ pc = "write" /\ pc' = "top" /\ out' = Append(out, Wire(reply))
      /\ UNCHANGED <<transportVars, msgs, ctxDone, reply, executed, late, exit>>
  BY Zenon DEF WriteReply
<1>2. UNCHANGED <<lens, eof, tail, fate, discarding, atEOF>>
  BY <1>1, Zenon DEF transportVars
<1>3. /\ TypeOK /\ FateSound /\ LineInHand /\ OutputSound
      /\ AnswersInOrder /\ AnsweredIffOwed /\ AnswerMatchesRequest
  BY Zenon DEF IndInv
<1>4. Wire(reply) \in Answers /\ Wire(reply).line = reply.line /\ Wire(reply).id = reply.id
  BY Basics DEF Wire, Answers, Replies
<1>5. /\ out' \in Seq(Answers)
      /\ Len(out') \in 1..Len(out') /\ out'[Len(out')] = Wire(reply)
      /\ \A i \in 1..Len(out) : i \in 1..Len(out') /\ out'[i] = out[i]
      /\ \A i \in 1..Len(out') : i \in 1..Len(out) \/ out'[i] = Wire(reply)
      /\ \A i, j \in 1..Len(out') : i < j => i \in 1..Len(out)
  <2>1. out \in Seq(Answers)
    BY Basics
  <2>2. Wire(reply) \in Answers
    BY <1>4
  <2> QED
    BY <1>1, <2>1, <2>2, AppendFacts
<1>6. TypeOK'
  BY <1>1, <1>2, <1>3, <1>5, Zenon DEF TypeOK, TransportTypeOK
<1>7. current' = current /\ (TailReported' <=> TailReported)
  BY <1>2, Zenon DEF current, TailReported, Unread
<1>8. \A k : (Owed(k)' <=> Owed(k)) /\ OwnId(k)' = OwnId(k)
  BY <1>1, <1>2, Zenon DEF Owed, OwnId
<1>9. InHand' = 0 /\ ~Replying'
  BY <1>1, <1>2, WritingInHand DEF InHand, Replying
<1>10. \A i \in 1..Len(out) : out[i].line < reply.line
  BY <1>1, <1>3, WritingInHand, Zenon DEF OutputSound
<1>11. \/ reply.line <= current /\ Owed(reply.line)
       \/ reply.line = Len(lens) + 1 /\ TailReported
  <2>1. CASE reply.line = current - 1 /\ fate[current] = "swallowed" /\ reply.line \in 1..current
    <3>1. current \in 1..Len(fate) /\ reply.line <= current
      BY <2>1, Basics
    <3>2. fate[current - 1] = "rejected"
      BY <1>3, <2>1, <3>1, Zenon DEF FateSound
    <3> QED
      BY <2>1, <3>1, <3>2, Zenon DEF Owed
  <2>2. CASE reply.line \in 1..current /\ Owed(reply.line)
    BY <2>2, Basics
  <2> QED
    BY <1>1, <2>1, <2>2, WritingInHand, Zenon
<1>12. LineInHand'
  BY <1>1, <1>2, <1>7, WritingInHand, Basics DEF LineInHand
<1>13. ReplyInHand' /\ RunsBeforeHand'
  BY <1>1, <1>9 DEF ReplyInHand, RunsBeforeHand
<1>14. FateSound'
  BY <1>2, <1>3, Zenon DEF FateSound
<1>15. OutputSound'
  <2>1. ASSUME NEW i \in 1..Len(out')
        PROVE  /\ out'[i].line > 0
               /\ \/ out'[i].line <= current /\ Owed(out'[i].line)
                  \/ out'[i].line = Len(lens) + 1 /\ TailReported
    <3>1. CASE i \in 1..Len(out)
      BY <1>3, <1>5, <3>1, Zenon DEF OutputSound
    <3>2. CASE out'[i] = Wire(reply)
      BY <1>1, <1>4, <1>11, <3>2, WritingInHand, Zenon
    <3> QED
      BY <1>5, <3>1, <3>2
  <2>2. \A k : Owed(k) => Owed(k)'
    BY <1>8, Zenon
  <2>3. ~(InHand' > 0)
    BY <1>9
  <2> QED
    BY <1>2, <1>7, <2>1, <2>2, <2>3, Zenon DEF OutputSound
<1>16. AnswersInOrder'
  <2>1. ASSUME NEW i \in 1..Len(out'), NEW j \in 1..Len(out'), i < j
        PROVE  out'[i].line < out'[j].line
    <3>1. i \in 1..Len(out)
      BY <1>5, <2>1, Zenon
    <3>2. CASE j \in 1..Len(out)
      BY <1>3, <1>5, <2>1, <3>1, <3>2, Zenon DEF AnswersInOrder
    <3>3. CASE out'[j] = Wire(reply)
      BY <1>4, <1>5, <1>10, <3>1, <3>3, Zenon
    <3> QED
      BY <1>5, <3>2, <3>3
  <2> QED
    BY <2>1, Zenon DEF AnswersInOrder
<1>17. AnsweredIffOwed'
  <2>1. \A k : IsAnswered(k)' <=> IsAnswered(k) \/ k = reply.line
    <3>1. ASSUME NEW k, IsAnswered(k) PROVE IsAnswered(k)'
      BY <1>5, <3>1, Zenon DEF IsAnswered
    <3>2. ASSUME NEW k, k = Wire(reply).line PROVE IsAnswered(k)'
      BY <1>5, <3>2, Zenon DEF IsAnswered
    <3>3. ASSUME NEW k, IsAnswered(k)' PROVE IsAnswered(k) \/ k = Wire(reply).line
      BY <1>5, <3>3, Zenon DEF IsAnswered
    <3> QED
      BY <1>4, <3>1, <3>2, <3>3, Zenon
  <2>2. ASSUME NEW k \in 1..Len(fate) PROVE IsAnswered(k)' <=> Owed(k)'
    <3>1. CASE k = reply.line
      <4>1. Owed(k)
        BY <1>11, <2>2, <3>1, Basics
      <4> QED
        BY <1>8, <2>1, <3>1, <4>1, Zenon
    <3>2. CASE k # reply.line
      <4>1. IsAnswered(k) <=> Owed(k)
        BY <1>1, <1>3, <2>2, <3>2, WritingInHand, Zenon DEF AnsweredIffOwed
      <4> QED
        BY <1>8, <2>1, <3>2, <4>1, Zenon
    <3> QED
      BY <3>1, <3>2
  <2> QED
    BY <1>2, <2>2, Zenon DEF AnsweredIffOwed
<1>18. AnswerMatchesRequest'
  <2>1. ASSUME NEW i \in 1..Len(out') PROVE out'[i].id = OwnId(out'[i].line)
    <3>1. CASE i \in 1..Len(out)
      BY <1>3, <1>5, <3>1, Zenon DEF AnswerMatchesRequest
    <3>2. CASE out'[i] = Wire(reply)
      BY <1>1, <1>4, <3>2, WritingInHand, Zenon
    <3> QED
      BY <1>5, <3>1, <3>2
  <2> QED
    BY <1>8, <2>1, Zenon DEF AnswerMatchesRequest
<1> QED
  BY <1>1, <1>6, <1>12, <1>13, <1>14, <1>15, <1>16, <1>17, <1>18, SameRuns, Zenon DEF IndInv

-----------------------------------------------------------------------------
(* Reading. *)

(* While Run reads, only a line being discarded is in hand. *)
LEMMA ReadingInHand ==
  ASSUME IndInv, pc = "read"
  PROVE  /\ exit = "running" /\ ~Replying
         /\ InHand = IF discarding THEN current ELSE 0
         /\ discarding => /\ current \in 1..Len(fate) /\ current > 0
                          /\ fate[current] = "rejected" /\ EndsOnLimit(lens[current])
<1>1. LineInHand
  BY Zenon DEF IndInv
<1>2. exit = "running"
  BY <1>1 DEF LineInHand
<1>3. ~Replying
  BY <1>2 DEF Replying
<1>4. InHand = IF discarding THEN current ELSE 0
  BY <1>2 DEF InHand
<1>5. discarding => current > 0 /\ fate[current] = "rejected" /\ EndsOnLimit(lens[current])
  BY <1>1, Zenon DEF LineInHand
<1>6. current > 0 => current \in 1..Len(fate)
  BY Basics
<1> QED
  BY <1>2, <1>3, <1>4, <1>5, <1>6

(* Consuming a line leaves what is known of the earlier ones as it was. *)
LEMMA TakeLine ==
  ASSUME IndInv, pc = "read", Unread, NEW f \in Fates, fate' = Append(fate, f),
         UNCHANGED <<lens, msgs, out, executed>>
  PROVE  /\ current' = current + 1 /\ current' \in 1..Len(fate') /\ current' > 0
         /\ current' <= Len(lens') /\ fate'[current'] = f
         /\ \A k \in 1..Len(fate) : (Owed(k)' <=> Owed(k)) /\ fate'[k] = fate[k]
         /\ \A k \in 1..Len(fate') : k \in 1..Len(fate) \/ k = current'
         /\ \A k : OwnId(k)' = OwnId(k) /\ (IsAnswered(k)' <=> IsAnswered(k))
         /\ \A i \in 1..Len(out) : out[i].line \in 1..Len(fate) /\ Owed(out[i].line)
         /\ ~IsAnswered(current')
         /\ AnswersInOrder' /\ AnswerMatchesRequest' /\ ToolsRunOnce'
<1>1. AnswersInOrder /\ AnswerMatchesRequest /\ ToolsRunOnce /\ OutputSound
  BY Zenon DEF IndInv
<1>2. /\ fate' \in Seq(Fates) /\ Len(fate') = Len(fate) + 1 /\ fate'[Len(fate')] = f
      /\ \A k \in 1..Len(fate) : k \in 1..Len(fate') /\ fate'[k] = fate[k]
      /\ \A k \in 1..Len(fate') : k \in 1..Len(fate) \/ k = Len(fate')
  <2>1. fate \in Seq(Fates)
    BY Basics
  <2> QED
    BY <2>1
<1>3. current' = current + 1 /\ current' = Len(fate') /\ current \in Nat /\ current = Len(fate)
  BY <1>2, Basics DEF current
<1>4. current' \in 1..Len(fate') /\ current' > 0 /\ current' <= Len(lens')
  BY <1>3, Basics DEF Unread
<1>5. \A k \in 1..Len(fate) : Owed(k)' <=> Owed(k)
  BY <1>2, Zenon DEF Owed
<1>6. \A k : OwnId(k)' = OwnId(k) /\ (IsAnswered(k)' <=> IsAnswered(k))
  BY Zenon DEF OwnId, IsAnswered
<1>7. \A i \in 1..Len(out) : out[i].line \in 1..Len(fate) /\ Owed(out[i].line)
  <2>1. ~TailReported
    BY Zenon DEF TailReported
  <2>2. \A i \in 1..Len(out) : out[i].line <= current /\ Owed(out[i].line)
    BY <1>1, <2>1, Zenon DEF OutputSound
  <2> QED
    BY <1>3, <2>2, AnswerLines
<1>8. ~IsAnswered(current')
  BY <1>3, <1>7 DEF IsAnswered
<1>9. AnswersInOrder' /\ AnswerMatchesRequest'
  BY <1>1, <1>6, Zenon DEF AnswersInOrder, AnswerMatchesRequest
<1>10. ToolsRunOnce'
  BY <1>1, <1>2, Zenon DEF ToolsRunOnce
<1> QED
  BY <1>2, <1>3, <1>4, <1>5, <1>6, <1>7, <1>8, <1>9, <1>10

(* A line returned is the one in hand from here on. *)
LEMMA ReadRequestStep ==
  ASSUME IndInv, ReadRequest PROVE IndInv'
<1>1. /\ pc = "read" /\ pc' = "validate" /\ ReadLine /\ CountLate
      /\ UNCHANGED <<msgs, ctxDone, reply, out, executed, exit>>
  BY Zenon DEF ReadRequest
<1>2. /\ ~discarding /\ Unread /\ Fits(NextLength) /\ fate' = Append(fate, "message")
      /\ UNCHANGED <<lens, eof, tail, discarding, atEOF>>
  BY <1>1, Zenon DEF ReadLine
<1>3. TypeOK /\ LineInHand /\ FateSound /\ AnsweredIffOwed /\ ToolsRunOnce
  BY Zenon DEF IndInv
<1>4. late' \in Nat
  <2>1. late \in Nat
    BY Basics
  <2> QED
    BY <1>1, <2>1 DEF CountLate
<1>5. TypeOK'
  <2>1. TransportTypeOK'
    BY <1>1, Basics, ReaderTypes, Zenon
  <2> QED
    BY <1>1, <1>3, <1>4, <2>1, Zenon DEF TypeOK
<1>6. "message" \in Fates
  BY DEF Fates
<1>7. /\ current' = current + 1 /\ current' \in 1..Len(fate') /\ current' > 0
      /\ current' <= Len(lens') /\ fate'[current'] = "message"
      /\ \A k \in 1..Len(fate) : (Owed(k)' <=> Owed(k)) /\ fate'[k] = fate[k]
      /\ \A k \in 1..Len(fate') : k \in 1..Len(fate) \/ k = current'
      /\ \A k : OwnId(k)' = OwnId(k) /\ (IsAnswered(k)' <=> IsAnswered(k))
      /\ \A i \in 1..Len(out) : out[i].line \in 1..Len(fate) /\ Owed(out[i].line)
      /\ AnswersInOrder' /\ AnswerMatchesRequest' /\ ToolsRunOnce'
  BY <1>1, <1>2, <1>6, TakeLine, Zenon
<1>8. InHand = 0 /\ InHand' = current' /\ exit' = "running" /\ ~Replying'
  BY <1>1, <1>2, ReadingInHand DEF InHand, Replying
<1>9. FateSound'
  <2>1. current' = Len(fate) + 1 /\ lens'[current'] = NextLength
    BY <1>2, <1>7, Basics DEF NextLength
  <2>2. ASSUME NEW k \in 1..Len(fate')
        PROVE  /\ k <= Len(lens')
               /\ fate'[k] = "message" => Fits(lens'[k])
               /\ fate'[k] = "rejected" => ~Fits(lens'[k])
               /\ fate'[k] = "swallowed" =>
                    k > 1 /\ fate'[k-1] = "rejected" /\ EndsOnLimit(lens'[k-1])
    <3>1. CASE k = current'
      BY <1>2, <1>7, <2>1, <3>1
    <3>2. CASE k \in 1..Len(fate)
      <4>1. k > 1 => fate'[k-1] = fate[k-1]
        BY <1>7, <3>2, Basics
      <4> QED
        BY <1>2, <1>3, <1>7, <3>2, <4>1, Zenon DEF FateSound
    <3> QED
      BY <1>7, <3>1, <3>2
  <2> QED
    BY <2>2, Zenon DEF FateSound
<1>10. LineInHand'
  BY <1>1, <1>2, <1>7, <1>8, Basics DEF LineInHand
<1>11. ReplyInHand'
  BY <1>8 DEF ReplyInHand
<1>12. OutputSound'
  BY <1>1, <1>7, <1>8, Basics, AnswerLines DEF OutputSound
<1>13. RunsBeforeHand'
  <2>1. \A i \in 1..Len(executed) : executed[i] < current'
    BY <1>3, <1>7, Basics DEF ToolsRunOnce
  <2> QED
    BY <1>1, <2>1, Zenon DEF RunsBeforeHand
<1>14. AnsweredIffOwed'
  <2>1. \A k \in 1..Len(fate) : IsAnswered(k) <=> Owed(k)
    BY <1>3, <1>8, Basics DEF AnsweredIffOwed
  <2> QED
    BY <1>7, <1>8, <2>1, Zenon DEF AnsweredIffOwed
<1> QED
  BY <1>5, <1>7, <1>9, <1>10, <1>11, <1>12, <1>13, <1>14, Zenon DEF IndInv

(* The reply of RejectTooLarge is well typed. *)
LEMMA RejectTypes ==
  ASSUME IndInv, NEW k \in Nat, RejectTooLarge(k), TransportTypeOK'
  PROVE  TypeOK' /\ reply'.line = k /\ reply'.id = NullId
<1>1. /\ pc' = "write" /\ reply' = ErrorReply(k, NullId, InvalidRequest) /\ CountLate
      /\ UNCHANGED <<msgs, ctxDone, out, executed, exit>>
  BY Zenon DEF RejectTooLarge
<1>2. late' \in Nat
  <2>1. late \in Nat
    BY Basics
  <2> QED
    BY <1>1, <2>1 DEF CountLate
<1>3. reply' \in Replies /\ reply'.line = k /\ reply'.id = NullId
  BY <1>1 DEF ErrorReply, Replies, Kinds, Codes
<1>4. TypeOK
  BY Zenon DEF IndInv
<1> QED
  BY <1>1, <1>2, <1>3, <1>4, Zenon DEF TypeOK

(* A refused line whose newline was consumed is answered, one whose        *)
(* newline was the byte too many stays in hand while the next is lost.     *)
LEMMA ReadOverlongStep ==
  ASSUME IndInv, pc = "read", ReadOverlong,
         \/ discarding' /\ StayInRead
         \/ ~discarding' /\ RejectTooLarge(current + 1)
  PROVE  IndInv'
<1>1. /\ ~discarding /\ Unread /\ ~Fits(NextLength) /\ fate' = Append(fate, "rejected")
      /\ discarding' = EndsOnLimit(NextLength)
      /\ UNCHANGED <<lens, eof, tail, atEOF>>
  BY Zenon DEF ReadOverlong
<1>2. UNCHANGED <<msgs, ctxDone, out, executed, exit>>
  BY Zenon DEF StayInRead, RejectTooLarge, loopVars
<1>3. TypeOK /\ LineInHand /\ FateSound /\ AnsweredIffOwed
  BY Zenon DEF IndInv
<1>4. TransportTypeOK'
  BY Basics, ReaderTypes, Zenon
<1>5. /\ current' = current + 1 /\ current' \in 1..Len(fate') /\ current' > 0
      /\ current' <= Len(lens') /\ fate'[current'] = "rejected"
      /\ \A k \in 1..Len(fate) : (Owed(k)' <=> Owed(k)) /\ fate'[k] = fate[k]
      /\ \A k \in 1..Len(fate') : k \in 1..Len(fate) \/ k = current'
      /\ \A k : OwnId(k)' = OwnId(k) /\ (IsAnswered(k)' <=> IsAnswered(k))
      /\ \A i \in 1..Len(out) : out[i].line \in 1..Len(fate) /\ Owed(out[i].line)
      /\ AnswersInOrder' /\ AnswerMatchesRequest' /\ ToolsRunOnce'
  <2>1. "rejected" \in Fates
    BY DEF Fates
  <2> QED
    BY <1>1, <1>2, <2>1, TakeLine, Zenon
<1>6. current' = Len(fate) + 1 /\ lens'[current'] = NextLength /\ current + 1 \in Nat
  BY <1>1, <1>5, Basics DEF NextLength
<1>7. FateSound'
  <2>2. ASSUME NEW k \in 1..Len(fate')
        PROVE  /\ k <= Len(lens')
               /\ fate'[k] = "message" => Fits(lens'[k])
               /\ fate'[k] = "rejected" => ~Fits(lens'[k])
               /\ fate'[k] = "swallowed" =>
                    k > 1 /\ fate'[k-1] = "rejected" /\ EndsOnLimit(lens'[k-1])
    <3>1. CASE k = current'
      BY <1>1, <1>5, <1>6, <3>1
    <3>2. CASE k \in 1..Len(fate)
      <4>1. k > 1 => fate'[k-1] = fate[k-1]
        BY <1>5, <3>2, Basics
      <4> QED
        BY <1>1, <1>3, <1>5, <3>2, <4>1, Zenon DEF FateSound
    <3> QED
      BY <1>5, <3>1, <3>2
  <2> QED
    BY <2>2, Zenon DEF FateSound
<1>8. InHand = 0 /\ exit = "running" /\ ~Replying
  BY <1>1, ReadingInHand
<1>9. \A k \in 1..Len(fate) : IsAnswered(k) <=> Owed(k)
  BY <1>3, <1>8, Basics DEF AnsweredIffOwed
<1>10. \/ discarding' /\ pc' = "read" /\ TypeOK' /\ InHand' = current' /\ ReplyInHand'
       \/ ~discarding' /\ pc' = "write" /\ TypeOK' /\ InHand' = current' /\ ReplyInHand'
  <2>1. CASE discarding' /\ StayInRead
    <3>1. pc' = "read" /\ UNCHANGED <<reply, late, exit>>
      BY <2>1, Zenon DEF StayInRead, loopVars
    <3>2. TypeOK'
      BY <1>2, <1>3, <1>4, <3>1, Zenon DEF TypeOK
    <3>3. InHand' = current' /\ ~Replying'
      BY <1>8, <2>1, <3>1 DEF InHand, Replying
    <3> QED
      BY <2>1, <3>1, <3>2, <3>3, Zenon DEF ReplyInHand
  <2>2. CASE ~discarding' /\ RejectTooLarge(current + 1)
    <3>1. pc' = "write" /\ TypeOK' /\ reply'.line = current' /\ reply'.id = NullId
      BY <1>4, <1>5, <1>6, <2>2, RejectTypes DEF RejectTooLarge
    <3>2. InHand' = current' /\ Replying'
      BY <3>1 DEF InHand, Replying
    <3>3. Owed(current)'
      BY <1>5, Zenon DEF Owed
    <3>4. OwnId(reply.line)' = NullId
      BY <1>1, <1>6, <3>1, Zenon DEF OwnId
    <3>5. ReplyInHand'
      BY <1>5, <3>1, <3>2, <3>3, <3>4, Zenon DEF ReplyInHand
    <3> QED
      BY <2>2, <3>1, <3>2, <3>5, Zenon
  <2> QED
    BY <2>1, <2>2
<1>11. LineInHand'
  <2>1. discarding' => pc' = "read" /\ EndsOnLimit(lens'[current'])
    BY <1>1, <1>6, <1>10, Zenon
  <2>2. pc' \in {"read", "write"}
    BY <1>10
  <2>3. pc' # "stopped" /\ pc' \notin {"validate", "handle"} /\ exit' = "running"
    BY <1>2, <1>8, <2>2
  <2>4. Len(msgs') = Len(lens') /\ Len(lens') <= MaxLines /\ Len(fate') <= Len(lens')
    BY <1>1, <1>2, <1>5, Basics DEF current
  <2> QED
    BY <1>5, <2>1, <2>3, <2>4, Zenon DEF LineInHand
<1>12. OutputSound'
  <2>1. \A i \in 1..Len(out) : /\ out[i].line > 0 /\ out[i].line <= current'
                               /\ out[i].line < current' /\ Owed(out[i].line)
    BY <1>5, Basics, AnswerLines
  <2>2. \A i \in 1..Len(out) : Owed(out[i].line)'
    BY <1>2, <1>5, <2>1, Zenon
  <2> QED
    BY <1>2, <1>10, <2>1, <2>2, Zenon DEF OutputSound
<1>13. RunsBeforeHand'
  BY <1>10 DEF RunsBeforeHand
<1>14. AnsweredIffOwed'
  BY <1>5, <1>9, <1>10, Zenon DEF AnsweredIffOwed
<1> QED
  BY <1>5, <1>7, <1>10, <1>11, <1>12, <1>13, <1>14, Zenon DEF IndInv

(* The line lost to discardLine is dealt with in the answer to the line    *)
(* refused before it.                                                      *)
LEMMA DiscardNextStep ==
  ASSUME IndInv, pc = "read", DiscardNext, RejectTooLarge(current) PROVE IndInv'
<1>1. /\ discarding /\ Unread /\ fate' = Append(fate, "swallowed") /\ discarding' = FALSE
      /\ UNCHANGED <<lens, eof, tail, atEOF>>
  BY Zenon DEF DiscardNext
<1>2. pc' = "write" /\ UNCHANGED <<msgs, ctxDone, out, executed, exit>>
  BY Zenon DEF RejectTooLarge
<1>3. TypeOK /\ LineInHand /\ FateSound /\ AnsweredIffOwed /\ OutputSound
  BY Zenon DEF IndInv
<1>4. TypeOK' /\ reply'.line = current /\ reply'.id = NullId
  <2>1. TransportTypeOK'
    BY Basics, ReaderTypes, Zenon
  <2> QED
    BY <2>1, Basics, RejectTypes
<1>5. /\ current' = current + 1 /\ current' \in 1..Len(fate') /\ current' > 0
      /\ current' <= Len(lens') /\ fate'[current'] = "swallowed"
      /\ \A k \in 1..Len(fate) : (Owed(k)' <=> Owed(k)) /\ fate'[k] = fate[k]
      /\ \A k \in 1..Len(fate') : k \in 1..Len(fate) \/ k = current'
      /\ \A k : OwnId(k)' = OwnId(k) /\ (IsAnswered(k)' <=> IsAnswered(k))
      /\ \A i \in 1..Len(out) : out[i].line \in 1..Len(fate) /\ Owed(out[i].line)
      /\ ~IsAnswered(current')
      /\ AnswersInOrder' /\ AnswerMatchesRequest' /\ ToolsRunOnce'
  <2>1. "swallowed" \in Fates
    BY DEF Fates
  <2> QED
    BY <1>1, <1>2, <2>1, TakeLine, Zenon
<1>6. /\ current \in 1..Len(fate) /\ current > 0 /\ InHand = current /\ exit = "running"
      /\ fate[current] = "rejected" /\ EndsOnLimit(lens[current])
  BY <1>1, ReadingInHand
<1>7. InHand' = current /\ Replying' /\ exit' = "running"
  BY <1>2, <1>4, <1>6 DEF InHand, Replying
<1>8. FateSound'
  <2>2. ASSUME NEW k \in 1..Len(fate')
        PROVE  /\ k <= Len(lens')
               /\ fate'[k] = "message" => Fits(lens'[k])
               /\ fate'[k] = "rejected" => ~Fits(lens'[k])
               /\ fate'[k] = "swallowed" =>
                    k > 1 /\ fate'[k-1] = "rejected" /\ EndsOnLimit(lens'[k-1])
    <3>1. CASE k = current'
      <4>1. k - 1 = current /\ k > 1
        BY <1>5, <1>6, <3>1, Basics
      <4> QED
        BY <1>1, <1>5, <1>6, <3>1, <4>1
    <3>2. CASE k \in 1..Len(fate)
      <4>1. k > 1 => fate'[k-1] = fate[k-1]
        BY <1>5, <3>2, Basics
      <4> QED
        BY <1>1, <1>3, <1>5, <3>2, <4>1, Zenon DEF FateSound
    <3> QED
      BY <1>5, <3>1, <3>2
  <2> QED
    BY <2>2, Zenon DEF FateSound
<1>9. LineInHand'
  BY <1>1, <1>2, <1>5, <1>7, Basics DEF LineInHand
<1>10. ReplyInHand'
  <2>1. current' > 1 /\ current = current' - 1
    BY <1>5, <1>6, Basics
  <2>2. ~Fits(lens[current])
    BY <1>3, <1>6, Zenon DEF FateSound
  <2>3. OwnId(reply.line)' = NullId
    BY <1>1, <1>4, <2>2, Zenon DEF OwnId
  <2> QED
    BY <1>4, <1>5, <1>7, <2>1, <2>3, Zenon DEF ReplyInHand
<1>11. OutputSound'
  <2>1. \A i \in 1..Len(out) : out[i].line > 0 /\ out[i].line <= current' /\ out[i].line < current
    BY <1>3, <1>5, <1>6, Basics, AnswerLines DEF OutputSound
  <2>2. \A i \in 1..Len(out) : Owed(out[i].line)'
    BY <1>2, <1>5, <2>1, Zenon
  <2> QED
    BY <1>2, <1>7, <2>1, <2>2, Zenon DEF OutputSound
<1>12. RunsBeforeHand'
  BY <1>2 DEF RunsBeforeHand
<1>13. AnsweredIffOwed'
  <2>2. ASSUME NEW k \in 1..Len(fate'), k # current PROVE IsAnswered(k)' <=> Owed(k)'
    <3>1. CASE k = current'
      <4>1. ~IsAnswered(k)'
        BY <1>5, <3>1, Zenon
      <4>2. ~Owed(k)'
        BY <1>5, <3>1 DEF Owed
      <4> QED
        BY <4>1, <4>2
    <3>2. CASE k \in 1..Len(fate)
      BY <1>3, <1>5, <1>6, <2>2, <3>2, Zenon DEF AnsweredIffOwed
    <3> QED
      BY <1>5, <3>1, <3>2
  <2> QED
    BY <1>7, <2>2, Zenon DEF AnsweredIffOwed
<1> QED
  BY <1>4, <1>5, <1>8, <1>9, <1>10, <1>11, <1>12, <1>13, Zenon DEF IndInv

(* At the end of the stream only what is left after the last newline is    *)
(* consumed: the lines and their answers stay related.                     *)
LEMMA TakeTail ==
  ASSUME IndInv, pc = "read", ~Unread, eof, tail' = 0,
         UNCHANGED <<lens, eof, fate, msgs, out, executed>>
  PROVE  /\ FateSound' /\ AnswersInOrder' /\ AnswerMatchesRequest' /\ ToolsRunOnce'
         /\ current' = current /\ TailReported'
         /\ \A k : (Owed(k)' <=> Owed(k)) /\ OwnId(k)' = OwnId(k) /\ (IsAnswered(k)' <=> IsAnswered(k))
         /\ \A i \in 1..Len(out) : /\ out[i].line > 0
                                   /\ \/ out[i].line <= current /\ Owed(out[i].line)
                                      \/ out[i].line = Len(lens) + 1
<1>1. FateSound /\ AnswersInOrder /\ AnswerMatchesRequest /\ ToolsRunOnce /\ OutputSound
  BY Zenon DEF IndInv
<1>2. \A k : (Owed(k)' <=> Owed(k)) /\ OwnId(k)' = OwnId(k) /\ (IsAnswered(k)' <=> IsAnswered(k))
  BY Zenon DEF Owed, OwnId, IsAnswered
<1>3. FateSound' /\ AnswersInOrder' /\ ToolsRunOnce'
  BY <1>1, Zenon DEF FateSound, AnswersInOrder, ToolsRunOnce
<1>4. AnswerMatchesRequest'
  BY <1>1, <1>2, Zenon DEF AnswerMatchesRequest
<1>5. current' = current /\ TailReported'
  BY Zenon DEF current, TailReported, Unread
<1> QED
  BY <1>1, <1>2, <1>3, <1>4, <1>5, Zenon DEF OutputSound

(* The refusal waiting for the end of the stream is answered there. *)
LEMMA DiscardToEOFStep ==
  ASSUME IndInv, pc = "read", DiscardToEOF, RejectTooLarge(current) PROVE IndInv'
<1>1. /\ discarding /\ ~Unread /\ eof /\ discarding' = FALSE /\ tail' = 0
      /\ UNCHANGED <<lens, eof, fate, atEOF>>
  BY Zenon DEF DiscardToEOF
<1>2. pc' = "write" /\ UNCHANGED <<msgs, ctxDone, out, executed, exit>>
  BY Zenon DEF RejectTooLarge
<1>3. FateSound /\ LineInHand /\ AnsweredIffOwed /\ OutputSound
  BY Zenon DEF IndInv
<1>4. TypeOK' /\ reply'.line = current /\ reply'.id = NullId
  <2>1. TransportTypeOK'
    BY Basics, ReaderTypes, Zenon
  <2> QED
    BY <2>1, Basics, RejectTypes
<1>5. /\ current \in 1..Len(fate) /\ current > 0 /\ InHand = current /\ exit = "running"
      /\ fate[current] = "rejected" /\ EndsOnLimit(lens[current])
  BY <1>1, ReadingInHand
<1>6. /\ FateSound' /\ AnswersInOrder' /\ AnswerMatchesRequest' /\ ToolsRunOnce'
      /\ current' = current /\ TailReported'
      /\ \A k : (Owed(k)' <=> Owed(k)) /\ OwnId(k)' = OwnId(k) /\ (IsAnswered(k)' <=> IsAnswered(k))
      /\ \A i \in 1..Len(out) : /\ out[i].line > 0
                                /\ \/ out[i].line <= current /\ Owed(out[i].line)
                                   \/ out[i].line = Len(lens) + 1
  BY <1>1, <1>2, TakeTail, Zenon
<1>7. InHand' = current /\ Replying' /\ exit' = "running"
  BY <1>2, <1>4, <1>5 DEF InHand, Replying
<1>8. LineInHand'
  BY <1>1, <1>2, <1>6, <1>7, Basics DEF LineInHand
<1>9. ReplyInHand'
  <2>1. ~Fits(lens[current])
    BY <1>3, <1>5, Zenon DEF FateSound
  <2>2. OwnId(reply.line)' = NullId
    BY <1>1, <1>4, <2>1, Zenon DEF OwnId
  <2>3. Owed(current)'
    BY <1>1, <1>5, <1>6, Zenon DEF Owed
  <2> QED
    BY <1>4, <1>5, <1>6, <1>7, <2>2, <2>3, Zenon DEF ReplyInHand
<1>10. OutputSound'
  BY <1>1, <1>2, <1>3, <1>5, <1>6, <1>7, Zenon DEF OutputSound
<1>11. RunsBeforeHand'
  BY <1>2 DEF RunsBeforeHand
<1>12. AnsweredIffOwed'
  BY <1>1, <1>3, <1>5, <1>6, <1>7, Zenon DEF AnsweredIffOwed
<1> QED
  BY <1>4, <1>6, <1>8, <1>9, <1>10, <1>11, <1>12, Zenon DEF IndInv

(* An overlong end of the stream is answered once, after every line. *)
LEMMA ReadOverlongTailStep ==
  ASSUME IndInv, pc = "read", ReadOverlongTail, RejectTooLarge(Len(lens) + 1) PROVE IndInv'
<1>1. /\ ~discarding /\ ~Unread /\ eof /\ ~Fits(tail) /\ tail' = 0
      /\ UNCHANGED <<lens, eof, fate, discarding, atEOF>>
  BY Zenon DEF ReadOverlongTail
<1>2. pc' = "write" /\ UNCHANGED <<msgs, ctxDone, out, executed, exit>>
  BY Zenon DEF RejectTooLarge
<1>3. LineInHand /\ AnsweredIffOwed /\ OutputSound
  BY Zenon DEF IndInv
<1>4. TypeOK' /\ reply'.line = Len(lens) + 1 /\ reply'.id = NullId
  <2>1. TransportTypeOK'
    BY Basics, ReaderTypes, Zenon
  <2>2. Len(lens) + 1 \in Nat
    BY Basics
  <2> QED
    BY <2>1, <2>2, RejectTypes
<1>5. InHand = 0 /\ exit = "running"
  BY <1>1, ReadingInHand
<1>6. /\ FateSound' /\ AnswersInOrder' /\ AnswerMatchesRequest' /\ ToolsRunOnce'
      /\ current' = current /\ TailReported'
      /\ \A k : (Owed(k)' <=> Owed(k)) /\ OwnId(k)' = OwnId(k) /\ (IsAnswered(k)' <=> IsAnswered(k))
  BY <1>1, <1>2, TakeTail, Zenon
<1>7. InHand' = Len(lens) + 1 /\ Replying' /\ exit' = "running"
  BY <1>2, <1>4, <1>5 DEF InHand, Replying
<1>8. LineInHand'
  BY <1>1, <1>2, <1>6, <1>7, Basics DEF LineInHand
<1>9. ReplyInHand'
  <2>1. OwnId(Len(lens) + 1) = NullId
    BY Basics DEF OwnId
  <2>2. OwnId(reply.line)' = NullId
    BY <1>4, <1>6, <2>1, Zenon
  <2> QED
    BY <1>1, <1>4, <1>6, <1>7, <2>2, Zenon DEF ReplyInHand
<1>10. OutputSound'
  <2>1. tail # 0
    BY <1>1, TransportAssumption DEF Fits
  <2>2. \A i \in 1..Len(out) : out[i].line \in 1..current /\ Owed(out[i].line)
    BY <1>3, <2>1, Basics, AnswerLines DEF OutputSound, TailReported
  <2>3. \A i \in 1..Len(out) : out[i].line > 0 /\ out[i].line <= current /\ out[i].line < Len(lens) + 1
    BY <2>2, Basics
  <2>4. \A i \in 1..Len(out) : Owed(out[i].line)'
    BY <1>2, <1>6, <2>2, Zenon
  <2> QED
    BY <1>2, <1>6, <1>7, <2>3, <2>4, Zenon DEF OutputSound
<1>11. RunsBeforeHand'
  BY <1>2 DEF RunsBeforeHand
<1>12. AnsweredIffOwed'
  <2>1. \A k \in 1..Len(fate) : IsAnswered(k) <=> Owed(k)
    BY <1>3, <1>5, Basics DEF AnsweredIffOwed
  <2> QED
    BY <1>1, <1>6, <2>1, Zenon DEF AnsweredIffOwed
<1> QED
  BY <1>4, <1>6, <1>8, <1>9, <1>10, <1>11, <1>12, Zenon DEF IndInv

(* The end of the stream ends Run with nothing in hand. *)
LEMMA ReadEndStep ==
  ASSUME IndInv, ReadEnd PROVE IndInv'
<1>1. /\ pc = "read" /\ pc' = "stopped" /\ exit' = "nil" /\ ReadEOF
      /\ UNCHANGED <<msgs, ctxDone, reply, out, executed, late>>
  BY Zenon DEF ReadEnd
<1>2. /\ ~discarding /\ ~Unread /\ eof /\ tail' = 0
      /\ UNCHANGED <<lens, eof, fate, discarding>>
  BY <1>1, Zenon DEF ReadEOF
<1>3. TypeOK /\ LineInHand /\ AnsweredIffOwed
  BY Zenon DEF IndInv
<1>4. TypeOK'
  <2>1. TransportTypeOK'
    BY <1>1, Basics, ReaderTypes, Zenon
  <2> QED
    BY <1>1, <1>3, <2>1, Zenon DEF TypeOK
<1>5. InHand = 0 /\ InHand' = 0 /\ ~Replying'
  BY <1>1, <1>2, ReadingInHand DEF InHand, Replying
<1>6. /\ FateSound' /\ AnswersInOrder' /\ AnswerMatchesRequest' /\ ToolsRunOnce'
      /\ current' = current /\ TailReported'
      /\ \A k : (Owed(k)' <=> Owed(k)) /\ OwnId(k)' = OwnId(k) /\ (IsAnswered(k)' <=> IsAnswered(k))
      /\ \A i \in 1..Len(out) : /\ out[i].line > 0
                                /\ \/ out[i].line <= current /\ Owed(out[i].line)
                                   \/ out[i].line = Len(lens) + 1
  BY <1>1, <1>2, TakeTail, Zenon
<1>7. LineInHand'
  BY <1>1, <1>2, <1>3, <1>6, Basics DEF LineInHand
<1>8. ReplyInHand' /\ RunsBeforeHand'
  BY <1>1, <1>5 DEF ReplyInHand, RunsBeforeHand
<1>9. OutputSound'
  <2>1. ~(InHand' > 0)
    BY <1>5
  <2> QED
    BY <1>1, <1>2, <1>6, <2>1, Zenon DEF OutputSound
<1>10. AnsweredIffOwed'
  BY <1>1, <1>2, <1>3, <1>5, <1>6, Zenon DEF AnsweredIffOwed
<1> QED
  BY <1>4, <1>6, <1>7, <1>8, <1>9, <1>10, Zenon DEF IndInv

(* A failing stream ends Run with nothing in hand. *)
LEMMA ReadFailsStep ==
  ASSUME IndInv, ReadFails PROVE IndInv'
<1>1. /\ pc = "read" /\ pc' = "stopped" /\ exit' = "read error" /\ ~discarding
      /\ UNCHANGED <<transportVars, msgs, ctxDone, reply, out, executed, late>>
  BY Zenon DEF ReadFails
<1>2. UNCHANGED <<lens, eof, tail, fate, discarding, atEOF>>
  BY <1>1, Zenon DEF transportVars
<1>3. TypeOK /\ LineInHand
  BY Zenon DEF IndInv
<1>4. TypeOK'
  BY <1>1, <1>2, <1>3, Zenon DEF TypeOK, TransportTypeOK
<1>5. InHand' = InHand /\ ~Replying'
  BY <1>1, <1>2, ReadingInHand DEF InHand, Replying
<1>6. LineInHand'
  BY <1>1, <1>2, <1>3, Basics DEF LineInHand
<1>7. ReplyInHand' /\ RunsBeforeHand'
  BY <1>1, <1>5 DEF ReplyInHand, RunsBeforeHand
<1> QED
  BY <1>1, <1>4, <1>5, <1>6, <1>7, SameRuns, SameHand, Zenon DEF IndInv

(* A ReadMessage call that refuses its line keeps the invariant. *)
LEMMA ReadTooLargeStep ==
  ASSUME IndInv, ReadTooLarge PROVE IndInv'
<1>1. \/ ReadOverlong /\ (IF discarding' THEN StayInRead ELSE RejectTooLarge(current + 1))
      \/ DiscardNext /\ RejectTooLarge(current)
      \/ DiscardToEOF /\ RejectTooLarge(current)
      \/ ReadOverlongTail /\ RejectTooLarge(Len(lens) + 1)
  BY Zenon DEF ReadTooLarge
<1>2. pc = "read"
  BY Zenon DEF ReadTooLarge
<1> QED
  BY <1>1, <1>2, ReadOverlongStep, DiscardNextStep, DiscardToEOFStep, ReadOverlongTailStep, Zenon

-----------------------------------------------------------------------------
(* The theorems. *)

(* A step that changes nothing keeps the invariant. *)
LEMMA StutterStep ==
  ASSUME IndInv, UNCHANGED vars PROVE IndInv'
<1>1. UNCHANGED <<lens, eof, tail, fate, discarding, atEOF, msgs, ctxDone, pc, reply, out,
                  executed, late, exit>>
  BY Zenon DEF vars, transportVars, loopVars
<1>2. /\ TypeOK /\ FateSound /\ LineInHand /\ ReplyInHand /\ OutputSound /\ RunsBeforeHand
      /\ AnswersInOrder /\ AnsweredIffOwed /\ AnswerMatchesRequest /\ ToolsRunOnce
  BY Zenon DEF IndInv
<1>3. /\ current' = current /\ message' = message /\ InHand' = InHand
      /\ (Replying' <=> Replying) /\ (TailReported' <=> TailReported)
      /\ \A k : (Owed(k)' <=> Owed(k)) /\ OwnId(k)' = OwnId(k)
  BY <1>1, Zenon DEF current, message, InHand, Replying, TailReported, Unread, Owed, OwnId
<1>4. TypeOK' /\ LineInHand' /\ RunsBeforeHand' /\ ToolsRunOnce'
  BY <1>1, <1>2, <1>3, Zenon DEF TypeOK, TransportTypeOK, LineInHand, RunsBeforeHand, ToolsRunOnce
<1>5. ReplyInHand'
  BY <1>1, <1>2, <1>3, Zenon DEF ReplyInHand
<1>6. UNCHANGED <<transportVars, msgs, out>>
  BY <1>1, Zenon DEF transportVars
<1> QED
  BY <1>3, <1>4, <1>5, <1>6, SameHand, Zenon DEF IndInv

(* Every reachable state satisfies the inductive invariant: the place in   *)
(* the loop, the line in hand, the reply under construction, the output    *)
(* and the tool runs always fit together, whatever the limit, the traffic  *)
(* and the moment of cancellation or failure.                              *)
THEOREM Invariance == Spec => []IndInv
<1>1. Init => IndInv
  BY InitInv
<1>2. IndInv /\ [Next]_vars => IndInv'
  <2> SUFFICES ASSUME IndInv, [Next]_vars PROVE IndInv'
    OBVIOUS
  <2>1. CASE ClientSend
    BY <2>1, ClientSendStep
  <2>2. CASE ClientClose
    BY <2>2, ClientCloseStep
  <2>3. CASE Cancel
    BY <2>3, CancelStep
  <2>4. CASE CheckContext
    BY <2>4, CheckContextStep
  <2>5. CASE ReadRequest
    BY <2>5, ReadRequestStep
  <2>6. CASE ReadTooLarge
    BY <2>6, ReadTooLargeStep
  <2>7. CASE ReadEnd
    BY <2>7, ReadEndStep
  <2>8. CASE ValidateRequest
    BY <2>8, ValidateRequestStep
  <2>9. CASE HandleWithoutTool
    BY <2>9, HandleWithoutToolStep
  <2>10. CASE ExecuteTool
    BY <2>10, ExecuteToolStep
  <2>11. CASE ReplaceOversized
    BY <2>11, ReplaceOversizedStep
  <2>12. CASE WriteReply
    BY <2>12, WriteReplyStep
  <2>13. CASE WriteFails
    BY <2>13, WriteFailsStep
  <2>15. CASE ReadFails
    BY <2>15, ReadFailsStep
  <2>14. CASE UNCHANGED vars
    BY <2>14, StutterStep
  <2> QED
    BY <2>1, <2>2, <2>3, <2>4, <2>5, <2>6, <2>7, <2>8, <2>9, <2>10, <2>11, <2>12, <2>13, <2>14,
       <2>15, Zenon DEF Next, Run, Unaided, Fault
<1> QED
  BY <1>1, <1>2, PTL DEF Spec

(* The variables keep their types. *)
THEOREM TypeCorrect == Spec => []TypeOK
<1>1. IndInv => TypeOK
  BY Zenon DEF IndInv
<1> QED
  BY <1>1, Invariance, PTL

(* Every line is answered at most once and in order. *)
THEOREM OrderCorrect == Spec => []AnswersInOrder
<1>1. IndInv => AnswersInOrder
  BY Zenon DEF IndInv
<1> QED
  BY <1>1, Invariance, PTL

(* No answer is skipped and none is made up. *)
THEOREM AnswersCorrect == Spec => []AnsweredIffOwed
<1>1. IndInv => AnsweredIffOwed
  BY Zenon DEF IndInv
<1> QED
  BY <1>1, Invariance, PTL

(* An answer carries the id of the request it answers. *)
THEOREM IdsCorrect == Spec => []AnswerMatchesRequest
<1>1. IndInv => AnswerMatchesRequest
  BY Zenon DEF IndInv
<1> QED
  BY <1>1, Invariance, PTL

(* Tools run at most once per line, in order, for accepted requests only. *)
THEOREM ToolsCorrect == Spec => []ToolsRunOnce
<1>1. IndInv => ToolsRunOnce
  BY Zenon DEF IndInv
<1> QED
  BY <1>1, Invariance, PTL

(* No effect of a tool goes unanswered while the output stream works. *)
THEOREM EffectsCorrect == Spec => []EffectsAnswered
<1>1. IndInv => EffectsAnswered
  <2> SUFFICES ASSUME IndInv, NEW i \in 1..Len(executed), executed[i] # InHand
               PROVE  IsAnswered(executed[i])
    BY Zenon DEF EffectsAnswered
  <2>1. ToolsRunOnce /\ AnsweredIffOwed
    BY Zenon DEF IndInv
  <2>2. /\ executed[i] \in 1..Len(fate) /\ fate[executed[i]] = "message"
        /\ ReachesTool(msgs[executed[i]])
    BY <2>1, Zenon DEF ToolsRunOnce
  <2>3. ~Silent(msgs[executed[i]])
    BY <2>2 DEF ReachesTool, Silent
  <2> QED
    BY <2>1, <2>2, <2>3, Zenon DEF AnsweredIffOwed, Owed
<1> QED
  BY <1>1, Invariance, PTL

(* What CancelStopsIntake needs to be inductive: a message is counted as   *)
(* late only on leaving ReadMessage, after which the context is looked at. *)
LateInv ==
  /\ late \in {0, 1}
  /\ late = 1 => ctxDone /\ pc # "read"

(* After cancellation at most one more message is taken from the stream.   *)
THEOREM CancelCorrect == Spec => []CancelStopsIntake
<1>1. Init => LateInv
  BY DEF Init, LateInv
<1>2. LateInv /\ [Next]_vars => LateInv'
  <2> SUFFICES ASSUME LateInv, [Next]_vars PROVE LateInv'
    OBVIOUS
  <2>1. ASSUME UNCHANGED <<late, ctxDone, pc>> PROVE LateInv'
    BY <2>1, Zenon DEF LateInv
  <2>2. ASSUME pc # "read" \/ late = 0, UNCHANGED <<late, ctxDone>>, pc' # "read" PROVE LateInv'
    BY <2>2, Zenon DEF LateInv
  <2>3. ASSUME pc = "read", CountLate, ctxDone' = ctxDone, pc' # "read" PROVE LateInv'
    <3>1. late = 0
      BY <2>3, Zenon DEF LateInv
    <3>2. CASE ctxDone
      BY <2>3, <3>1, <3>2 DEF LateInv, CountLate
    <3>3. CASE ~ctxDone
      BY <2>3, <3>1, <3>3 DEF LateInv, CountLate
    <3> QED
      BY <3>2, <3>3
  <2>4. CASE ClientSend \/ ClientClose
    BY <2>1, <2>4, Zenon DEF ClientSend, ClientClose, loopVars
  <2>5. CASE Cancel
    BY <2>5, Zenon DEF Cancel, LateInv
  <2>6. CASE CheckContext
    <3>1. CASE ctxDone
      BY <2>2, <2>6, <3>1, Zenon DEF CheckContext
    <3>2. CASE ~ctxDone
      BY <2>6, <3>2, Zenon DEF CheckContext, LateInv
    <3> QED
      BY <3>1, <3>2
  <2>7. CASE ReadRequest
    BY <2>3, <2>7, Zenon DEF ReadRequest
  <2>8. CASE ReadTooLarge
    <3>1. ASSUME NEW k, RejectTooLarge(k), pc = "read" PROVE LateInv'
      BY <2>3, <3>1, Zenon DEF RejectTooLarge
    <3>2. CASE StayInRead
      BY <2>1, <3>2, Zenon DEF StayInRead, loopVars
    <3> QED
      BY <2>8, <3>1, <3>2, Zenon DEF ReadTooLarge
  <2>9. CASE ReadEnd \/ ReadFails
    <3>1. late = 0 /\ pc' # "read" /\ UNCHANGED <<late, ctxDone>>
      BY <2>9 DEF ReadEnd, ReadFails, LateInv
    <3> QED
      BY <2>2, <3>1
  <2>10. CASE ValidateRequest
    <3>1. pc' # "read" /\ pc # "read" /\ UNCHANGED <<late, ctxDone>>
      BY <2>10 DEF ValidateRequest
    <3> QED
      BY <2>2, <3>1
  <2>11. CASE HandleWithoutTool \/ ExecuteTool
    BY <2>2, <2>11, Zenon DEF HandleWithoutTool, ExecuteTool
  <2>12. CASE ReplaceOversized
    BY <2>1, <2>12, Zenon DEF ReplaceOversized
  <2>13. CASE WriteReply \/ WriteFails
    BY <2>2, <2>13, Zenon DEF WriteReply, WriteFails
  <2>14. CASE UNCHANGED vars
    BY <2>1, <2>14, Zenon DEF vars, loopVars
  <2> QED
    BY <2>4, <2>5, <2>6, <2>7, <2>8, <2>9, <2>10, <2>11, <2>12, <2>13, <2>14, Zenon DEF Next, Run, Unaided, Fault
<1>3. LateInv => CancelStopsIntake
  BY DEF LateInv, CancelStopsIntake
<1> QED
  BY <1>1, <1>2, <1>3, PTL DEF Spec

(* What EndedMeansDrained needs to be inductive. *)
DrainedInv == exit = "nil" => eof /\ ~Unread

(* A Run that returned nil left no line unread and none unanswered. *)
THEOREM DrainCorrect == Spec => []EndedMeansDrained
<1>1. Init => DrainedInv
  BY DEF Init, DrainedInv
<1>2. IndInv /\ DrainedInv /\ [Next]_vars => DrainedInv'
  <2> SUFFICES ASSUME IndInv, DrainedInv, [Next]_vars PROVE DrainedInv'
    OBVIOUS
  <2>0. exit = "running" <=> pc # "stopped"
    BY Zenon DEF IndInv, LineInHand
  <2>1. ASSUME pc # "stopped", exit' = exit PROVE DrainedInv'
    BY <2>0, <2>1 DEF DrainedInv
  <2>2. ASSUME exit' \in {"canceled", "read error", "write error"} PROVE DrainedInv'
    BY <2>2 DEF DrainedInv
  <2>3. CASE ClientSend \/ ClientClose
    <3>1. ~eof /\ exit' = exit
      BY <2>3, Zenon DEF ClientSend, Send, ClientClose, Close, loopVars
    <3> QED
      BY <3>1, Zenon DEF DrainedInv
  <2>4. CASE Cancel
    BY <2>1, <2>4, Zenon DEF Cancel
  <2>5. CASE CheckContext
    <3>1. pc # "stopped" /\ (exit' = "canceled" \/ exit' = exit)
      BY <2>5 DEF CheckContext
    <3> QED
      BY <2>1, <2>2, <3>1
  <2>6. CASE ReadRequest \/ ReadTooLarge
    <3>1. pc = "read"
      BY <2>6, Zenon DEF ReadRequest, ReadTooLarge
    <3>2. exit' = exit
      BY <2>6, Zenon DEF ReadRequest, ReadTooLarge, RejectTooLarge, StayInRead, loopVars
    <3> QED
      BY <2>1, <3>1, <3>2
  <2>7. CASE ReadEnd
    <3>1. eof /\ ~Unread /\ UNCHANGED <<eof, lens, fate>>
      BY <2>7, Zenon DEF ReadEnd, ReadEOF
    <3> QED
      BY <3>1, Zenon DEF DrainedInv, Unread
  <2>8. CASE ReadFails \/ WriteFails
    <3>1. exit' \in {"read error", "write error"}
      BY <2>8 DEF ReadFails, WriteFails
    <3> QED
      BY <2>2, <3>1
  <2>9. CASE ValidateRequest \/ HandleWithoutTool \/ ExecuteTool \/ ReplaceOversized \/ WriteReply
    <3>1. pc \in {"validate", "handle", "write"}
      BY <2>9, Zenon DEF ValidateRequest, HandleWithoutTool, ExecuteTool, ReplaceOversized, WriteReply
    <3>2. exit' = exit
      BY <2>9, Zenon DEF ValidateRequest, HandleWithoutTool, ExecuteTool, ReplaceOversized, WriteReply
    <3> QED
      BY <2>1, <3>1, <3>2
  <2>10. CASE UNCHANGED vars
    BY <2>10, Zenon DEF vars, transportVars, loopVars, DrainedInv, Unread
  <2> QED
    BY <2>3, <2>4, <2>5, <2>6, <2>7, <2>8, <2>9, <2>10, Zenon DEF Next, Run, Unaided, Fault
<1>3. IndInv /\ DrainedInv => EndedMeansDrained
  <2> SUFFICES ASSUME IndInv, DrainedInv, exit = "nil" PROVE EndedMeansDrained
    BY DEF EndedMeansDrained
  <2>1. LineInHand /\ AnsweredIffOwed
    BY Zenon DEF IndInv
  <2>2. pc = "stopped"
    BY <2>1 DEF LineInHand
  <2>3. InHand = 0
    BY <2>2 DEF InHand
  <2>4. ~Unread
    BY Zenon DEF DrainedInv
  <2>5. Len(fate) = Len(lens)
    BY <2>4, Basics DEF Unread
  <2>6. \A k \in 1..Len(fate) : Owed(k) => IsAnswered(k)
    BY <2>1, <2>3, Basics DEF AnsweredIffOwed
  <2> QED
    BY <2>5, <2>6, Zenon DEF EndedMeansDrained
<1> QED
  BY <1>1, <1>2, <1>3, Invariance, PTL DEF Spec

-----------------------------------------------------------------------------
(* What a client sees, whatever it sends and whenever it stops reading.    *)
THEOREM ClientCorrect == Spec => []AnsweredOnce
  BY OrderCorrect, AnswersCorrect, IdsCorrect, PTL DEF AnsweredOnce

(* What the tools did, and that their callers were told. *)
THEOREM ToolUseCorrect == Spec => []ToolsAccounted
  BY ToolsCorrect, EffectsCorrect, PTL DEF ToolsAccounted

(* How the server ends, after a cancellation and at the end of its input. *)
THEOREM EndCorrect == Spec => []EndsCleanly
  BY CancelCorrect, DrainCorrect, PTL DEF EndsCleanly

-----------------------------------------------------------------------------
(* The loop implements the service.  To IndInv it adds what kind of answer *)
(* is in hand.                                                             *)

(* The answers a line of length n with message m may get.                  *)
KindsFor(n, m) ==
  IF ~Fits(n) THEN {InvalidRequest}
  ELSE IF Validate(m).kind = "error" THEN {Validate(m).code}
  ELSE IF Validate(m).kind = "notification" THEN {}
  ELSE IF Dispatch(m) # Handled THEN {Dispatch(m), InternalError}
  ELSE IF ReachesTool(m) THEN {Result, ToolError, InternalError}
  ELSE {Result, InternalError}

(* The reply being written is one the service allows for its line, and can *)
(* be replaced by an internal error while it is subject to the limit.      *)
KindInHand ==
  Replying =>
    \/ /\ reply.line \in 1..Len(lens)
       /\ reply.kind \in KindsFor(lens[reply.line], msgs[reply.line])
       /\ reply.bounded => InternalError \in KindsFor(lens[reply.line], msgs[reply.line])
    \/ reply.line = Len(lens) + 1 /\ reply.kind = InvalidRequest /\ ~reply.bounded

(* The service and the loop use the same checks.                           *)
LEMMA SameChecks ==
  ASSUME NEW m
  PROVE  /\ Service!Validate(m) = Validate(m) /\ Service!Dispatch(m) = Dispatch(m)
         /\ Service!ReachesTool(m) <=> ReachesTool(m)
<1>1. Service!Validate(m) = Validate(m)
  BY DEF Service!Validate, Validate, Service!Reject, Reject, Service!Accepted, Accepted,
         Service!Notification, Notification, Service!IsNotification, IsNotification,
         Service!EchoId, EchoId, Service!ValidId, ValidId,
         Service!MethodParamsOK, MethodParamsOK, Service!ToolsCallParamsOK, ToolsCallParamsOK,
         Service!NullId, NullId, Service!NoId, NoId, Service!BadId, BadId, Service!NoMethod, NoMethod,
         Service!NoName, NoName, Service!ParseError, ParseError, Service!InvalidRequest, InvalidRequest,
         Service!InvalidParams, InvalidParams
<1>2. Service!Dispatch(m) = Dispatch(m)
  BY DEF Service!Dispatch, Dispatch, Service!Inspect, Inspect, Service!Route, Route,
         Service!HandlerCheck, HandlerCheck, Service!Handled, Handled,
         Service!Legacy, Legacy, Service!Stateless, Stateless, Service!NoMeta, NoMeta,
         Service!PlainMeta, PlainMeta, Service!BadMeta, BadMeta, Service!MethodNotFound, MethodNotFound,
         Service!InvalidParams, InvalidParams, Service!Unsupported, Unsupported
<1> QED
  BY <1>1, <1>2 DEF Service!ReachesTool, ReachesTool, Service!Handled, Handled

(* So the service allows a line these answers, under this id.              *)
LEMMA ServiceAllows ==
  ASSUME IndInv, NEW k \in 1..Len(lens)
  PROVE  /\ Service!AnswerKinds(k) = KindsFor(lens[k], msgs[k])
         /\ Service!AnswerId(k) = OwnId(k)
         /\ ~Service!TooLong(lens[k]) <=> Fits(lens[k])
<1>1. lens[k] \in Nat /\ MaxReadBytes \in Nat
  <2>1. lens \in Seq(LineLengths)
    BY Basics
  <2>2. lens[k] \in LineLengths
    BY <2>1
  <2> QED
    BY <2>2, TransportAssumption
<1>2. ~Service!TooLong(lens[k]) <=> Fits(lens[k])
  BY <1>1 DEF Service!TooLong, Fits
<1>3. Service!AnswerKinds(k) = KindsFor(lens[k], msgs[k])
  <2>1. Service!InvalidRequest = InvalidRequest /\ Service!InternalError = InternalError /\ Service!Handled = Handled
    BY DEF Service!InvalidRequest, InvalidRequest, Service!InternalError, InternalError, Service!Handled, Handled
  <2>2. \A m : /\ Service!Validate(m) = Validate(m) /\ Service!Dispatch(m) = Dispatch(m)
               /\ Service!ReachesTool(m) <=> ReachesTool(m)
    BY SameChecks
  <2>3. CASE ~Fits(lens[k])
    BY <1>2, <2>1, <2>3, Zenon DEF Service!AnswerKinds, KindsFor
  <2>4. CASE Fits(lens[k])
    <3> DEFINE m == msgs[k]
    <3>1. Service!Validate(m) = Validate(m) /\ Service!Dispatch(m) = Dispatch(m)
          /\ (Service!ReachesTool(m) <=> ReachesTool(m))
      BY <2>2
    <3>2. ~Service!TooLong(lens[k])
      BY <1>2, <2>4
    <3> QED
      BY <2>1, <2>4, <3>1, <3>2 DEF Service!AnswerKinds, KindsFor, Result, ToolError
  <2> QED
    BY <2>3, <2>4
<1>4. Service!AnswerId(k) = OwnId(k)
  BY <1>2, Basics DEF Service!AnswerId, OwnId, Service!NullId, NullId
<1> QED BY <1>2, <1>3, <1>4

(* What a step does that a client cannot see.                              *)
Unseen == UNCHANGED <<lens, msgs, eof, out>> /\ Settled' = Settled

(* To the service it is a stutter.                                         *)
LEMMA UnseenStutters == Unseen => UNCHANGED Service!serviceVars
<1> SUFFICES ASSUME Unseen PROVE UNCHANGED Service!serviceVars
  OBVIOUS
<1>1. lens' = lens /\ msgs' = msgs /\ eof' = eof /\ out' = out /\ Settled' = Settled
  BY DEF Unseen
<1>2. (~eof)' = ~eof
  BY <1>1
<1> QED
  BY <1>1, <1>2, Zenon DEF Service!serviceVars

(* Types and places that every step lemma needs.                           *)
LEMMA Places ==
  ASSUME IndInv
  PROVE  /\ exit = "running" <=> pc # "stopped"
         /\ discarding => pc = "read" /\ current > 0 /\ current <= Len(lens)
         /\ discarding => ~Fits(lens[current]) /\ lens[current] = MaxReadBytes + 1
         /\ pc \in {"validate", "handle"} => current > 0 /\ current <= Len(lens) /\ Fits(lens[current])
         /\ pc = "handle" => Validate(message).kind = "request"
<1>1. LineInHand /\ FateSound
  BY Zenon DEF IndInv
<1>2. current = Len(fate) /\ current \in Nat /\ Len(fate) <= Len(lens) /\ Len(lens) \in Nat
  BY Basics
<1>3. current > 0 => current \in 1..Len(fate)
  BY <1>2
<1> QED
  BY <1>1, <1>2, <1>3 DEF LineInHand, FateSound, EndsOnLimit

(* A reply that is not touched stays allowed.                              *)
LEMMA KindStays ==
  ASSUME KindInHand, UNCHANGED <<lens, msgs, reply>>, Replying' => Replying
  PROVE  KindInHand'
  BY Zenon DEF KindInHand

(* The client's steps are the service's.                                   *)
LEMMA ClientServes ==
  ASSUME IndInv, KindInHand, ClientSend \/ ClientClose
  PROVE  KindInHand' /\ (Service!Ask \/ Service!Hangup)
<1>0. /\ lens \in Seq(LineLengths) /\ msgs \in Seq(ClientMessages) /\ Len(msgs) = Len(lens) /\ Len(lens) \in Nat
  BY Basics
<1>1. UNCHANGED <<fate, discarding, pc, reply, exit, out>>
  BY Zenon DEF ClientSend, ClientClose, Send, Close, loopVars
<1>2. Settled' = Settled /\ (Replying' <=> Replying)
  BY <1>1, Zenon DEF Settled, Replying, current
<1>3. CASE ClientSend
  <2>1. PICK n \in LineLengths, m \in ClientMessages : Send(n) /\ msgs' = Append(msgs, m)
    BY <1>3 DEF ClientSend
  <2>2. ~eof /\ UNCHANGED eof /\ lens' = Append(lens, n) /\ Len(lens) < MaxLines
    BY <2>1 DEF Send
  <2>3. Service!Ask
    BY <1>0, <1>1, <1>2, <2>1, <2>2 DEF Service!Ask
  <2>4. Len(lens') = Len(lens) + 1 /\ \A k \in 1..Len(lens) : lens'[k] = lens[k] /\ msgs'[k] = msgs[k]
    BY <1>0, <2>1, <2>2
  <2>5. Replying => reply.line # Len(lens) + 1
    <3>1. ReplyInHand
      BY DEF IndInv
    <3>2. current \in Nat /\ current <= Len(lens)
      BY Basics
    <3> QED
      BY <1>0, <2>2, <3>1, <3>2 DEF ReplyInHand, TailReported
  <2>6. KindInHand'
    <3> SUFFICES ASSUME Replying' PROVE KindInHand'
      BY DEF KindInHand
    <3>1. /\ reply.line \in 1..Len(lens)
          /\ reply.kind \in KindsFor(lens[reply.line], msgs[reply.line])
          /\ reply.bounded => InternalError \in KindsFor(lens[reply.line], msgs[reply.line])
      BY <1>2, <2>5 DEF KindInHand
    <3>2. reply.line \in 1..Len(lens') /\ lens'[reply.line] = lens[reply.line] /\ msgs'[reply.line] = msgs[reply.line]
      BY <1>0, <2>4, <3>1
    <3> QED
      BY <1>1, <3>1, <3>2, Zenon DEF KindInHand
  <2> QED
    BY <2>3, <2>6
<1>4. CASE ClientClose
  <2>1. ~eof /\ eof' = TRUE /\ UNCHANGED <<lens, msgs>>
    BY <1>4 DEF ClientClose, Close, loopVars
  <2>2. Service!Hangup
    BY <1>1, <1>2, <2>1 DEF Service!Hangup
  <2> QED
    BY <1>1, <1>2, <2>1, <2>2, KindStays
<1> QED
  BY <1>3, <1>4

(* Reading settles nothing: what is read or refused is in hand.            *)
LEMMA ReadRequestServes ==
  ASSUME IndInv, KindInHand, ReadRequest PROVE KindInHand' /\ Unseen
<1>1. /\ pc = "read" /\ pc' = "validate" /\ ~discarding /\ fate' = Append(fate, "message")
      /\ UNCHANGED <<lens, msgs, eof, out, reply, exit, discarding>>
  BY DEF ReadRequest, ReadLine
<1>2. fate \in Seq(Fates) /\ exit = "running" /\ "message" \in Fates
  BY <1>1, Basics, Places DEF Fates
<1>3. Len(fate') = Len(fate) + 1 /\ Len(fate) \in Nat
  BY <1>1, <1>2
<1>4. Settled' = Settled /\ ~Replying'
  BY <1>1, <1>2, <1>3 DEF Settled, Replying, current
<1> QED
  BY <1>1, <1>4 DEF Unseen, KindInHand

(* A refusal takes in hand the only answer its line can get.               *)
LEMMA RejectServes ==
  ASSUME IndInv, KindInHand, NEW k \in Nat, RejectTooLarge(k), UNCHANGED <<lens, eof>>, Settled = k - 1,
         (k \in 1..Len(lens) /\ ~Fits(lens[k])) \/ k = Len(lens) + 1
  PROVE  KindInHand' /\ Unseen
<1>1. /\ pc' = "write" /\ reply' = ErrorReply(k, NullId, InvalidRequest) /\ UNCHANGED <<msgs, out, lens, eof>>
  BY DEF RejectTooLarge
<1>2. reply'.line = k /\ reply'.kind = InvalidRequest /\ ~reply'.bounded
  BY <1>1 DEF ErrorReply
<1>3. Replying' /\ Settled' = k - 1
  BY <1>1, <1>2 DEF Replying, Settled
<1>4. ~Fits(lens[k]) => InvalidRequest \in KindsFor(lens[k], msgs[k])
  BY DEF KindsFor
<1>5. KindInHand'
  BY <1>1, <1>2, <1>4, Zenon DEF KindInHand
<1> QED
  BY <1>1, <1>3, <1>5 DEF Unseen

(* Reading a line above the limit, in each of its ways, is such a refusal. *)
LEMMA ReadTooLargeServes ==
  ASSUME IndInv, KindInHand, ReadTooLarge PROVE KindInHand' /\ Unseen
<1>0. /\ pc = "read" /\ exit = "running" /\ current = Len(fate) /\ current \in Nat /\ fate \in Seq(Fates)
      /\ Len(lens) \in Nat /\ Len(fate) <= Len(lens) /\ ~Replying
  BY Places, Basics DEF ReadTooLarge, Replying
<1>1. Settled = IF discarding THEN current - 1 ELSE current
  BY <1>0 DEF Settled
<1>2. CASE ReadOverlong /\ discarding' /\ StayInRead
  <2>1. ~discarding /\ fate' = Append(fate, "rejected") /\ UNCHANGED <<lens, eof, msgs, out, pc, reply, exit>>
    BY <1>2 DEF ReadOverlong, StayInRead, loopVars
  <2>2. Len(fate') = Len(fate) + 1
    BY <1>0, <2>1 DEF Fates
  <2>3. ~Replying' /\ Settled' = Settled
    BY <1>0, <1>1, <1>2, <2>1, <2>2 DEF Replying, Settled, current
  <2> QED
    BY <2>1, <2>3 DEF Unseen, KindInHand
<1>3. CASE ReadOverlong /\ RejectTooLarge(current + 1)
  <2>1. ~discarding /\ UNCHANGED <<lens, eof>> /\ Len(fate) < Len(lens) /\ ~Fits(lens[Len(fate) + 1])
    BY <1>3 DEF ReadOverlong, Unread, NextLength
  <2> QED
    BY <1>0, <1>1, <1>3, <2>1, RejectServes
<1>4. CASE (DiscardNext \/ DiscardToEOF) /\ RejectTooLarge(current)
  <2>1. discarding /\ UNCHANGED <<lens, eof>>
    BY <1>4 DEF DiscardNext, DiscardToEOF
  <2>2. current \in 1..Len(lens) /\ ~Fits(lens[current])
    BY <1>0, <2>1, Places
  <2> QED
    BY <1>0, <1>1, <1>4, <2>1, <2>2, RejectServes
<1>5. CASE ReadOverlongTail /\ RejectTooLarge(Len(lens) + 1)
  <2>1. ~discarding /\ UNCHANGED <<lens, eof>> /\ ~(Len(fate) < Len(lens))
    BY <1>5 DEF ReadOverlongTail, Unread
  <2> QED
    BY <1>0, <1>1, <1>5, <2>1, RejectServes
<1> QED
  BY <1>2, <1>3, <1>4, <1>5, Zenon DEF ReadTooLarge

(* Nor do the end of the input, a failing read, a cancellation.            *)
LEMMA QuietServes ==
  ASSUME IndInv, KindInHand, Cancel \/ CheckContext \/ ReadEnd \/ ReadFails \/ WriteFails
  PROVE  KindInHand' /\ Unseen
<1>1. UNCHANGED <<lens, msgs, eof, out, reply, fate, discarding>>
  BY Zenon DEF Cancel, CheckContext, ReadEnd, ReadEOF, ReadFails, WriteFails, transportVars
<1>2. /\ exit = "running" <=> pc # "stopped"
      /\ discarding => pc = "read"
  BY Places
<1>3. (Replying' <=> Replying) /\ Settled' = Settled
  <2>1. CASE Cancel
    BY <1>1, <2>1 DEF Cancel, Replying, Settled, current
  <2>2. CASE CheckContext
    BY <1>1, <1>2, <2>2 DEF CheckContext, Replying, Settled, current
  <2>3. CASE ReadEnd \/ ReadFails
    BY <1>1, <1>2, <2>3 DEF ReadEnd, ReadEOF, ReadFails, Replying, Settled, current
  <2>4. CASE WriteFails
    BY <1>1, <1>2, <2>4 DEF WriteFails, Replying, Settled, current
  <2> QED
    BY <2>1, <2>2, <2>3, <2>4
<1> QED
  BY <1>1, <1>3, KindStays DEF Unseen

(* Validation refuses a line, ignores a notification or hands on a request. *)
LEMMA ValidateServes ==
  ASSUME IndInv, KindInHand, ValidateRequest
  PROVE  KindInHand' /\ (Unseen \/ Service!Ignore)
<1>0. /\ pc = "validate" /\ exit = "running" /\ current \in 1..Len(lens) /\ Fits(lens[current])
      /\ ~discarding /\ current \in Nat /\ Len(msgs) = Len(lens)
  <2>1. pc = "validate" 
    BY DEF ValidateRequest
  <2> QED
    BY <2>1, Places, Basics
<1>1. UNCHANGED <<lens, msgs, eof, out, fate, discarding, exit>>
  BY DEF ValidateRequest, transportVars
<1>2. Settled = current - 1 /\ ~Replying /\ current' = current
  BY <1>0, <1>1 DEF Settled, Replying, current
<1>3. CASE Validate(message).kind = "error" /\ pc' = "write"
           /\ reply' = ErrorReply(current, Validate(message).id, Validate(message).code)
  <2>1. reply'.line = current /\ reply'.kind = Validate(message).code /\ ~reply'.bounded
    BY <1>3 DEF ErrorReply
  <2>2. reply'.kind \in KindsFor(lens[current], msgs[current])
    BY <1>0, <1>3, <2>1 DEF KindsFor, message
  <2>3. Settled' = Settled
    BY <1>2, <1>3, <2>1 DEF Settled, Replying
  <2>4. KindInHand'
    BY <1>0, <1>1, <2>1, <2>2, Zenon DEF KindInHand
  <2> QED
    BY <1>1, <2>3, <2>4 DEF Unseen
<1>4. CASE Validate(message).kind = "notification" /\ pc' = "top"
  <2>1. ~Replying' /\ Settled' = current
    BY <1>0, <1>1, <1>2, <1>4 DEF Settled, Replying
  <2>2. Service!IsSilent(msgs[current])
    BY <1>4, SameChecks DEF Service!IsSilent, message
  <2>3. ~Service!TooLong(lens[current])
    BY <1>0, ServiceAllows
  <2>4. Service!NextLine = current
    BY <1>0, <1>2 DEF Service!NextLine
  <2>5. Service!Ignore
    <3>1. Settled < Len(msgs) /\ Settled' = Service!NextLine
      BY <1>0, <1>2, <2>1, <2>4
    <3>2. (~eof)' = ~eof
      BY <1>1
    <3> QED
      BY <1>1, <2>2, <2>3, <2>4, <3>1, <3>2, Zenon DEF Service!Ignore
  <2> QED
    BY <2>1, <2>5 DEF KindInHand
<1>5. CASE Validate(message).kind = "request" /\ pc' = "handle"
  <2>1. ~Replying' /\ Settled' = Settled
    BY <1>0, <1>1, <1>2, <1>5 DEF Settled, Replying
  <2> QED
    BY <1>1, <2>1 DEF KindInHand, Unseen
<1> QED
  BY <1>3, <1>4, <1>5 DEF ValidateRequest

(* Handling leaves one of the answers the line may get in hand.            *)
LEMMA HandleServes ==
  ASSUME IndInv, KindInHand, HandleWithoutTool \/ ExecuteTool
  PROVE  KindInHand' /\ Unseen
<1>0. /\ pc = "handle" /\ pc' = "write" /\ UNCHANGED <<lens, msgs, eof, out, fate, discarding, exit>>
  BY Zenon DEF HandleWithoutTool, ExecuteTool, transportVars
<1>1. /\ exit = "running" /\ current \in 1..Len(lens) /\ Fits(lens[current]) /\ current \in Nat
      /\ Validate(message).kind = "request"
  BY <1>0, Places, Basics
<1>2. Settled = current - 1
  BY <1>0, <1>1 DEF Settled, Replying
<1>3. InternalError \in KindsFor(lens[current], msgs[current])
  BY <1>1 DEF KindsFor, message
<1>4. reply'.line = current /\ reply'.kind \in KindsFor(lens[current], msgs[current])
  <2>1. CASE HandleWithoutTool
    <3>1. ~ReachesTool(message)
      BY <2>1 DEF HandleWithoutTool
    <3>2. PICK isBig \in BOOLEAN :
             \/ /\ Dispatch(message) # Handled
                /\ reply' = Response(current, message.id, Dispatch(message), isBig)
             \/ /\ Dispatch(message) = Handled
                /\ \E kind \in {Result, InternalError} :
                     reply' = Response(current, message.id, kind, isBig)
      BY <2>1, Zenon DEF HandleWithoutTool
    <3>3. CASE Dispatch(message) # Handled /\ reply' = Response(current, message.id, Dispatch(message), isBig)
      <4>1. reply'.line = current /\ reply'.kind = Dispatch(message)
        BY <3>3 DEF Response
      <4> QED
        BY <1>1, <3>3, <4>1 DEF KindsFor, message
    <3>4. ASSUME Dispatch(message) = Handled, NEW kind \in {Result, InternalError},
                 reply' = Response(current, message.id, kind, isBig)
          PROVE  reply'.line = current /\ reply'.kind \in KindsFor(lens[current], msgs[current])
      <4>1. reply'.line = current /\ reply'.kind = kind
        BY <3>4 DEF Response
      <4> QED
        BY <1>1, <3>1, <3>4, <4>1 DEF KindsFor, message
    <3> QED
      BY <3>2, <3>3, <3>4, Zenon
  <2>2. CASE ExecuteTool
    <3>1. ReachesTool(message)
      BY <2>2 DEF ExecuteTool
    <3>2. PICK kind \in {Result, ToolError, InternalError}, isBig \in BOOLEAN :
             reply' = Response(current, message.id, kind, isBig)
      BY <2>2, Zenon DEF ExecuteTool
    <3>3. reply'.line = current /\ reply'.kind = kind
      BY <3>2 DEF Response
    <3>4. Dispatch(message) = Handled
      BY <3>1 DEF ReachesTool
    <3> QED
      BY <1>1, <3>1, <3>3, <3>4 DEF KindsFor, message
  <2> QED
    BY <2>1, <2>2
<1>5. Settled' = Settled
  BY <1>0, <1>2, <1>4 DEF Settled, Replying
<1>6. KindInHand'
  BY <1>0, <1>1, <1>3, <1>4, Zenon DEF KindInHand
<1> QED
  BY <1>0, <1>5, <1>6 DEF Unseen

(* So does replacing an oversized response.                                *)
LEMMA ReplaceServes ==
  ASSUME IndInv, KindInHand, ReplaceOversized
  PROVE  KindInHand' /\ Unseen
<1>1. /\ pc = "write" /\ reply.bounded /\ reply' = ErrorReply(reply.line, reply.id, InternalError)
      /\ UNCHANGED <<lens, msgs, eof, out, fate, discarding, exit, pc>>
  BY DEF ReplaceOversized, transportVars
<1>2. reply'.line = reply.line /\ reply'.kind = InternalError /\ ~reply'.bounded
  BY <1>1 DEF ErrorReply
<1>3. reply.line \in 1..Len(lens) /\ InternalError \in KindsFor(lens[reply.line], msgs[reply.line])
  BY <1>1 DEF KindInHand, Replying
<1>4. Settled' = Settled
  BY <1>1, <1>2 DEF Settled, Replying
<1>5. KindInHand'
  BY <1>1, <1>2, <1>3, Zenon DEF KindInHand
<1> QED
  BY <1>1, <1>4, <1>5 DEF Unseen

(* Writing the reply settles its line, and with it a line it swallowed.    *)
LEMMA WriteServes ==
  ASSUME IndInv, KindInHand, WriteReply
  PROVE  KindInHand' /\ (Service!Answer \/ Service!RefuseTail)
<1>1. /\ pc = "write" /\ pc' = "top" /\ out' = Append(out, Wire(reply))
      /\ UNCHANGED <<lens, msgs, eof, fate, discarding, exit>>
  BY DEF WriteReply, transportVars
<1>2. /\ exit = "running" /\ ~discarding /\ current = Len(fate) /\ current \in Nat
      /\ current <= Len(lens) /\ Len(lens) \in Nat /\ Len(msgs) = Len(lens)
  BY <1>1, Places, Basics
<1>3. Replying /\ Settled = reply.line - 1
  BY <1>1 DEF Settled, Replying
<1>4. ~Replying' /\ Settled' = current
  BY <1>1, <1>2 DEF Settled, Replying, current
<1>5. KindInHand'
  BY <1>4 DEF KindInHand
<1>6. ReplyInHand /\ OutputSound /\ FateSound
  BY Zenon DEF IndInv
<1>7. Wire(reply) = [line |-> reply.line, id |-> OwnId(reply.line), kind |-> reply.kind]
  BY <1>3, <1>6 DEF ReplyInHand, Wire
<1>8. (~eof)' = ~eof
  BY <1>1
<1>9. ASSUME reply.line \in 1..Len(lens),
             reply.line = current \/ (reply.line + 1 = current /\ lens[reply.line] = MaxReadBytes + 1)
      PROVE  Service!Answer
  <2>1. Service!NextLine = reply.line
    BY <1>3, <1>9 DEF Service!NextLine
  <2>2. reply.kind \in Service!AnswerKinds(reply.line) /\ Service!AnswerId(reply.line) = OwnId(reply.line)
    <3>1. reply.kind \in KindsFor(lens[reply.line], msgs[reply.line])
      BY <1>3, <1>9, <1>2 DEF KindInHand
    <3> QED
      BY <1>9, <3>1, ServiceAllows
  <2>3. Service!AnswerNext
    BY <1>1, <1>7, <2>1, <2>2, Zenon DEF Service!AnswerNext
  <2>4. Settled < Len(msgs)
    BY <1>2, <1>3, <1>9
  <2>5. \/ Settled' = Service!NextLine
        \/ /\ lens[Service!NextLine] = MaxReadBytes + 1
           /\ Service!NextLine < Len(msgs) /\ Settled' = Service!NextLine + 1
    BY <1>2, <1>4, <1>9, <2>1
  <2> QED
    BY <1>1, <1>8, <2>3, <2>4, <2>5, Zenon DEF Service!Answer
<1>10. CASE current > 0 /\ reply.line = current
  <2>1. reply.line \in 1..Len(lens)
    BY <1>2, <1>10
  <2> QED
    BY <1>5, <1>9, <1>10, <2>1
<1>11. CASE current > 1 /\ reply.line = current - 1 /\ fate[current] = "swallowed"
  <2>1. EndsOnLimit(lens[current - 1])
    BY <1>2, <1>6, <1>11 DEF FateSound
  <2>2. reply.line \in 1..Len(lens) /\ reply.line + 1 = current /\ lens[reply.line] = MaxReadBytes + 1
    BY <1>2, <1>11, <2>1 DEF EndsOnLimit
  <2> QED
    BY <1>5, <1>9, <2>2
<1>12. CASE reply.line = Len(lens) + 1 /\ TailReported
  <2>1. Settled = Len(lens) /\ current = Len(lens) /\ eof
    BY <1>2, <1>3, <1>12 DEF TailReported, Unread
  <2>2. reply.kind = InvalidRequest
    BY <1>2, <1>3, <1>12 DEF KindInHand
  <2>3. OwnId(reply.line) = NullId
    BY <1>2, <1>12 DEF OwnId
  <2>4. Wire(reply) = [line |-> Service!NextLine, id |-> Service!NullId, kind |-> Service!InvalidRequest]
    BY <1>2, <1>7, <1>12, <2>1, <2>2, <2>3
       DEF Service!NextLine, Service!NullId, NullId, Service!InvalidRequest, InvalidRequest
  <2>5. \A i \in 1..Len(out) : out[i].line <= Settled
    <3>1. InHand = Len(lens) + 1
      BY <1>1, <1>12 DEF InHand
    <3>2. InHand > 0
      BY <1>2, <3>1
    <3>3. \A i \in 1..Len(out) : out[i].line < InHand
      BY <1>6, <3>2, Zenon DEF OutputSound
    <3> QED
      BY <1>2, <2>1, <3>1, <3>3, AnswerLines
  <2>6. Settled = Len(msgs) /\ Settled' = Settled
    BY <1>2, <1>4, <2>1
  <2> QED
    BY <1>1, <1>5, <1>8, <2>1, <2>4, <2>5, <2>6, Zenon DEF Service!RefuseTail
<1> QED
  BY <1>3, <1>5, <1>6, <1>10, <1>11, <1>12, Zenon DEF ReplyInHand

(* Every step of the loop is a step of the service or one it cannot see.   *)
LEMMA StepServes ==
  ASSUME IndInv, KindInHand, [Next]_vars
  PROVE  KindInHand' /\ [Service!ServiceNext]_(Service!serviceVars)
<1>1. CASE ClientSend \/ ClientClose
  BY <1>1, ClientServes, Zenon DEF Service!ServiceNext
<1>2. CASE Cancel \/ CheckContext \/ ReadEnd \/ ReadFails \/ WriteFails
  BY <1>2, QuietServes, UnseenStutters, Zenon
<1>3. CASE ReadRequest
  BY <1>3, ReadRequestServes, UnseenStutters, Zenon
<1>4. CASE ReadTooLarge
  BY <1>4, ReadTooLargeServes, UnseenStutters, Zenon
<1>5. CASE ValidateRequest
  BY <1>5, ValidateServes, UnseenStutters, Zenon DEF Service!ServiceNext
<1>6. CASE HandleWithoutTool \/ ExecuteTool
  BY <1>6, HandleServes, UnseenStutters, Zenon
<1>7. CASE ReplaceOversized
  BY <1>7, ReplaceServes, UnseenStutters, Zenon
<1>8. CASE WriteReply
  BY <1>8, WriteServes, Zenon DEF Service!ServiceNext
<1>9. CASE UNCHANGED vars
  <2>1. UNCHANGED <<lens, msgs, eof, out, fate, discarding, exit, pc, reply>>
    BY <1>9 DEF vars, transportVars, loopVars
  <2>2. (Replying' <=> Replying) /\ Settled' = Settled
    BY <2>1, Zenon DEF Replying, Settled, current
  <2> QED
    BY <2>1, <2>2, KindStays, UnseenStutters DEF Unseen
<1> QED
  BY <1>1, <1>2, <1>3, <1>4, <1>5, <1>6, <1>7, <1>8, <1>9, Zenon DEF Next, Run, Unaided, Fault

(* The loop starts where the service starts.                               *)
LEMMA InitServes == Init => KindInHand /\ Service!ServiceInit
<1> SUFFICES ASSUME Init PROVE KindInHand /\ Service!ServiceInit
  OBVIOUS
<1>1. /\ lens = << >> /\ msgs = << >> /\ eof = FALSE /\ out = << >> /\ fate = << >>
      /\ discarding = FALSE /\ pc = "top" /\ exit = "running"
  BY DEF Init, TransportInit
<1>2. ~Replying /\ Settled = 0
  BY <1>1 DEF Replying, Settled, current
<1> QED
  BY <1>1, <1>2 DEF KindInHand, Service!ServiceInit

(* However reading, limits, the context and the output stream behave, the  *)
(* client sees the service: every step of Run settles the next line by one *)
(* answer it may get, or by none for a notification, or changes nothing it *)
(* can see.                                                                *)
THEOREM ServiceImplemented == Spec => ImplementsService
<1>1. Init => KindInHand /\ Service!ServiceInit
  BY InitServes
<1>2. IndInv /\ KindInHand /\ [Next]_vars
        => KindInHand' /\ [Service!ServiceNext]_(Service!serviceVars)
  BY StepServes, Zenon
<1> QED
  BY <1>1, <1>2, Invariance, PTL DEF Spec, ImplementsService, Service!ServiceSpec
=============================================================================
