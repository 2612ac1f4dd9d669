------------------------------ MODULE Transport ------------------------------
(***************************************************************************)
(* internal/mcp/transport byte by byte: the ReadByte loop of ReadMessage,  *)
(* its limit check and the discardLine loop, against a client that writes  *)
(* its bytes at any time.  Only two things about a byte matter: whether it *)
(* is the newline, and how many came before it in its line; the stream is  *)
(* therefore the lengths of its complete lines and of the line in writing. *)
(***************************************************************************)
EXTENDS Naturals, Sequences

CONSTANTS MaxReadBytes, MaxLineBytes, MaxLines

ASSUME ByteAssumption ==
  MaxReadBytes \in Nat /\ MaxLineBytes \in Nat \ {0} /\ MaxLines \in Nat

VARIABLES
  lens,      \* lengths of the lines written and terminated
  partial,   \* bytes written after the last newline
  eof,       \* the client has closed the stream
  off,       \* bytes consumed of the line now being read
  pc,        \* "idle", or inside ReadMessage: "reading" or "discarding"
  line,      \* len(line) of the call in progress
  first,     \* number of the line the call in progress began with
  fate,      \* history: what became of each consumed line
  atEOF      \* ReadMessage has returned io.EOF

vars == <<lens, partial, eof, off, pc, line, first, fate, atEOF>>

TypeOK ==
  /\ lens \in Seq(1..MaxLineBytes)
  /\ partial \in 0..MaxLineBytes
  /\ eof \in BOOLEAN
  /\ off \in 0..MaxLineBytes
  /\ pc \in {"idle", "reading", "discarding"}
  /\ line \in Nat
  /\ first \in Nat
  /\ fate \in Seq({"message", "rejected", "swallowed"})
  /\ atEOF \in BOOLEAN

Init ==
  /\ lens = << >> /\ partial = 0 /\ eof = FALSE
  /\ off = 0 /\ pc = "idle" /\ line = 0 /\ first = 1
  /\ fate = << >> /\ atEOF = FALSE

-----------------------------------------------------------------------------
(* The client writes a byte, ends a line, or closes the stream. *)

WriteByte ==
  /\ ~eof /\ Len(lens) < MaxLines /\ partial < MaxLineBytes - 1
  /\ partial' = partial + 1
  /\ UNCHANGED <<lens, eof, off, pc, line, first, fate, atEOF>>

WriteNewline ==
  /\ ~eof /\ Len(lens) < MaxLines
  /\ lens' = Append(lens, partial + 1)
  /\ partial' = 0
  /\ UNCHANGED <<eof, off, pc, line, first, fate, atEOF>>

CloseStream ==
  /\ ~eof
  /\ eof' = TRUE
  /\ UNCHANGED <<lens, partial, off, pc, line, first, fate, atEOF>>

Client == WriteByte \/ WriteNewline \/ CloseStream

-----------------------------------------------------------------------------
(* The reader. *)

Unread == Len(fate) < Len(lens)

(* t.in.ReadByte() can return a byte, and that byte is the newline. *)
ByteReady == Unread \/ off < partial
AtNewline == Unread /\ off + 1 = lens[Len(fate) + 1]

(* Consume one byte; a newline settles the line it ends as outcome. *)
Consume(outcome) ==
  IF AtNewline
  THEN fate' = Append(fate, outcome) /\ off' = 0
  ELSE off' = off + 1 /\ UNCHANGED fate

ReadMessage ==
  /\ pc = "idle" /\ ~atEOF
  /\ pc' = "reading"
  /\ line' = 0
  /\ first' = Len(fate) + 1
  /\ UNCHANGED <<lens, partial, eof, off, fate, atEOF>>

(* Mutants: the limit is not enforced, or refuses a line that just fits. *)
OverLimit_Never(n) == FALSE
OverLimit_OffByOne(n) == MaxReadBytes > 0 /\ n >= MaxReadBytes

OverLimit(n) == MaxReadBytes > 0 /\ n > MaxReadBytes

ReadByte ==
  /\ pc = "reading" /\ ByteReady
  /\ line' = line + 1
  /\ \/ /\ OverLimit(line + 1)
        /\ Consume("rejected")
        /\ pc' = "discarding"
     \/ /\ ~OverLimit(line + 1)
        /\ Consume("message")
        /\ pc' = IF AtNewline THEN "idle" ELSE "reading"
  /\ UNCHANGED <<lens, partial, eof, first, atEOF>>

(* discardLine stops at the first newline it reads itself. *)
DiscardByte ==
  /\ pc = "discarding" /\ ByteReady
  /\ Consume(IF Len(fate) < first THEN "rejected" ELSE "swallowed")
  /\ pc' = IF AtNewline THEN "idle" ELSE "discarding"
  /\ UNCHANGED <<lens, partial, eof, line, first, atEOF>>

(* Mutant: a stream without bytes is taken for its end. *)
EndOfStream_NoWait ==
  /\ pc # "idle" /\ ~ByteReady
  /\ partial' = 0 /\ off' = 0
  /\ pc' = "idle"
  /\ atEOF' = (pc = "reading")
  /\ UNCHANGED <<lens, eof, line, first, fate>>

(* ReadByte returns io.EOF: ReadMessage returns it and the bytes read so   *)
(* far are lost; discardLine returns, and so does ErrMessageTooLarge.      *)
EndOfStream ==
  /\ pc # "idle" /\ ~ByteReady /\ eof
  /\ partial' = 0 /\ off' = 0
  /\ pc' = "idle"
  /\ atEOF' = (pc = "reading")
  /\ UNCHANGED <<lens, eof, line, first, fate>>

Reader == ReadMessage \/ ReadByte \/ DiscardByte \/ EndOfStream

Next == Client \/ Reader

(* The server process keeps running: it does not stop inside ReadMessage   *)
(* while it can take a step.  Nothing is assumed of the client.            *)
Spec == Init /\ [][Next]_vars /\ WF_vars(Reader)

-----------------------------------------------------------------------------

(* One call never buffers more than the limit and the byte that exceeds it *)
(* however long the line is and however it is delivered (ReadMessage).     *)
BufferBounded ==
  /\ TypeOK
  /\ MaxReadBytes > 0 => line <= MaxReadBytes + 1

(* The byte loop implements the line-wise reader. *)
Lines == INSTANCE LineTransport WITH
           LineLengths <- 1..MaxLineBytes,
           TailLengths <- 0..MaxLineBytes,
           tail <- IF eof THEN partial ELSE 0,
           discarding <- pc = "discarding" /\ Len(fate) >= first

(* Every read of the byte loop is one read of a whole line, with the same  *)
(* outcome, whatever way the bytes arrive (ReadMessage, discardLine).      *)
ImplementsLines == Lines!LineSpec

(* Every line the client completes is consumed, so the reader is never     *)
(* stuck inside a line that is already there (ReadMessage's loop ends).    *)
LinesConsumed == \A k \in 1..MaxLines : Len(lens) >= k ~> Len(fate) >= k
=============================================================================
