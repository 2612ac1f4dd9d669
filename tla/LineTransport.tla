---------------------------- MODULE LineTransport ----------------------------
(***************************************************************************)
(* What one ReadMessage call of internal/mcp/transport does to the stream  *)
(* of newline-terminated lines on standard input, one line per step.       *)
(* Transport.tla models the same calls byte by byte and is shown to        *)
(* implement this module; McpServer.tla builds the server loop on it.      *)
(*                                                                         *)
(* A line is represented by its length, the newline included: that is what *)
(* ReadMessage compares with the limit.                                    *)
(***************************************************************************)
EXTENDS Naturals, Sequences

CONSTANTS
  MaxReadBytes,   \* Options.MaxMessageBytes; 0 means "no limit"
  LineLengths,    \* the lengths of the lines a client may write
  TailLengths,    \* the lengths of an unterminated last line, 0 for none
  MaxLines        \* bound on the number of lines a client writes

ASSUME TransportAssumption ==
  /\ MaxReadBytes \in Nat
  /\ LineLengths \subseteq Nat \ {0}
  /\ TailLengths \subseteq Nat
  /\ MaxLines \in Nat

VARIABLES
  lens,        \* lengths of the complete lines written so far
  eof,         \* the client has closed the stream
  tail,        \* bytes after the last newline, once the stream is closed
  fate,        \* what became of each consumed line, in stream order
  discarding,  \* discardLine was entered after the newline had been consumed
  atEOF        \* a ReadMessage call has returned io.EOF

transportVars == <<lens, eof, tail, fate, discarding, atEOF>>

Fates == {"message", "rejected", "swallowed"}

TransportTypeOK ==
  /\ lens \in Seq(LineLengths)
  /\ eof \in BOOLEAN
  /\ tail \in TailLengths \cup {0}
  /\ fate \in Seq(Fates)
  /\ discarding \in BOOLEAN
  /\ atEOF \in BOOLEAN

TransportInit ==
  /\ lens = << >>
  /\ eof = FALSE
  /\ tail = 0
  /\ fate = << >>
  /\ discarding = FALSE
  /\ atEOF = FALSE

-----------------------------------------------------------------------------
(* The client's end of the pipe. *)

Send(n) ==
  /\ ~eof
  /\ Len(lens) < MaxLines
  /\ lens' = Append(lens, n)
  /\ UNCHANGED <<eof, tail, fate, discarding, atEOF>>

Close(t) ==
  /\ ~eof
  /\ eof' = TRUE
  /\ tail' = t
  /\ UNCHANGED <<lens, fate, discarding, atEOF>>

-----------------------------------------------------------------------------
(* The server's end: the ways a ReadMessage call can go on. *)

Fits(n) == MaxReadBytes = 0 \/ n <= MaxReadBytes

(* The byte that exceeds the limit is the newline itself. *)
EndsOnLimit(n) == MaxReadBytes > 0 /\ n = MaxReadBytes + 1

Unread == Len(fate) < Len(lens)

NextLength == lens[Len(fate) + 1]

(* A line within the limit is returned. *)
ReadLine ==
  /\ ~discarding /\ Unread
  /\ Fits(NextLength)
  /\ fate' = Append(fate, "message")
  /\ UNCHANGED <<lens, eof, tail, discarding, atEOF>>

(* Mutant: discardLine always looks for one more newline. *)
ReadOverlong_DiscardMore ==
  /\ ~discarding /\ Unread
  /\ ~Fits(NextLength)
  /\ fate' = Append(fate, "rejected")
  /\ discarding' = TRUE
  /\ UNCHANGED <<lens, eof, tail, atEOF>>

(* A line above the limit is consumed up to its newline.  If the newline   *)
(* was the byte that exceeded the limit, discardLine has not seen one yet. *)
ReadOverlong ==
  /\ ~discarding /\ Unread
  /\ ~Fits(NextLength)
  /\ fate' = Append(fate, "rejected")
  /\ discarding' = EndsOnLimit(NextLength)
  /\ UNCHANGED <<lens, eof, tail, atEOF>>

(* ... and consumes the line that follows, *)
DiscardNext ==
  /\ discarding /\ Unread
  /\ fate' = Append(fate, "swallowed")
  /\ discarding' = FALSE
  /\ UNCHANGED <<lens, eof, tail, atEOF>>

(* ... or whatever is left before the end of the stream. *)
DiscardToEOF ==
  /\ discarding /\ ~Unread /\ eof
  /\ discarding' = FALSE
  /\ tail' = 0
  /\ UNCHANGED <<lens, eof, fate, atEOF>>

(* An unterminated last line above the limit is reported, *)
ReadOverlongTail ==
  /\ ~discarding /\ ~Unread /\ eof
  /\ ~Fits(tail)
  /\ tail' = 0
  /\ UNCHANGED <<lens, eof, fate, discarding, atEOF>>

(* ... and one within the limit is dropped with the end of the stream. *)
ReadEOF ==
  /\ ~discarding /\ ~Unread /\ eof
  /\ Fits(tail)
  /\ tail' = 0
  /\ atEOF' = TRUE
  /\ UNCHANGED <<lens, eof, fate, discarding>>

Client == (\E n \in LineLengths : Send(n)) \/ (\E t \in TailLengths : Close(t))

Reader ==
  /\ ~atEOF
  /\ \/ ReadLine \/ ReadOverlong
     \/ DiscardNext \/ DiscardToEOF
     \/ ReadOverlongTail \/ ReadEOF

LineSpec == TransportInit /\ [][Client \/ Reader]_transportVars

-----------------------------------------------------------------------------

(* A call returns only whole lines of at most the limit, refuses only lines *)
(* above it, and the one line it loses is the line after a refused one      *)
(* whose newline was the byte that exceeded the limit (ReadMessage and      *)
(* discardLine).                                                            *)
FateSound ==
  \A k \in 1..Len(fate) :
    /\ k <= Len(lens)
    /\ fate[k] = "message" => Fits(lens[k])
    /\ fate[k] = "rejected" => ~Fits(lens[k])
    /\ fate[k] = "swallowed" =>
         k > 1 /\ fate[k-1] = "rejected" /\ EndsOnLimit(lens[k-1])
=============================================================================
