----------------------------- MODULE IntakeProofs -----------------------------
(***************************************************************************)
(* What TLAPS proves of a message's way into the server.  Of the byte loop *)
(* of internal/mcp/transport, for every limit, every length of line and    *)
(* any number of lines: one call never buffers more than its limit, and    *)
(* the loop implements the line-wise reader of LineTransport.tla that the  *)
(* server is built on.  Of the request boundary, for any ids, any registry *)
(* of tools, any policy of revisions and any arguments: the replies carry  *)
(* the right id, only notifications are ignored, and no message reaches a  *)
(* handler or changes a file except through the checks of all packages.    *)
(***************************************************************************)
EXTENDS Transport, RequestPipeline, TLAPS


(* Where the reader is, said of the bytes: off never leaves the line it is *)
(* in; while a call is reading, it holds all of its line and not too much; *)
(* while it discards, it is past the limit of its own line, or in the line *)
(* after a line whose newline was the byte too much.                       *)
InLine ==
  /\ Len(fate) <= Len(lens)
  /\ partial < MaxLineBytes
  /\ IF Unread THEN off < lens[Len(fate) + 1] ELSE off <= partial

InCall ==
  /\ atEOF => pc = "idle"
  /\ pc = "idle" => off = 0
  /\ pc = "reading" => line = off /\ first = Len(fate) + 1 /\ ~OverLimit(line)
  /\ pc = "discarding" =>
       /\ MaxReadBytes > 0
       /\ first \in {Len(fate), Len(fate) + 1}
       /\ Len(fate) < first => off > MaxReadBytes

ReadInv == BufferBounded /\ InLine /\ InCall


(* Nothing has been written and nothing read. *)
LEMMA InitRead == Init => ReadInv
<1> SUFFICES ASSUME Init PROVE ReadInv
  OBVIOUS
<1> USE ByteAssumption DEF Init
<1>1. lens \in Seq(1..MaxLineBytes) /\ fate \in Seq({"message", "rejected", "swallowed"})
  <2>1. \A S : << >> \in Seq(S)
    OBVIOUS
  <2> QED BY <2>1, Zenon
<1>2. Len(lens) = 0 /\ Len(fate) = 0
  OBVIOUS
<1>3. TypeOK
  <2>1. partial \in 0..MaxLineBytes /\ off \in 0..MaxLineBytes /\ line \in Nat /\ first \in Nat
    OBVIOUS
  <2>2. pc \in {"idle", "reading", "discarding"} /\ eof \in BOOLEAN /\ atEOF \in BOOLEAN
    BY Zenon
  <2> HIDE DEF Init
  <2> QED BY <1>1, <2>1, <2>2 DEF TypeOK
<1>6. MaxReadBytes > 0 => line <= MaxReadBytes + 1
  OBVIOUS
<1>4. InLine
  BY <1>2 DEF InLine, Unread
<1>5. InCall
  BY DEF InCall
<1> QED BY <1>3, <1>4, <1>5, <1>6 DEF ReadInv, BufferBounded

(* Appending one element to a sequence (Send, Consume). *)
LEMMA AppendOne ==
  ASSUME NEW S, NEW s \in Seq(S), NEW x \in S
  PROVE /\ Append(s, x) \in Seq(S)
        /\ Len(Append(s, x)) = Len(s) + 1
        /\ \A i \in 1..Len(s) : Append(s, x)[i] = s[i]
        /\ Append(s, x)[Len(s) + 1] = x
  OBVIOUS

(* The client's bytes move no line the reader is in. *)
LEMMA ClientKeeps == ASSUME ReadInv, Client PROVE ReadInv'
<1> USE ByteAssumption
<1>1. CASE WriteByte
  BY <1>1 DEF WriteByte, ReadInv, BufferBounded, TypeOK, InLine, InCall, Unread, OverLimit
<1>2. CASE WriteNewline
  <2>1. /\ lens' \in Seq(1..MaxLineBytes) /\ Len(lens') = Len(lens) + 1
        /\ \A i \in 1..Len(lens) : lens'[i] = lens[i]
        /\ lens'[Len(lens) + 1] = partial + 1
    BY <1>2, AppendOne DEF WriteNewline, ReadInv, BufferBounded, TypeOK, InLine
  <2>2. BufferBounded'
    BY <1>2, <2>1 DEF WriteNewline, ReadInv, BufferBounded, TypeOK, InLine
  <2>3. InLine'
    BY <1>2, <2>1 DEF WriteNewline, ReadInv, BufferBounded, TypeOK, InLine, Unread
  <2>4. InCall'
    BY <1>2 DEF WriteNewline, ReadInv, InCall, OverLimit
  <2> QED BY <2>2, <2>3, <2>4 DEF ReadInv
<1>3. CASE CloseStream
  BY <1>3 DEF CloseStream, ReadInv, BufferBounded, TypeOK, InLine, InCall, Unread, OverLimit
<1> QED BY <1>1, <1>2, <1>3 DEF Client

(* Consuming a byte that is there: either it stays in its line, or it is   *)
(* the newline and the next line begins (ReadByte of both loops).          *)
LEMMA ConsumeKeeps ==
  ASSUME ReadInv, ByteReady, UNCHANGED <<lens, partial, eof>>,
         NEW outcome \in {"message", "rejected", "swallowed"}, Consume(outcome)
  PROVE /\ InLine'
        /\ fate' \in Seq({"message", "rejected", "swallowed"})
        /\ off' \in 0..MaxLineBytes
        /\ AtNewline => off' = 0 /\ Len(fate') = Len(fate) + 1
        /\ ~AtNewline => off' = off + 1 /\ fate' = fate
<1> USE ByteAssumption
<1>1. CASE AtNewline
  <2>1. /\ fate' \in Seq({"message", "rejected", "swallowed"})
        /\ Len(fate') = Len(fate) + 1 /\ off' = 0
    BY <1>1, AppendOne DEF Consume, ReadInv, BufferBounded, TypeOK
  <2>2. InLine'
    BY <1>1, <2>1 DEF ReadInv, BufferBounded, TypeOK, InLine, AtNewline, Unread
  <2> QED BY <1>1, <2>1, <2>2
<1>2. CASE ~AtNewline
  BY <1>2 DEF Consume, AtNewline, ByteReady, ReadInv, BufferBounded, TypeOK, InLine, Unread
<1> QED BY <1>1, <1>2

(* The reader's steps keep what it knows about its place. *)
LEMMA ReaderKeeps == ASSUME ReadInv, Reader PROVE ReadInv'
<1> USE ByteAssumption
<1>1. CASE ReadMessage
  BY <1>1 DEF ReadMessage, ReadInv, BufferBounded, TypeOK, InLine, InCall, Unread, OverLimit
<1>2. CASE ReadByte
  <2> USE DEF ReadByte
  <2>1. CASE OverLimit(line + 1) /\ Consume("rejected") /\ pc' = "discarding"
    BY <1>2, <2>1, ConsumeKeeps DEF ReadInv, BufferBounded, TypeOK, InCall, OverLimit
  <2>2. CASE /\ ~OverLimit(line + 1) /\ Consume("message")
             /\ pc' = IF AtNewline THEN "idle" ELSE "reading"
    BY <1>2, <2>2, ConsumeKeeps DEF ReadInv, BufferBounded, TypeOK, InCall, OverLimit
  <2> QED BY <1>2, <2>1, <2>2
<1>3. CASE DiscardByte
  <2>1. PICK outcome \in {"message", "rejected", "swallowed"} : Consume(outcome)
    BY <1>3 DEF DiscardByte
  <2> QED
    BY <1>3, <2>1, ConsumeKeeps DEF DiscardByte, ReadInv, BufferBounded, TypeOK, InCall, OverLimit
<1>4. CASE EndOfStream
  BY <1>4 DEF EndOfStream, ByteReady, ReadInv, BufferBounded, TypeOK, InLine, InCall, Unread, OverLimit
<1> QED BY <1>1, <1>2, <1>3, <1>4 DEF Reader

(* ReadInv is inductive. *)
LEMMA StepRead == ReadInv /\ [Next]_vars => ReadInv'
<1> SUFFICES ASSUME ReadInv, [Next]_vars PROVE ReadInv'
  OBVIOUS
<1>1. CASE UNCHANGED vars
  BY <1>1 DEF vars, ReadInv, BufferBounded, TypeOK, InLine, InCall, Unread, OverLimit
<1> QED BY <1>1, ClientKeeps, ReaderKeeps DEF Next

(* The reader always knows its place in the stream. *)
THEOREM Invariance == Spec => []ReadInv
  BY InitRead, StepRead, PTL DEF Spec

(* No call ever buffers more than its limit and one byte, for any limit,   *)
(* any line and any way the bytes arrive (ReadMessage).                    *)
THEOREM BufferCorrect == Spec => []BufferBounded
<1>1. ReadInv => BufferBounded
  BY DEF ReadInv
<1> QED BY <1>1, Invariance, PTL

-----------------------------------------------------------------------------
(* The line-wise reader. *)

(* The first line of nothing. *)
LEMMA InitLines == Init => Lines!TransportInit
  BY DEF Init, Lines!TransportInit

(* A byte of the client is nothing, a line, or the end of the stream. *)
LEMMA ClientLines == ASSUME ReadInv, Client
                     PROVE [Lines!Client]_(Lines!transportVars)
<1> USE ByteAssumption DEF Lines!transportVars
<1>1. CASE WriteByte
  BY <1>1 DEF WriteByte
<1>2. CASE WriteNewline
  <2>1. partial + 1 \in 1..MaxLineBytes
    BY DEF ReadInv, BufferBounded, TypeOK, InLine
  <2>2. Lines!Send(partial + 1)
    BY <1>2 DEF WriteNewline, Lines!Send
  <2> QED BY <2>1, <2>2 DEF Lines!Client
<1>3. CASE CloseStream
  <2>1. partial \in 0..MaxLineBytes
    BY DEF ReadInv, BufferBounded, TypeOK
  <2>2. Lines!Close(partial)
    BY <1>3 DEF CloseStream, Lines!Close
  <2> QED BY <2>1, <2>2 DEF Lines!Client
<1> QED BY <1>1, <1>2, <1>3 DEF Client

(* A byte of the reader is nothing until it settles a line. *)
LEMMA ReaderLines == ASSUME ReadInv, Reader
                     PROVE [Lines!Reader]_(Lines!transportVars)
<1> USE ByteAssumption
<1>0. pc \in {"idle", "reading", "discarding"} /\ Len(fate) \in Nat /\ Len(lens) \in Nat
  BY DEF ReadInv, BufferBounded, TypeOK
<1>1. CASE ReadMessage
  BY <1>1 DEF ReadMessage, Lines!transportVars
<1>2. CASE ReadByte
  <2>0. ~atEOF /\ pc = "reading" /\ first = Len(fate) + 1 /\ line = off /\ ~OverLimit(line)
    BY <1>2 DEF ReadByte, ReadInv, InCall
  <2>1. CASE ~AtNewline
    BY <1>0, <1>2, <2>0, <2>1 DEF ReadByte, Consume, Lines!transportVars
  <2>2. CASE AtNewline /\ ~OverLimit(line + 1)
    <3>1. Lines!ReadLine
      BY <1>0, <1>2, <2>0, <2>2 DEF ReadByte, Consume, AtNewline, Unread, OverLimit,
         Lines!ReadLine, Lines!Unread, Lines!Fits, Lines!NextLength,
         ReadInv, BufferBounded, TypeOK
    <3> QED BY <2>0, <3>1 DEF Lines!Reader
  <2>3. CASE AtNewline /\ OverLimit(line + 1)
    <3>1. Lines!ReadOverlong
      BY <1>0, <1>2, <2>0, <2>3, AppendOne DEF ReadByte, Consume, AtNewline, Unread, OverLimit,
         Lines!ReadOverlong, Lines!Unread, Lines!Fits, Lines!EndsOnLimit, Lines!NextLength,
         ReadInv, BufferBounded, TypeOK
    <3> QED BY <2>0, <3>1 DEF Lines!Reader
  <2> QED BY <2>1, <2>2, <2>3
<1>3. CASE DiscardByte
  <2>0. ~atEOF /\ pc = "discarding" /\ MaxReadBytes > 0
    BY <1>3 DEF DiscardByte, ReadInv, InCall
  <2>1. CASE ~AtNewline
    BY <1>0, <1>3, <2>0, <2>1 DEF DiscardByte, Consume, Lines!transportVars
  <2>2. CASE AtNewline /\ Len(fate) < first
    <3>1. Lines!ReadOverlong
      BY <1>0, <1>3, <2>0, <2>2 DEF DiscardByte, Consume, AtNewline, Unread,
         Lines!ReadOverlong, Lines!Unread, Lines!Fits, Lines!EndsOnLimit, Lines!NextLength,
         ReadInv, BufferBounded, TypeOK, InCall
    <3> QED BY <2>0, <3>1 DEF Lines!Reader
  <2>3. CASE AtNewline /\ ~(Len(fate) < first)
    <3>1. Lines!DiscardNext
      BY <1>0, <1>3, <2>0, <2>3 DEF DiscardByte, Consume, AtNewline, Unread,
         Lines!DiscardNext, Lines!Unread, ReadInv, BufferBounded, TypeOK
    <3> QED BY <2>0, <3>1 DEF Lines!Reader
  <2> QED BY <2>1, <2>2, <2>3
<1>4. CASE EndOfStream
  <2>0. ~atEOF /\ eof /\ ~Unread /\ off = partial
    BY <1>4 DEF EndOfStream, ByteReady, ReadInv, BufferBounded, TypeOK, InLine, InCall
  <2>1. CASE pc = "reading"
    <3>0. atEOF' = TRUE
      BY <1>4, <2>1, Zenon DEF EndOfStream
    <3>1. Lines!ReadEOF
      BY <1>0, <1>4, <2>0, <2>1, <3>0 DEF EndOfStream, Unread, OverLimit,
         Lines!ReadEOF, Lines!Unread, Lines!Fits, ReadInv, BufferBounded, TypeOK, InCall
    <3> QED BY <2>0, <3>1 DEF Lines!Reader
  <2>2. CASE pc = "discarding" /\ Len(fate) < first
    <3>1. Lines!ReadOverlongTail
      BY <1>0, <1>4, <2>0, <2>2 DEF EndOfStream, Unread,
         Lines!ReadOverlongTail, Lines!Unread, Lines!Fits, ReadInv, BufferBounded, TypeOK, InCall
    <3> QED BY <2>0, <3>1 DEF Lines!Reader
  <2>3. CASE pc = "discarding" /\ ~(Len(fate) < first)
    <3>1. Lines!DiscardToEOF
      BY <1>0, <1>4, <2>0, <2>3 DEF EndOfStream, Unread,
         Lines!DiscardToEOF, Lines!Unread, ReadInv, BufferBounded, TypeOK, InCall
    <3> QED BY <2>0, <3>1 DEF Lines!Reader
  <2> QED BY <1>0, <1>4, <2>1, <2>2, <2>3 DEF EndOfStream
<1> QED BY <1>1, <1>2, <1>3, <1>4 DEF Reader

(* Every behaviour of the byte loop is one of the line-wise reader, with   *)
(* the same outcome for every line (ReadMessage, discardLine).             *)
THEOREM LineWise == Spec => ImplementsLines
<1>1. Init => Lines!TransportInit
  BY InitLines
<1>2. ReadInv /\ [Next]_vars => [Lines!Client \/ Lines!Reader]_(Lines!transportVars)
  <2> SUFFICES ASSUME ReadInv, [Next]_vars
               PROVE [Lines!Client \/ Lines!Reader]_(Lines!transportVars)
    OBVIOUS
  <2>1. CASE UNCHANGED vars
    BY <2>1 DEF vars, Lines!transportVars
  <2>2. CASE Client
    BY <2>2, ClientLines
  <2>3. CASE Reader
    BY <2>3, ReaderLines
  <2> QED BY <2>1, <2>2, <2>3 DEF Next
<1> QED BY <1>1, <1>2, Invariance, PTL DEF Spec, ImplementsLines, Lines!LineSpec

-----------------------------------------------------------------------------
(* The tools: what they make of the arguments of a call. *)


(* The arguments a tool makes its call for, if it can decode what comes    *)
(* before the members that count.                                          *)
Fits(tool, a) == Admits(InputSchema(tool), AsRead(a)) /\ ~Blank(a) /\ ~Unreadable(a)

(* What a call from an arguments object may be. *)
Checked(tool, a, c) ==
  /\ c \in ToolOutcomes
  /\ c # InvalidArguments => Fits(tool, a)
  /\ Fits(tool, a) /\ ~Repeats(a) => c # InvalidArguments
  /\ c.op \in WriteOps => tool \in WriteTools
  /\ c.flag => \E m \in DOMAIN a : m \in {"overwrite", "recursive"} /\ a[m].value = "true"
  /\ c.limit = "asked" => a["maxBytes"].value = "within"

(* A member of an object is absent or counts with one of the values. *)
Has(a, m, S) == m \in DOMAIN a => a[m].value \in S

(* The occurrences before those that count decode too. *)
Past(f, a) ==
  \A m \in DOMAIN a : \A e \in a[m].earlier : e.value \in f[m] \/ (e.value = "null" /\ e.again)

(* So they do where no member comes twice. *)
LEMMA NothingPast ==
  ASSUME NEW f, NEW a, ~Repeats(a) PROVE Past(f, a)
  BY DEF Past, Repeats

(* decodeStrictArguments, member by member. *)
LEMMA DecodesByMember ==
  ASSUME NEW a, NEW f, NEW x, NEW y, NEW z, DOMAIN f = {x, y, z}
  PROVE Decodes(f, a) <=>
          /\ DOMAIN a \subseteq {x, y, z} /\ Past(f, a)
          /\ Has(a, x, f[x]) /\ Has(a, y, f[y]) /\ Has(a, z, f[z])
  BY DEF Decodes, Has, Past

(* An input schema, member by member. *)
LEMMA AdmitsByMember ==
  ASSUME NEW a, NEW f, NEW r, NEW x, NEW y, NEW z, DOMAIN f = {x, y, z}
  PROVE Admits(Schema(f, r), AsRead(a)) <=>
          /\ r \subseteq DOMAIN a /\ DOMAIN a \subseteq {x, y, z}
          /\ Has(a, x, f[x]) /\ Has(a, y, f[y]) /\ Has(a, z, f[z])
<1>1. Schema(f, r).members = f /\ Schema(f, r).required = r
  BY DEF Schema
<1>2. /\ DOMAIN AsRead(a) = DOMAIN a
      /\ \A m \in DOMAIN a : /\ AsRead(a)[m].exact /\ AsRead(a)[m].earlier = {}
                             /\ AsRead(a)[m].value = a[m].value
  BY DEF AsRead, Once
<1> HIDE DEF Schema, AsRead
<1> QED BY <1>1, <1>2 DEF Admits, Has

(* A tool that makes its call exactly when it should makes a checked one. *)
LEMMA MadeChecked ==
  ASSUME NEW tool, NEW a, NEW f, NEW ok, NEW op \in ReadOps \cup WriteOps, NEW flag \in BOOLEAN,
         NEW limit \in {"none", "asked", "server"},
         ok <=> Fits(tool, a) /\ Past(f, a),
         op \in WriteOps => tool \in WriteTools,
         flag => \E m \in DOMAIN a : m \in {"overwrite", "recursive"} /\ a[m].value = "true",
         limit = "asked" => a["maxBytes"].value = "within"
  PROVE Checked(tool, a, IF ok THEN Call(op, flag, limit) ELSE InvalidArguments)
<1>1. CASE ok
  <2>1. Call(op, flag, limit) # InvalidArguments /\ Call(op, flag, limit) \in ToolOutcomes
    BY DEF Call, Simple, InvalidArguments, ToolOutcomes, ReadOps, WriteOps
  <2>2. /\ Call(op, flag, limit).op = op /\ Call(op, flag, limit).flag = flag
        /\ Call(op, flag, limit).limit = limit
    BY DEF Call
  <2> QED BY <1>1, <2>1, <2>2 DEF Checked
<1>2. CASE ~ok
  BY <1>2, NothingPast DEF Checked, InvalidArguments, Simple, Call, ToolOutcomes, WriteOps, ReadOps
<1> QED BY <1>1, <1>2

(* "overwrite" and "recursive" are off unless they are there and true. *)
LEMMA FlagMeans ==
  ASSUME NEW a, NEW m \in {"overwrite", "recursive"}
  PROVE /\ Flag(a, m) \in BOOLEAN
        /\ Flag(a, m) => \E n \in DOMAIN a : n \in {"overwrite", "recursive"} /\ a[n].value = "true"
  BY DEF Flag, Field

(* The three tools whose only member is a path. *)
LEMMA OnlyPath ==
  ASSUME NEW a, NEW r \in {{}, {"path"}}
  PROVE /\ Decodes([path |-> TextValues], a)
             <=> /\ DOMAIN a \subseteq {"path"} /\ Past([path |-> TextValues], a)
                 /\ Has(a, "path", TextValues)
        /\ Admits(Schema([path |-> NonEmpty], r), AsRead(a))
             <=> r \subseteq DOMAIN a /\ DOMAIN a \subseteq {"path"} /\ Has(a, "path", NonEmpty)
<1> DEFINE fields == [path |-> TextValues]
           wanted == [path |-> NonEmpty]
<1>1. DOMAIN fields = {"path", "path", "path"} /\ fields["path"] = TextValues
  OBVIOUS
<1>2. DOMAIN wanted = {"path", "path", "path"} /\ wanted["path"] = NonEmpty
  OBVIOUS
<1>3. fields = [path |-> TextValues] /\ wanted = [path |-> NonEmpty]
  OBVIOUS
<1> HIDE DEF fields, wanted
<1>4. Decodes(fields, a) <=> /\ DOMAIN a \subseteq {"path"} /\ Past(fields, a)
                 /\ Has(a, "path", TextValues)
  BY <1>1, DecodesByMember
<1>5. Admits(Schema(wanted, r), AsRead(a))
             <=> r \subseteq DOMAIN a /\ DOMAIN a \subseteq {"path"} /\ Has(a, "path", NonEmpty)
  BY <1>2, AdmitsByMember
<1> QED BY <1>3, <1>4, <1>5

(* list_directory takes no path for the root, but not a blank one. *)
LEMMA ListDirectoryChecked ==
  ASSUME NEW a PROVE Checked("list_directory", a, ListDirectory(a))
<1> DEFINE ok == Decodes([path |-> TextValues], a) /\ ("path" \in DOMAIN a => Given(a, "path"))
<1>1. ok <=> Fits("list_directory", a) /\ Past([path |-> TextValues], a)
  BY OnlyPath DEF InputSchema, ListDirectorySchema, Has, Given, IsNonBlank, Field, Blank, TextValues, NonEmpty,
     Fits, Unreadable, NoInt64
<1>2. ListDirectory(a) = IF ok THEN Call("list", FALSE, "none") ELSE InvalidArguments
  BY DEF ListDirectory, Simple
<1>3. "list" \in ReadOps /\ "list" \notin WriteOps
  BY DEF ReadOps, WriteOps
<1> HIDE DEF ok
<1> QED BY <1>1, <1>2, <1>3, MadeChecked

(* get_path_info takes a path and nothing else. *)
LEMMA GetPathInfoChecked ==
  ASSUME NEW a PROVE Checked("get_path_info", a, GetPathInfo(a))
<1> DEFINE ok == Decodes([path |-> TextValues], a) /\ Given(a, "path")
<1>1. ok <=> Fits("get_path_info", a) /\ Past([path |-> TextValues], a)
  BY OnlyPath DEF InputSchema, GetPathInfoSchema, Has, Given, IsNonBlank, Field, Blank, TextValues, NonEmpty,
     Fits, Unreadable, NoInt64
<1>2. GetPathInfo(a) = IF ok THEN Call("stat", FALSE, "none") ELSE InvalidArguments
  BY DEF GetPathInfo, Simple
<1>3. "stat" \in ReadOps /\ "stat" \notin WriteOps
  BY DEF ReadOps, WriteOps
<1> HIDE DEF ok
<1> QED BY <1>1, <1>2, <1>3, MadeChecked

(* create_directory. *)
LEMMA CreateDirectoryChecked ==
  ASSUME NEW a PROVE Checked("create_directory", a, CreateDirectory(a))
<1> DEFINE ok == Decodes([path |-> TextValues], a) /\ Given(a, "path")
<1>1. ok <=> Fits("create_directory", a) /\ Past([path |-> TextValues], a)
  BY OnlyPath DEF InputSchema, CreateDirectorySchema, Has, Given, IsNonBlank, Field, Blank, TextValues, NonEmpty,
     Fits, Unreadable, NoInt64
<1>2. CreateDirectory(a) = IF ok THEN Call("mkdir", FALSE, "none") ELSE InvalidArguments
  BY DEF CreateDirectory, Simple
<1> HIDE DEF ok
<1> QED BY <1>1, <1>2, MadeChecked DEF ReadOps, WriteOps, WriteTools

(* read_file also takes a limit, which has to be positive. *)
LEMMA ReadFileChecked == ASSUME NEW a PROVE Checked("read_file", a, ReadFile(a))
<1> DEFINE fields == [path |-> TextValues, maxBytes |-> IntegerValues]
           wanted == [path |-> NonEmpty, maxBytes |-> AtLeastOne]
           ok == Decodes(fields, a) /\ Given(a, "path")
                 /\ Field(a, "maxBytes", "above") # "nonpositive"
           limit == IF Field(a, "maxBytes", "above") = "within" THEN "asked" ELSE "server"
<1>1. Decodes(fields, a) <=> /\ DOMAIN a \subseteq {"path", "maxBytes"} /\ Past(fields, a)
                             /\ Has(a, "path", TextValues) /\ Has(a, "maxBytes", IntegerValues)
  <2>1. DOMAIN fields = {"path", "maxBytes", "maxBytes"} /\ fields["path"] = TextValues
        /\ fields["maxBytes"] = IntegerValues
    OBVIOUS
  <2> QED BY <2>1, DecodesByMember
<1>2. Admits(InputSchema("read_file"), AsRead(a)) <=>
        /\ "path" \in DOMAIN a /\ DOMAIN a \subseteq {"path", "maxBytes"}
        /\ Has(a, "path", NonEmpty) /\ Has(a, "maxBytes", AtLeastOne)
  <2>1. DOMAIN wanted = {"path", "maxBytes", "maxBytes"} /\ wanted["path"] = NonEmpty
        /\ wanted["maxBytes"] = AtLeastOne
    OBVIOUS
  <2>2. InputSchema("read_file") = Schema(wanted, {"path"})
    BY DEF InputSchema, ReadFileSchema
  <2> HIDE DEF wanted
  <2> QED BY <2>1, <2>2, AdmitsByMember
<1>3. ok <=> Fits("read_file", a) /\ Past(fields, a)
  BY <1>1, <1>2 DEF Has, Given, IsNonBlank, Field, Blank, TextValues, NonEmpty,
     Fits, Unreadable, NoInt64, IntegerValues, AtLeastOne
<1>4. ReadFile(a) = IF ok THEN Call("read", FALSE, limit) ELSE InvalidArguments
  BY DEF ReadFile
<1>5. limit \in {"none", "asked", "server"} /\ (limit = "asked" => a["maxBytes"].value = "within")
  BY DEF Field
<1>6. "read" \in ReadOps /\ "read" \notin WriteOps
  BY DEF ReadOps, WriteOps
<1> HIDE DEF ok, limit
<1> QED BY <1>3, <1>4, <1>5, <1>6, MadeChecked

(* write_file: any content, and overwrite. *)
LEMMA WriteFileChecked == ASSUME NEW a PROVE Checked("write_file", a, WriteFile(a))
<1> DEFINE fields == [path |-> TextValues, content |-> TextValues, overwrite |-> BooleanValues]
           wanted == [path |-> NonEmpty, content |-> TextValues, overwrite |-> BooleanValues]
           ok == Decodes(fields, a) /\ Given(a, "path")
<1>1. Decodes(fields, a) <=>
        /\ DOMAIN a \subseteq {"path", "content", "overwrite"} /\ Past(fields, a)
        /\ Has(a, "path", TextValues) /\ Has(a, "content", TextValues)
        /\ Has(a, "overwrite", BooleanValues)
  <2>1. DOMAIN fields = {"path", "content", "overwrite"} /\ fields["path"] = TextValues
        /\ fields["content"] = TextValues /\ fields["overwrite"] = BooleanValues
    OBVIOUS
  <2> HIDE DEF fields
  <2> QED BY <2>1, DecodesByMember
<1>2. Admits(InputSchema("write_file"), AsRead(a)) <=>
        /\ "path" \in DOMAIN a /\ DOMAIN a \subseteq {"path", "content", "overwrite"}
        /\ Has(a, "path", NonEmpty) /\ Has(a, "content", TextValues)
        /\ Has(a, "overwrite", BooleanValues)
  <2>1. DOMAIN wanted = {"path", "content", "overwrite"} /\ wanted["path"] = NonEmpty
        /\ wanted["content"] = TextValues /\ wanted["overwrite"] = BooleanValues
    OBVIOUS
  <2>2. InputSchema("write_file") = Schema(wanted, {"path"})
    BY DEF InputSchema, WriteFileSchema
  <2> HIDE DEF wanted
  <2> QED BY <2>1, <2>2, AdmitsByMember
<1>3. ok <=> Fits("write_file", a) /\ Past(fields, a)
  BY <1>1, <1>2 DEF Has, Given, IsNonBlank, Field, Blank, TextValues, NonEmpty,
     Fits, Unreadable, NoInt64, BooleanValues
<1>4. WriteFile(a) = IF ok THEN Call("write", Flag(a, "overwrite"), "none") ELSE InvalidArguments
  BY DEF WriteFile
<1> HIDE DEF ok
<1> QED BY <1>3, <1>4, FlagMeans, MadeChecked DEF ReadOps, WriteOps, WriteTools

(* delete_path: the path and recursive. *)
LEMMA DeletePathChecked == ASSUME NEW a PROVE Checked("delete_path", a, DeletePath(a))
<1> DEFINE fields == [path |-> TextValues, recursive |-> BooleanValues]
           wanted == [path |-> NonEmpty, recursive |-> BooleanValues]
           ok == Decodes(fields, a) /\ Given(a, "path")
<1>1. Decodes(fields, a) <=> /\ DOMAIN a \subseteq {"path", "recursive"} /\ Past(fields, a)
                             /\ Has(a, "path", TextValues) /\ Has(a, "recursive", BooleanValues)
  <2>1. DOMAIN fields = {"path", "recursive", "recursive"} /\ fields["path"] = TextValues
        /\ fields["recursive"] = BooleanValues
    OBVIOUS
  <2> HIDE DEF fields
  <2> QED BY <2>1, DecodesByMember
<1>2. Admits(InputSchema("delete_path"), AsRead(a)) <=>
        /\ "path" \in DOMAIN a /\ DOMAIN a \subseteq {"path", "recursive"}
        /\ Has(a, "path", NonEmpty) /\ Has(a, "recursive", BooleanValues)
  <2>1. DOMAIN wanted = {"path", "recursive", "recursive"} /\ wanted["path"] = NonEmpty
        /\ wanted["recursive"] = BooleanValues
    OBVIOUS
  <2>2. InputSchema("delete_path") = Schema(wanted, {"path"})
    BY DEF InputSchema, DeletePathSchema
  <2> HIDE DEF wanted
  <2> QED BY <2>1, <2>2, AdmitsByMember
<1>3. ok <=> Fits("delete_path", a) /\ Past(fields, a)
  BY <1>1, <1>2 DEF Has, Given, IsNonBlank, Field, Blank, TextValues, NonEmpty,
     Fits, Unreadable, NoInt64, BooleanValues
<1>4. DeletePath(a) = IF ok THEN Call("delete", Flag(a, "recursive"), "none") ELSE InvalidArguments
  BY DEF DeletePath
<1> HIDE DEF ok
<1> QED BY <1>3, <1>4, FlagMeans, MadeChecked DEF ReadOps, WriteOps, WriteTools

(* copy_path and move_path take two paths and overwrite. *)
LEMMA TwoPathsChecked ==
  ASSUME NEW a, NEW tool \in {"copy_path", "move_path"}
  PROVE Decodes(TwoPaths, a) /\ Given(a, "source") /\ Given(a, "target")
          <=> Fits(tool, a) /\ Past(TwoPaths, a)
<1> DEFINE wanted == [source |-> NonEmpty, target |-> NonEmpty, overwrite |-> BooleanValues]
<1>1. Decodes(TwoPaths, a) <=>
        /\ DOMAIN a \subseteq {"source", "target", "overwrite"} /\ Past(TwoPaths, a)
        /\ Has(a, "source", TextValues) /\ Has(a, "target", TextValues)
        /\ Has(a, "overwrite", BooleanValues)
  <2>1. DOMAIN TwoPaths = {"source", "target", "overwrite"} /\ TwoPaths["source"] = TextValues
        /\ TwoPaths["target"] = TextValues /\ TwoPaths["overwrite"] = BooleanValues
    BY DEF TwoPaths
  <2> QED BY <2>1, DecodesByMember
<1>2. Admits(InputSchema(tool), AsRead(a)) <=>
        /\ {"source", "target"} \subseteq DOMAIN a
        /\ DOMAIN a \subseteq {"source", "target", "overwrite"}
        /\ Has(a, "source", NonEmpty) /\ Has(a, "target", NonEmpty)
        /\ Has(a, "overwrite", BooleanValues)
  <2>1. DOMAIN wanted = {"source", "target", "overwrite"} /\ wanted["source"] = NonEmpty
        /\ wanted["target"] = NonEmpty /\ wanted["overwrite"] = BooleanValues
    OBVIOUS
  <2>2. InputSchema(tool) = Schema(wanted, {"source", "target"})
    BY DEF InputSchema, CopyPathSchema, MovePathSchema
  <2> HIDE DEF wanted
  <2> QED BY <2>1, <2>2, AdmitsByMember
<1> QED BY <1>1, <1>2 DEF Has, Given, IsNonBlank, Field, Blank, TextValues, NonEmpty,
     Fits, Unreadable, NoInt64, BooleanValues

(* Both make the call that their arguments allow. *)
LEMMA CopyMoveChecked ==
  ASSUME NEW a
  PROVE Checked("copy_path", a, CopyPath(a)) /\ Checked("move_path", a, MovePath(a))
<1> DEFINE ok == Decodes(TwoPaths, a) /\ Given(a, "source") /\ Given(a, "target")
<1>1. /\ ok <=> Fits("copy_path", a) /\ Past(TwoPaths, a)
      /\ ok <=> Fits("move_path", a) /\ Past(TwoPaths, a)
  BY TwoPathsChecked
<1>2. /\ CopyPath(a) = IF ok THEN Call("copy", Flag(a, "overwrite"), "none") ELSE InvalidArguments
      /\ MovePath(a) = IF ok THEN Call("move", Flag(a, "overwrite"), "none") ELSE InvalidArguments
  BY DEF CopyPath, MovePath
<1> HIDE DEF ok
<1>3. Checked("copy_path", a, CopyPath(a))
  BY <1>1, <1>2, FlagMeans, MadeChecked DEF ReadOps, WriteOps, WriteTools
<1>4. Checked("move_path", a, MovePath(a))
  BY <1>1, <1>2, FlagMeans, MadeChecked DEF ReadOps, WriteOps, WriteTools
<1> QED BY <1>3, <1>4

(* Whatever tool of the server Execute is asked for. *)
LEMMA ExecuteChecked ==
  ASSUME NEW tool \in ReadTools \cup WriteTools, NEW a
  PROVE Checked(tool, a, Execute(tool, a))
  BY ListDirectoryChecked, ReadFileChecked, GetPathInfoChecked, WriteFileChecked, CreateDirectoryChecked,
     DeletePathChecked, CopyMoveChecked DEF Execute, ReadTools, WriteTools

-----------------------------------------------------------------------------
(* The way of a message through the pipeline. *)


Names == Registry \cup {"unknown"}

(* What validateRequestMessage has established of a message it let pass. *)
Validated ==
  /\ msg.json = "object" /\ msg.v2 /\ msg.method # NoMethod
  /\ msg.id \in Ids \cup {NullId}
  /\ MethodParamsOK(msg.method, msg.params)
  /\ reply.id = msg.id

PipelineInv ==
  /\ PipelineTypeOK
  /\ stage = "arrived" => reply = NoReply
  /\ stage \in {"validated", "running", "called"} => Validated
  /\ stage = "answered" =>
       reply.id = IF msg.json = "object" /\ msg.id \in Ids THEN msg.id ELSE NullId
  /\ stage = "ignored" =>
       msg.json = "object" /\ msg.v2 /\ msg.method # NoMethod /\ msg.id = NoId
  /\ stage \in {"running", "called"} => DispatchHere(msg) = Handled
  /\ stage = "called" => /\ msg.method = "tools/call"
                         /\ made = Execute(msg.params.name, args)

(* The names of the ids differ from the marks for having none. *)
LEMMA Apart == NullId # NoId /\ NullId # BadId /\ NoId # BadId
               /\ NullId \notin Ids /\ NoId \notin Ids /\ BadId \notin Ids
  BY RequestAssumption DEF NullId, NoId, BadId

(* The members of a message. *)
LEMMA MessageParts ==
  ASSUME NEW names, NEW m \in Messages(names)
  PROVE /\ m.id \in Ids \cup {NullId, NoId, BadId} /\ m.v2 \in BOOLEAN
        /\ m.json \in {"invalid", "not object", "object"}
        /\ m.method \in Methods \cup {NoMethod}
        /\ m.params \in Params(names)
  BY DEF Messages

(* The three ways a validation ends (validateRequestMessageWithLimits). *)
LEMMA ValidateEnds ==
  ASSUME NEW names, NEW m \in Messages(names)
  PROVE \/ /\ Validate(m).kind = "error" /\ Validate(m).code \in Codes
           /\ Validate(m).id = IF m.json = "object" /\ m.id \in Ids THEN m.id ELSE NullId
        \/ /\ Validate(m).kind = "notification"
           /\ m.json = "object" /\ m.v2 /\ m.method # NoMethod /\ m.id = NoId
        \/ /\ Validate(m).kind = "request" /\ Validate(m).id = m.id
           /\ m.json = "object" /\ m.v2 /\ m.method # NoMethod /\ m.id \in Ids \cup {NullId}
           /\ MethodParamsOK(m.method, m.params)
<1>0. m.id \in Ids \cup {NullId, NoId, BadId}
  BY MessageParts
<1>1. CASE m.json = "invalid"
  BY <1>1 DEF Validate, Reject, Codes
<1>2. CASE m.json = "not object"
  BY <1>2 DEF Validate, Reject, Codes
<1>3. CASE m.json = "object" /\ (~m.v2 \/ m.id = BadId \/ m.method = NoMethod)
  <2>1. Validate(m) = Reject(EchoId(m), InvalidRequest)
    BY <1>3 DEF Validate
  <2>2. EchoId(m) = IF m.id \in Ids THEN m.id ELSE NullId
    BY <1>0, Apart DEF EchoId, ValidId
  <2> QED BY <1>3, <2>1, <2>2 DEF Reject, Codes
<1>4. CASE m.json = "object" /\ m.v2 /\ m.id # BadId /\ m.method # NoMethod
  <2>1. CASE m.id = NoId
    BY <1>4, <2>1 DEF Validate, IsNotification, Notification
  <2>2. CASE m.id # NoId /\ MethodParamsOK(m.method, m.params)
    BY <1>0, <1>4, <2>2 DEF Validate, IsNotification, Accepted
  <2>3. CASE m.id # NoId /\ ~MethodParamsOK(m.method, m.params)
    <3>1. Validate(m) = Reject(m.id, InvalidParams)
      BY <1>4, <2>3 DEF Validate, IsNotification
    <3>2. m.id = IF m.id \in Ids THEN m.id ELSE NullId
      BY <1>0, <1>4, <2>3
    <3> QED BY <1>4, <3>1, <3>2 DEF Reject, Codes
  <2> QED BY <2>1, <2>2, <2>3
<1> QED BY <1>1, <1>2, <1>3, <1>4, MessageParts

(* The router and the handlers answer with a known code (DispatchRevision).*)
LEMMA DispatchCodes ==
  ASSUME NEW m
  PROVE /\ Dispatch(m) \in Codes \cup {Handled}
        /\ Production!Dispatch(m) \in Codes \cup {Handled}
  BY DEF Dispatch, Route, HandlerCheck, Codes, Handled,
     InvalidParams, MethodNotFound, Unsupported,
     Production!Dispatch, Production!Route, Production!HandlerCheck, Production!Handled,
     Production!InvalidParams, Production!MethodNotFound, Production!Unsupported

(* A handled call names a registered tool (ToolsCall.Handle). *)
LEMMA DispatchedName ==
  ASSUME NEW m, m.method = "tools/call", DispatchHere(m) = Handled
  PROVE m.params.name \in Registry
  BY DEF DispatchHere, Dispatch, Route, HandlerCheck, Handled, InvalidParams, MethodNotFound,
     Unsupported, Production!Dispatch, Production!Route, Production!HandlerCheck,
     Production!Handled, Production!InvalidParams, Production!MethodNotFound,
     Production!Unsupported

(* Nothing is known of a message that has just arrived. *)
LEMMA InitPipeline == PipelineInit => PipelineInv
<1>1. IsArguments(NoArguments) /\ InvalidArguments \in ToolOutcomes
  BY DEF IsArguments, NoArguments, InvalidArguments, Simple, Call, ToolOutcomes
<1> QED BY <1>1 DEF PipelineInit, PipelineInv, PipelineTypeOK, NoReply, Names

(* Validation leaves a message answered, ignored or validated. *)
LEMMA ValidateKeeps == ASSUME PipelineInv, ValidateMessage PROVE PipelineInv'
<1> DEFINE v == Validate(msg)
<1>0. /\ stage = "arrived" /\ reply = NoReply /\ UNCHANGED <<released, msg, args, made>>
      /\ msg \in Messages(Names) /\ released \in BOOLEAN
      /\ IsArguments(args) /\ made \in ToolOutcomes
  BY DEF ValidateMessage, PipelineInv, PipelineTypeOK, Names
<1>1. \/ /\ v.kind = "error" /\ v.code \in Codes
         /\ v.id = IF msg.json = "object" /\ msg.id \in Ids THEN msg.id ELSE NullId
      \/ /\ v.kind = "notification"
         /\ msg.json = "object" /\ msg.v2 /\ msg.method # NoMethod /\ msg.id = NoId
      \/ /\ v.kind = "request" /\ v.id = msg.id
         /\ msg.json = "object" /\ msg.v2 /\ msg.method # NoMethod /\ msg.id \in Ids \cup {NullId}
         /\ MethodParamsOK(msg.method, msg.params)
  BY <1>0, ValidateEnds
<1>2. /\ stage' = CASE v.kind = "error" -> "answered"
                     [] v.kind = "notification" -> "ignored"
                     [] v.kind = "request" -> "validated"
      /\ reply' = CASE v.kind = "error" -> [id |-> v.id, code |-> v.code]
                     [] v.kind = "notification" -> reply
                     [] v.kind = "request" -> [id |-> v.id, code |-> "none"]
  BY DEF ValidateMessage
<1> HIDE DEF v
<1>3. CASE v.kind = "error"
  <2>1. stage' = "answered" /\ reply' = [id |-> v.id, code |-> v.code]
    BY <1>2, <1>3
  <2>2. v.id \in Ids \cup {NullId}
    BY <1>1, <1>3
  <2> QED BY <1>0, <1>1, <1>3, <2>1, <2>2 DEF PipelineInv, PipelineTypeOK, Names
<1>4. CASE v.kind = "notification"
  <2>1. stage' = "ignored" /\ reply' = NoReply
    BY <1>0, <1>2, <1>4
  <2> QED BY <1>0, <1>1, <1>4, <2>1 DEF PipelineInv, PipelineTypeOK, Names, NoReply
<1>5. CASE v.kind = "request"
  <2>1. stage' = "validated" /\ reply' = [id |-> v.id, code |-> "none"]
    BY <1>2, <1>5
  <2> QED BY <1>0, <1>1, <1>5, <2>1 DEF PipelineInv, PipelineTypeOK, Names, Validated
<1> QED BY <1>1, <1>3, <1>4, <1>5

(* Routing leaves it running or answered, under the id it came with. *)
LEMMA DispatchKeeps == ASSUME PipelineInv, DispatchMessage PROVE PipelineInv'
<1>0. /\ stage = "validated" /\ UNCHANGED <<released, msg, args, made>> /\ Validated
      /\ msg \in Messages(Names) /\ released \in BOOLEAN
      /\ reply \in [id : Ids \cup {NullId}, code : Codes \cup {"none"}]
      /\ IsArguments(args) /\ made \in ToolOutcomes
  BY DEF DispatchMessage, PipelineInv, PipelineTypeOK, Names
<1>1. DispatchHere(msg) \in Codes \cup {Handled}
  BY DispatchCodes DEF DispatchHere
<1>2. DispatchHere(msg)' = DispatchHere(msg)
  BY <1>0 DEF DispatchHere
<1>3. CASE DispatchHere(msg) = Handled
  <2>1. stage' = "running" /\ reply' = reply
    BY <1>3 DEF DispatchMessage
  <2>2. Validated'
    BY <1>0, <2>1 DEF Validated
  <2> QED BY <1>0, <1>2, <1>3, <2>1, <2>2 DEF PipelineInv, PipelineTypeOK, Names
<1>4. CASE DispatchHere(msg) # Handled
  <2>1. stage' = "answered" /\ reply' = [reply EXCEPT !.code = DispatchHere(msg)]
    BY <1>4 DEF DispatchMessage
  <2>2. /\ reply' \in [id : Ids \cup {NullId}, code : Codes \cup {"none"}]
        /\ reply'.id = reply.id
    BY <1>0, <1>1, <1>4, <2>1
  <2>3. reply.id = IF msg.json = "object" /\ msg.id \in Ids THEN msg.id ELSE NullId
    BY <1>0 DEF Validated
  <2> QED BY <1>0, <2>1, <2>2, <2>3 DEF PipelineInv, PipelineTypeOK, Names
<1> QED BY <1>3, <1>4

(* Only a handled call of a registered tool makes a call on the files.     *)
LEMMA CallKeeps == ASSUME PipelineInv, CallTool PROVE PipelineInv'
<1>1. /\ stage = "running" /\ stage' = "called" /\ msg.method = "tools/call"
      /\ UNCHANGED <<released, msg, reply>>
  BY DEF CallTool
<1>2. /\ args' \in Objects \cup {NoArguments}
      /\ made' = Execute(msg.params.name, args')
  BY DEF CallTool
<1>3. PipelineTypeOK /\ Validated /\ DispatchHere(msg) = Handled
  BY <1>1 DEF PipelineInv
<1>4. IsArguments(args')
  BY <1>2, PipelineAssumption DEF IsArguments, NoArguments
<1>5. msg.params.name \in ReadTools \cup WriteTools
  BY <1>1, <1>3, DispatchedName, PipelineAssumption
<1>6. made' \in ToolOutcomes
  BY <1>2, <1>5, ExecuteChecked DEF Checked
<1>7. Validated' /\ DispatchHere(msg)' = Handled
  BY <1>1, <1>3 DEF Validated, DispatchHere
<1>8. PipelineTypeOK'
  BY <1>1, <1>3, <1>4, <1>6 DEF PipelineTypeOK
<1> QED BY <1>1, <1>2, <1>7, <1>8 DEF PipelineInv

(* PipelineInv is inductive. *)
LEMMA StepPipeline == PipelineInv /\ [PipelineNext]_pipelineVars => PipelineInv'
<1> SUFFICES ASSUME PipelineInv, [PipelineNext]_pipelineVars PROVE PipelineInv'
  OBVIOUS
<1>1. CASE UNCHANGED pipelineVars
  BY <1>1 DEF pipelineVars, PipelineInv, PipelineTypeOK, Validated, DispatchHere
<1> QED BY <1>1, ValidateKeeps, DispatchKeeps, CallKeeps DEF PipelineNext

(* The pipeline always keeps PipelineInv. *)
LEMMA Always == PipelineSpec => []PipelineInv
  BY InitPipeline, StepPipeline, PTL DEF PipelineSpec

(* The reply to any message carries the right id, and only notifications   *)
(* go unanswered, whatever ids, tools and revisions there are              *)
(* (validateRequestMessage, requestIDOrNull).                              *)
THEOREM RepliesCorrect == PipelineSpec => []RepliesRight
<1>1. PipelineInv => RepliesRight
  <2> SUFFICES ASSUME PipelineInv PROVE RepliesRight
    OBVIOUS
  <2>1. ErrorEchoesId
    BY DEF PipelineInv, Validated, ErrorEchoesId
  <2>2. OnlyNotificationsIgnored
    BY Apart DEF PipelineInv, Validated, OnlyNotificationsIgnored
  <2> QED BY <2>1, <2>2 DEF RepliesRight, PipelineInv
<1> QED BY <1>1, Always, PTL

-----------------------------------------------------------------------------
(* What reaching a handler takes. *)

(* A handled message is in a revision the policy enables, and its method   *)
(* belongs to that revision (DispatchRevision).                            *)
LEMMA HandledRevision ==
  ASSUME NEW m, Dispatch(m) = Handled
  PROVE LET r == Inspect(m.params)
        IN /\ r.version \in Policy /\ r.version = (IF r.envelope THEN Stateless ELSE Legacy)
           /\ m.method = "server/discover" => r.envelope
           /\ m.method = "initialize" => ~r.envelope
           /\ m.method = "tools/call" => m.params.name \in Registry
  BY DEF Dispatch, Route, HandlerCheck, Handled, InvalidParams, MethodNotFound, Unsupported,
     Legacy, Stateless

(* The same under the policy of the released server. *)
LEMMA ProductionRevision ==
  ASSUME NEW m, Production!Dispatch(m) = Handled
  PROVE LET r == Inspect(m.params)
        IN /\ r.version = Legacy /\ ~r.envelope
           /\ m.method # "server/discover"
           /\ m.method = "tools/call" => m.params.name \in Registry
  BY DEF Production!Dispatch, Production!Route, Production!HandlerCheck, Production!Inspect,
     Production!Handled, Production!InvalidParams, Production!MethodNotFound,
     Production!Unsupported, Production!Legacy, Production!Stateless,
     Production!NoMeta, Production!PlainMeta, Production!BadMeta,
     Inspect, Handled, Legacy, Stateless, NoMeta, PlainMeta, BadMeta

(* What the envelope and its absence say about the parameters (Inspect). *)
LEMMA EnvelopeSays ==
  ASSUME NEW names, NEW p \in Params(names)
  PROVE LET r == Inspect(p)
        IN /\ r.envelope => p.shape = "object" /\ p.meta \in Versions /\ r.version = p.meta
           /\ ~r.envelope /\ r.version = Legacy /\ p.shape = "object" => p.meta \in {NoMeta, PlainMeta}
  BY DEF Params, Metas, Inspect, Versions, NoMeta, PlainMeta, BadMeta, Legacy, Stateless

(* A running call went through the checks of four packages. *)
LEMMA RunningCall == ASSUME PipelineInv PROVE ToolNeedsEveryCheck
<1> SUFFICES ASSUME stage \in {"running", "called"}, msg.method = "tools/call"
             PROVE  /\ msg.json = "object" /\ msg.v2 /\ msg.id \in Ids \cup {NullId}
                    /\ msg.params.shape = "object" /\ ~msg.params.tooBig
                    /\ msg.params.name \in Registry
                    /\ msg.params.arguments \in {"absent", "null", "object"}
                    /\ \/ msg.params.meta \in {NoMeta, PlainMeta} /\ Legacy \in Enabled
                       \/ msg.params.meta = Stateless /\ Stateless \in Enabled
  BY DEF ToolNeedsEveryCheck, RunsTool
<1> DEFINE p == msg.params
<1>1. Validated /\ DispatchHere(msg) = Handled /\ released \in BOOLEAN /\ msg \in Messages(Names)
  BY DEF PipelineInv, PipelineTypeOK, Names
<1>2. p \in Params(Names)
  BY <1>1, MessageParts
<1>3. ToolsCallParamsOK(p)
  BY <1>1 DEF Validated, MethodParamsOK
<1>4. p.shape = "object" /\ ~p.tooBig /\ p.arguments \in {"absent", "null", "object"}
  BY <1>2, <1>3 DEF ToolsCallParamsOK, Params, Shapes
<1>5. CASE released
  <2>1. Production!Dispatch(msg) = Handled
    BY <1>1, <1>5 DEF DispatchHere
  <2>2. Inspect(p).version = Legacy /\ ~Inspect(p).envelope /\ p.name \in Registry
    BY <2>1, ProductionRevision
  <2>3. p.meta \in {NoMeta, PlainMeta}
    BY <1>2, <1>4, <2>2, EnvelopeSays
  <2> QED BY <1>1, <1>4, <1>5, <2>2, <2>3 DEF Validated, Enabled
<1>6. CASE ~released
  <2>1. Dispatch(msg) = Handled
    BY <1>1, <1>6 DEF DispatchHere
  <2>2. /\ Inspect(p).version \in Policy /\ p.name \in Registry
        /\ Inspect(p).version = (IF Inspect(p).envelope THEN Stateless ELSE Legacy)
    BY <2>1, HandledRevision
  <2>3. CASE Inspect(p).envelope
    BY <1>1, <1>2, <1>4, <1>6, <2>2, <2>3, EnvelopeSays DEF Validated, Enabled
  <2>4. CASE ~Inspect(p).envelope
    BY <1>1, <1>2, <1>4, <1>6, <2>2, <2>4, EnvelopeSays DEF Validated, Enabled
  <2> QED BY <2>3, <2>4
<1> QED BY <1>1, <1>5, <1>6

(* Neither the checks of the parameters nor the registry look at the       *)
(* envelope of a call (validateToolsCallParams, ToolsCall.Handle).         *)
LEMMA TwinsAlike ==
  ASSUME PipelineInv, NEW meta
  PROVE LET twin == [msg EXCEPT !.params.meta = meta]
        IN /\ Validate(twin).kind = Validate(msg).kind
           /\ twin.method = msg.method /\ twin.params.name = msg.params.name
           /\ twin.params.shape = msg.params.shape /\ twin.params.meta = meta
<1> DEFINE twin == [msg EXCEPT !.params.meta = meta]
<1>1. msg \in Messages(Names) /\ msg.params \in Params(Names)
  BY MessageParts DEF PipelineInv, PipelineTypeOK, Names
<1>2. /\ twin.json = msg.json /\ twin.v2 = msg.v2 /\ twin.id = msg.id /\ twin.method = msg.method
      /\ twin.params = [msg.params EXCEPT !.meta = meta]
  BY <1>1 DEF Messages
<1>3. /\ twin.params.shape = msg.params.shape /\ twin.params.tooBig = msg.params.tooBig
      /\ twin.params.version = msg.params.version /\ twin.params.name = msg.params.name
      /\ twin.params.arguments = msg.params.arguments /\ twin.params.meta = meta
  BY ZenonT(60), <1>1, <1>2 DEF Params
<1> HIDE DEF twin
<1>4. MethodParamsOK(twin.method, twin.params) <=> MethodParamsOK(msg.method, msg.params)
  BY <1>2, <1>3 DEF MethodParamsOK, ToolsCallParamsOK
<1>5. Validate(twin).kind = Validate(msg).kind
  BY <1>2, <1>4 DEF Validate, IsNotification, EchoId, ValidId, Reject, Accepted, Notification
<1> QED BY <1>2, <1>3, <1>5 DEF twin

(* With both revisions enabled, a call is handled in its envelope exactly  *)
(* if it is handled without (DispatchRevision).                            *)
LEMMA CallInEnvelope ==
  ASSUME NEW m, m.method = "tools/call", m.params.meta \in {NoMeta, Stateless},
         Policy = {Legacy, Stateless}
  PROVE Dispatch(m) = Handled <=> m.params.name \in Registry
  BY DEF Dispatch, Inspect, Route, HandlerCheck, Handled, InvalidParams, MethodNotFound, Unsupported,
     Legacy, Stateless, NoMeta, PlainMeta, BadMeta

(* The envelope authorizes nothing and takes nothing away. *)
LEMMA EnvelopeNeutral == ASSUME PipelineInv PROVE EnvelopeDoesNotAuthorize
<1> SUFFICES ASSUME Policy = {Legacy, Stateless}
             PROVE ReachesTool([msg EXCEPT !.params.meta = Stateless])
                     = ReachesTool([msg EXCEPT !.params.meta = NoMeta])
  BY DEF EnvelopeDoesNotAuthorize
<1> DEFINE in == [msg EXCEPT !.params.meta = Stateless]
           out == [msg EXCEPT !.params.meta = NoMeta]
<1>1. /\ Validate(in).kind = Validate(out).kind
      /\ in.method = out.method /\ in.params.name = out.params.name
      /\ in.params.meta = Stateless /\ out.params.meta = NoMeta
  BY TwinsAlike
<1> HIDE DEF in, out
<1>2. in.method = "tools/call" => (Dispatch(in) = Handled <=> in.params.name \in Registry)
  BY <1>1, CallInEnvelope
<1>3. out.method = "tools/call" => (Dispatch(out) = Handled <=> out.params.name \in Registry)
  BY <1>1, CallInEnvelope
<1>4. ReachesTool(in) <=> ReachesTool(out)
  BY <1>1, <1>2, <1>3 DEF ReachesTool
<1>5. ReachesTool(in) \in BOOLEAN /\ ReachesTool(out) \in BOOLEAN
  BY DEF ReachesTool
<1>6. ReachesTool(in) = ReachesTool(out)
  BY <1>4, <1>5
<1> QED BY <1>6 DEF in, out

(* The two discovery paths stay apart. *)
LEMMA Isolated == ASSUME PipelineInv PROVE RevisionsIsolated
<1> SUFFICES ASSUME stage \in {"running", "called"}
             PROVE LET enveloped == msg.params.shape = "object" /\ msg.params.meta \in Versions
                   IN /\ enveloped => Stateless \in Enabled /\ msg.method # "initialize"
                      /\ ~enveloped => Legacy \in Enabled /\ msg.method # "server/discover"
  BY DEF RevisionsIsolated
<1> DEFINE p == msg.params
           enveloped == p.shape = "object" /\ p.meta \in Versions
<1>1. DispatchHere(msg) = Handled /\ released \in BOOLEAN /\ p \in Params(Names)
  BY MessageParts DEF PipelineInv, PipelineTypeOK, Names
<1>2. enveloped => Inspect(p).envelope
  BY DEF Inspect, Versions, NoMeta, PlainMeta, BadMeta, Legacy, Stateless
<1>3. ~enveloped => ~Inspect(p).envelope
  BY <1>1, EnvelopeSays
<1> HIDE DEF enveloped
<1>4. CASE released
  <2>1. Production!Dispatch(msg) = Handled
    BY <1>1, <1>4 DEF DispatchHere
  <2>2. ~Inspect(p).envelope /\ msg.method # "server/discover"
    BY <2>1, ProductionRevision
  <2> QED BY <1>2, <1>4, <2>2 DEF Enabled, enveloped
<1>5. CASE ~released
  <2>1. Dispatch(msg) = Handled
    BY <1>1, <1>5 DEF DispatchHere
  <2>2. /\ Inspect(p).version \in Policy
        /\ Inspect(p).version = (IF Inspect(p).envelope THEN Stateless ELSE Legacy)
        /\ msg.method = "server/discover" => Inspect(p).envelope
        /\ msg.method = "initialize" => ~Inspect(p).envelope
    BY <2>1, HandledRevision
  <2> QED BY <1>2, <1>3, <1>5, <2>2 DEF Enabled, enveloped
<1> QED BY <1>1, <1>4, <1>5

(* The schemas and the tools agree on the arguments, and only a tool that  *)
(* writes changes files (InputSchema and Execute of every tool).           *)
LEMMA CalledRight == ASSUME PipelineInv PROVE ArgumentsChecked
<1> SUFFICES ASSUME stage = "called" PROVE ArgumentsChecked
  BY DEF ArgumentsChecked
<1>1. msg.params.name \in Registry
  BY DispatchedName DEF PipelineInv
<1>2. Checked(msg.params.name, args, made)
  BY <1>1, ExecuteChecked, PipelineAssumption DEF PipelineInv
<1> QED BY <1>1, <1>2 DEF Checked, Fits, ArgumentsChecked

(* A tool runs, and a handler is reached, only through the checks of all   *)
(* four packages together, for every message and every policy              *)
(* (validateRequestMessage, DispatchRevision, ToolsCall.Handle).           *)
THEOREM ChecksHoldTogether == PipelineSpec => []OnlyThroughEveryCheck
<1>1. PipelineInv => OnlyThroughEveryCheck
  BY RunningCall, EnvelopeNeutral, Isolated, CalledRight DEF OnlyThroughEveryCheck
<1> QED BY <1>1, Always, PTL
===============================================================================
