------------------------------- MODULE ToolCalls -------------------------------
(***************************************************************************)
(* The adapters of internal/mcp/tools between a tools/call and the file    *)
(* system: what each tool advertises as its input schema, what its Execute *)
(* makes of an arguments object, and the call it then makes.               *)
(*                                                                         *)
(* encoding/json matches member names up to letter case, and a member may  *)
(* come more than once.  An arguments object therefore maps the members it *)
(* has, whatever their spelling, to their occurrences: the last one, and   *)
(* those before it.                                                        *)
(***************************************************************************)
EXTENDS Startup

Members ==
  {"path", "source", "target", "content", "overwrite", "recursive", "maxBytes", "unknown"}

(* "decimal" is a whole number above 0 written as 1.0 or 1e2, "beyond" one *)
(* above the range of int64; "other" is an array, an object or any number  *)
(* that is in no class here.                                               *)
TextValues == {"empty", "blank", "text"}
BooleanValues == {"true", "false"}
IntegerValues == {"nonpositive", "within", "above"}   \* of serverMaxBytes
NoInt64 == {"decimal", "beyond"}
Values == TextValues \cup BooleanValues \cup IntegerValues \cup NoInt64 \cup {"null", "other"}

(* Of a member: the value that counts, which is the last; whether its name *)
(* is spelled as the schema has it; and the occurrences before it, with    *)
(* whether the same spelling comes again after them.                       *)
Occurrences == [value : Values, exact : BOOLEAN,
                earlier : SUBSET [value : Values, again : BOOLEAN]]
Once(value, exact) == [value |-> value, exact |-> exact, earlier |-> {}]

IsArguments(a) == DOMAIN a \subseteq Members /\ a \in [DOMAIN a -> Occurrences]
NoArguments == [m \in {} |-> Once("null", TRUE)]

-----------------------------------------------------------------------------
(* What tools/list advertises: the members, their values and those that    *)
(* must be there.  None allows additional members.                         *)
NonEmpty == {"blank", "text"}      \* minLength 1
AtLeastOne == {"within", "above"} \cup NoInt64   \* minimum 1, no maximum
Schema(members, required) == [members |-> members, required |-> required]

ListDirectorySchema == Schema([path |-> NonEmpty], {})
ReadFileSchema == Schema([path |-> NonEmpty, maxBytes |-> AtLeastOne], {"path"})
GetPathInfoSchema == Schema([path |-> NonEmpty], {"path"})
WriteFileSchema ==
  Schema([path |-> NonEmpty, content |-> TextValues, overwrite |-> BooleanValues], {"path"})
CreateDirectorySchema == Schema([path |-> NonEmpty], {"path"})
DeletePathSchema == Schema([path |-> NonEmpty, recursive |-> BooleanValues], {"path"})
CopyPathSchema ==
  Schema([source |-> NonEmpty, target |-> NonEmpty, overwrite |-> BooleanValues],
         {"source", "target"})
MovePathSchema ==
  Schema([source |-> NonEmpty, target |-> NonEmpty, overwrite |-> BooleanValues],
         {"source", "target"})

InputSchema(tool) ==
  CASE tool = "list_directory" -> ListDirectorySchema
    [] tool = "read_file" -> ReadFileSchema
    [] tool = "get_path_info" -> GetPathInfoSchema
    [] tool = "write_file" -> WriteFileSchema
    [] tool = "create_directory" -> CreateDirectorySchema
    [] tool = "delete_path" -> DeletePathSchema
    [] tool = "copy_path" -> CopyPathSchema
    [] tool = "move_path" -> MovePathSchema

Admits(schema, a) ==
  /\ schema.required \subseteq DOMAIN a
  /\ \A m \in DOMAIN a : /\ m \in DOMAIN schema.members /\ a[m].exact
                         /\ a[m].value \in schema.members[m] /\ a[m].earlier = {}

-----------------------------------------------------------------------------
(* decodeStrictArguments: no unknown member, in whatever spelling; every   *)
(* occurrence of the Go type of its field; and null at most where the map  *)
(* that is searched for nulls has a later value under the same spelling.   *)
Decodes(fields, a) ==
  \A m \in DOMAIN a :
    /\ m \in DOMAIN fields /\ a[m].value \in fields[m]
    /\ \A e \in a[m].earlier : e.value \in fields[m] \/ (e.value = "null" /\ e.again)

Field(a, m, zero) == IF m \in DOMAIN a THEN a[m].value ELSE zero
IsNonBlank(v) == v = "text"
Given(a, m) == IsNonBlank(Field(a, m, "empty"))
Flag(a, m) == Field(a, m, "false") = "true"

(* The call on the file system: its operation, its "overwrite" or          *)
(* "recursive", and for a read whether the caller's or the server's limit  *)
(* applies.                                                                *)
Call(op, flag, limit) == [op |-> op, flag |-> flag, limit |-> limit]
Simple(op) == Call(op, FALSE, "none")
InvalidArguments == Simple("invalid_arguments")    \* none is made

ReadOps == {"list", "read", "stat"}
WriteOps == {"write", "mkdir", "delete", "copy", "move"}
ToolOutcomes ==
  [op : ReadOps \cup WriteOps \cup {"invalid_arguments"}, flag : BOOLEAN,
   limit : {"none", "asked", "server"}]

(* The Execute of each tool up to its call. *)
ListDirectory(a) ==
  IF Decodes([path |-> TextValues], a) /\ ("path" \in DOMAIN a => Given(a, "path"))
  THEN Simple("list") ELSE InvalidArguments

ReadFile(a) ==
  IF /\ Decodes([path |-> TextValues, maxBytes |-> IntegerValues], a)
     /\ Given(a, "path") /\ Field(a, "maxBytes", "above") # "nonpositive"
  THEN Call("read", FALSE, IF Field(a, "maxBytes", "above") = "within"
                           THEN "asked" ELSE "server")
  ELSE InvalidArguments

GetPathInfo(a) ==
  IF Decodes([path |-> TextValues], a) /\ Given(a, "path")
  THEN Simple("stat") ELSE InvalidArguments

WriteFile(a) ==
  IF /\ Decodes([path |-> TextValues, content |-> TextValues, overwrite |-> BooleanValues], a)
     /\ Given(a, "path")
  THEN Call("write", Flag(a, "overwrite"), "none") ELSE InvalidArguments

CreateDirectory(a) ==
  IF Decodes([path |-> TextValues], a) /\ Given(a, "path")
  THEN Simple("mkdir") ELSE InvalidArguments

DeletePath(a) ==
  IF Decodes([path |-> TextValues, recursive |-> BooleanValues], a) /\ Given(a, "path")
  THEN Call("delete", Flag(a, "recursive"), "none") ELSE InvalidArguments

TwoPaths == [source |-> TextValues, target |-> TextValues, overwrite |-> BooleanValues]

CopyPath(a) ==
  IF Decodes(TwoPaths, a) /\ Given(a, "source") /\ Given(a, "target")
  THEN Call("copy", Flag(a, "overwrite"), "none") ELSE InvalidArguments

MovePath(a) ==
  IF Decodes(TwoPaths, a) /\ Given(a, "source") /\ Given(a, "target")
  THEN Call("move", Flag(a, "overwrite"), "none") ELSE InvalidArguments

Execute(tool, a) ==
  CASE tool = "list_directory" -> ListDirectory(a)
    [] tool = "read_file" -> ReadFile(a)
    [] tool = "get_path_info" -> GetPathInfo(a)
    [] tool = "write_file" -> WriteFile(a)
    [] tool = "create_directory" -> CreateDirectory(a)
    [] tool = "delete_path" -> DeletePath(a)
    [] tool = "copy_path" -> CopyPath(a)
    [] tool = "move_path" -> MovePath(a)
==============================================================================
