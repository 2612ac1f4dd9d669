------------------------------ MODULE FsContract ------------------------------
(***************************************************************************)
(* What the file tools promise when nobody else touches the tree and no    *)
(* system call fails: whether a call succeeds on a given tree, and the     *)
(* tree it leaves.  A call that does not succeed leaves the tree alone.    *)
(* FileOps is checked against it.                                          *)
(***************************************************************************)
EXTENDS Disk

CONSTANTS
  MaxWriteBytes, MaxCopyBytes,       \* fs.Limits
  MaxListEntries, MaxDeleteEntries

ASSUME LimitsAssumption ==
  {MaxWriteBytes, MaxCopyBytes, MaxListEntries, MaxDeleteEntries} \subseteq Nat

(* A call: the tool; its path or source; its target; its "overwrite" or    *)
(* "recursive"; the size of its content, or its maxBytes.                  *)
Ops == {"write", "mkdir", "delete", "copy", "move", "read", "list", "stat"}
AllCalls ==
  [op : Ops, path : Paths, target : Paths, flag : BOOLEAN, size : Sizes]

AsFile(x) == x >= File(0)
Inside(v, p) == {q \in Below(p) \ {p} : v[q] # Nothing}
Entries(v, p) == {q \in Inside(v, p) : Len(q) = Len(p) + 1}

(* A file can be put at p, over a file that is there only if force is.     *)
CanPut(v, p, force) ==
  /\ p # Root /\ v[Front(p)] = Directory
  /\ v[p] = Nothing \/ (force /\ AsFile(v[p]))

Permitted(v, c) ==
  \/ c.op = "write" /\ c.size <= MaxWriteBytes /\ CanPut(v, c.path, c.flag)
  \/ /\ c.op = "mkdir" /\ v[Root] = Directory
     /\ \A q \in Above(c.path) \cup {c.path} : ~AsFile(v[q])
  \/ /\ c.op = "delete" /\ v[c.path] # Nothing
     /\ Cardinality(Inside(v, c.path)) <= (IF c.flag THEN MaxDeleteEntries ELSE 0)
  \/ /\ c.op = "copy"
     /\ AsFile(v[c.path]) /\ v[c.path] <= File(MaxCopyBytes)
     /\ CanPut(v, c.target, c.flag)
  \/ /\ c.op = "move" /\ v[c.path] # Nothing
     /\ c.target \notin Below(c.path)
     /\ CanPut(v, c.target, c.flag /\ v[c.path] # Directory)
  \/ c.op = "read" /\ c.size # 0 /\ AsFile(v[c.path]) /\ v[c.path] <= File(c.size)
  \/ /\ c.op = "list" /\ v[c.path] = Directory
     /\ Cardinality(Entries(v, c.path)) <= MaxListEntries
  \/ c.op = "stat" /\ v[c.path] # Nothing

(* Where the entry that a move leaves at r came from. *)
Origin(c, r) == c.path \o SubSeq(r, Len(c.target) + 1, Len(r))

Effect(v, c) ==
  [p \in Paths |->
    IF c.op = "write" /\ p = c.path THEN File(c.size)
    ELSE IF c.op = "mkdir" /\ c.path \in Below(p) THEN Directory
    ELSE IF c.op = "delete" /\ p \in Below(c.path) THEN Nothing
    ELSE IF c.op = "copy" /\ p = c.target THEN v[c.path]
    ELSE IF c.op = "move" /\ p \in Below(c.target)
         THEN (IF Origin(c, p) \in Paths THEN v[Origin(c, p)] ELSE Nothing)
    ELSE IF c.op = "move" /\ p \in Below(c.path) THEN Nothing
    ELSE v[p]]

(* The paths a call may take something away from. *)
Footprint(c) ==
  IF c.op = "write" /\ c.flag THEN {c.path}
  ELSE IF c.op = "delete" THEN (IF c.flag THEN Below(c.path) ELSE {c.path})
  ELSE IF c.op = "copy" /\ c.flag THEN {c.target}
  ELSE IF c.op = "move"
       THEN Below(c.path) \cup (IF c.flag THEN {c.target} ELSE {})
  ELSE {}

(* The paths at which a call may make something appear. *)
Product(c) ==
  CASE c.op = "mkdir" -> {p \in Paths : c.path \in Below(p)}
    [] c.op = "write" -> {c.path}
    [] c.op = "copy" -> {c.target}
    [] c.op = "move" -> Below(c.target)
    [] OTHER -> {}
=============================================================================
