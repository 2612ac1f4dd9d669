------------------------------- MODULE FileOps --------------------------------
(***************************************************************************)
(* LocalFileSystem of internal/fs: the operations behind the file tools,   *)
(* one call at a time (the request loop is sequential), a system call per  *)
(* step, while another process may change the tree between any two of      *)
(* them.  The path guard's verdict on a path is one step.                  *)
(***************************************************************************)
EXTENDS FsContract, FiniteSetsExt

CONSTANTS
  CallSet,      \* the calls clients make
  Trees,        \* the views the run starts from
  MaxCalls,     \* bound on the calls
  MaxForeign,   \* bound on the changes the other process makes
  Faults        \* whether reads, writes and removals may fail half-way

(* The paths considered include every path that a move can create.  Moves  *)
(* to above or below the source never take place.                          *)
HasRoom(c) ==
  c.op = "move" =>
    \/ IsPrefix(c.path, c.target) \/ IsPrefix(c.target, c.path)
    \/ \A r \in Below(c.path) : c.target \o SubSeq(r, Len(c.path) + 1, Len(r)) \in Paths

ASSUME FileOpsAssumption ==
  /\ CallSet \subseteq AllCalls /\ CallSet # {} /\ \A c \in CallSet : HasRoom(c)
  /\ Trees \subseteq Views /\ \A v \in Trees : Sound(v) /\ v[Root] = Directory
  /\ MaxCalls \in Nat /\ MaxForeign \in Nat /\ Faults \in BOOLEAN

VARIABLES
  disk,
  call,      \* the call under way, or the last one
  pc,        \* the next system call of it, "idle" between calls
  seen,      \* what the call has found out so far
  result,    \* of the last call: its code, the length or the names it returned
  before,    \* history: the disk when the call began
  touched,   \* history: the paths others have changed since
  since,     \* history: those changed since the call last looked for good
  changed,   \* history: the call has changed the disk
  faulted,   \* history: a fault has hit the call
  again,     \* history: the call repeats a successful one, nobody in between
  calls,     \* history: number of calls
  foreign    \* history: number of changes others made

history == <<before, touched, since, changed, faulted, again, calls, foreign>>
vars == <<disk, call, pc, seen, result, history>>

Codes ==
  {"none", "ok", "existed", NotFound, Internal, "already_exists",
   "invalid_path", "unsupported_path_type", "limit_exceeded"}

(* What a call remembers: the stats of source and target (a single path is *)
(* the source), the inodes of the files it has open and the position in    *)
(* the one it writes, the entries a walk or a listing still has to visit,  *)
(* how many it has, and the names collected.                               *)
Unseen ==
  [src |-> NoStat, dst |-> NoStat, input |-> 0, file |-> 0, offset |-> 0,
   todo |-> << >>, count |-> 0, names |-> {}]
Open == {seen.input, seen.file}

Return(code, got, names) ==
  /\ pc' = "idle"
  /\ result' = [code |-> code, got |-> got, names |-> names]
  /\ seen' = Unseen
Fail(code) == Return(code, 0, {})
Succeed == Return("ok", 0, {})

Goto(l, s) == pc' = l /\ seen' = s /\ UNCHANGED result

(* A step that only looks, one after which `since' starts anew, and one    *)
(* that sets the disk to d.                                                *)
Looks == UNCHANGED <<disk, call, history>>
LooksAnew ==
  /\ since' = {}
  /\ UNCHANGED <<disk, call, before, touched, changed, faulted, again, calls, foreign>>
Sets(d) ==
  /\ disk' = d
  /\ changed' = TRUE
  /\ UNCHANGED <<call, before, touched, since, faulted, again, calls, foreign>>
Breaks == Faults /\ ~faulted /\ faulted' = TRUE

TypeOK ==
  /\ disk \in Disks /\ WellFormed(disk)
  /\ call \in CallSet
  /\ seen.src \in Stats /\ seen.dst \in Stats
  /\ seen.input \in Inodes \cup {0} /\ seen.file \in Inodes \cup {0}
  /\ pc = "idle" => seen = Unseen
  /\ result.code \in Codes /\ result.got \in Sizes /\ result.names \subseteq Paths

Init ==
  /\ \E v \in Trees : disk = DiskOf(v)
  /\ call = CHOOSE c \in CallSet : TRUE
  /\ pc = "idle" /\ seen = Unseen
  /\ result = [code |-> "none", got |-> 0, names |-> {}]
  /\ before = disk /\ touched = {} /\ since = {} /\ changed = FALSE /\ faulted = FALSE
  /\ again = FALSE /\ calls = 0 /\ foreign = 0

-----------------------------------------------------------------------------
(* Calls begin with the path guard: ResolveExisting for a path that must   *)
(* be there, ResolveForCreate for one that may be created.  The latter     *)
(* looks for an existing parent below the root and finds the path outside  *)
(* the root once the root itself is gone.                                  *)

First(c) ==
  CASE c.op \in {"write", "mkdir"} -> "create path"
    [] OTHER -> "existing path"

Begin(c) ==
  /\ pc = "idle" /\ calls < MaxCalls
  /\ call' = c /\ calls' = calls + 1
  /\ pc' = First(c)
  /\ again' = (c = call /\ result.code \in {"ok", "existed"} /\ touched = {})
  /\ before' = disk /\ touched' = {} /\ since' = {}
  /\ changed' = FALSE /\ faulted' = FALSE
  /\ UNCHANGED <<disk, seen, result, foreign>>

AfterResolve(c) ==
  CASE c.op \in {"copy", "move"} -> "create path"
    [] c.op = "list" -> "read names"
    [] OTHER -> "stat source"

ResolveExisting ==
  /\ pc = "existing path"
  /\ IF Exists(disk, call.path) THEN Goto(AfterResolve(call), seen)
                                ELSE Fail(Missing(disk, call.path))
  /\ Looks

ToCreate == IF call.op \in {"copy", "move"} THEN call.target ELSE call.path

(* Move compares the two paths at once, Mkdir its path with the root. *)
AfterResolveForCreate ==
  \/ call.op = "write" /\ call.size > MaxWriteBytes /\ Fail("limit_exceeded")
  \/ call.op = "write" /\ call.size <= MaxWriteBytes /\ Goto("stat source", seen)
  \/ call.op = "mkdir" /\ call.path = Root /\ Fail("existed")
  \/ call.op = "mkdir" /\ call.path # Root /\ Goto("stat parents", seen)
  \/ call.op = "copy" /\ Goto("stat source", seen)
  \/ call.op = "move" /\ call.path = call.target /\ Fail("invalid_path")
  \/ call.op = "move" /\ call.path # call.target /\ Goto("stat source", seen)

ResolveForCreate ==
  /\ pc = "create path"
  /\ IF Exists(disk, ToCreate) THEN AfterResolveForCreate
     ELSE IF Missing(disk, ToCreate) = Internal THEN Fail(Internal)
     ELSE IF ~Exists(disk, Root) THEN Fail("invalid_path")
     ELSE AfterResolveForCreate
  /\ Looks

-----------------------------------------------------------------------------
(* The first os.Stat of a path or source, and what each operation makes    *)
(* of it.                                                                  *)

Source == Stat(disk, call.path)
SawSource == [seen EXCEPT !.src = Source]

WriteAfterStat ==
  /\ call.op = "write"
  /\ IF Source.dir THEN Fail("unsupported_path_type")
     ELSE IF Exists(disk, call.path) /\ ~call.flag THEN Fail("already_exists")
     ELSE IF ~Exists(disk, call.path) /\ Missing(disk, call.path) = Internal
     THEN Fail(Internal)
     ELSE Goto("open target", SawSource)

(* Every other operation needs the source to be there. *)
NeedsSource ==
  /\ call.op # "write"
  /\ ~Exists(disk, call.path)
  /\ Fail(Missing(disk, call.path))

DeleteAfterStat ==
  /\ call.op = "delete" /\ Exists(disk, call.path)
  /\ IF ~Source.dir THEN Goto("remove", SawSource)
     ELSE IF call.flag
     THEN Goto("lstat root of walk", SawSource)
     ELSE Goto("read names", SawSource)

CopyAfterStat ==
  /\ call.op = "copy" /\ Exists(disk, call.path)
  /\ IF Source.dir THEN Fail("unsupported_path_type")
     ELSE IF Source.size > MaxCopyBytes THEN Fail("limit_exceeded")
     ELSE Goto("stat target", SawSource)

MoveAfterStat ==
  /\ call.op = "move" /\ Exists(disk, call.path)
  /\ Goto("stat target", SawSource)

ReadAfterStat ==
  /\ call.op = "read" /\ Exists(disk, call.path)
  /\ IF Source.dir THEN Fail("unsupported_path_type")
     ELSE IF call.size = 0 \/ Source.size > call.size THEN Fail("limit_exceeded")
     ELSE Goto("read file", SawSource)

StatOnly ==
  /\ call.op = "stat" /\ Exists(disk, call.path)
  /\ Return("ok", Source.size, {})

StatSource ==
  /\ pc = "stat source"
  /\ \/ WriteAfterStat \/ NeedsSource \/ DeleteAfterStat \/ CopyAfterStat
     \/ MoveAfterStat \/ ReadAfterStat \/ StatOnly
  /\ LooksAnew

-----------------------------------------------------------------------------
(* Write and Copy open their target with O_CREATE, and O_TRUNC or O_EXCL.  *)

Target == Stat(disk, ToCreate)
IsOpened(i) == [seen EXCEPT !.file = i]

(* ensureTargetPolicy *)
CopyStatTarget ==
  /\ pc = "stat target" /\ call.op = "copy"
  /\ IF Exists(disk, call.target) /\ ~call.flag THEN Fail("already_exists")
     ELSE IF Target.dir THEN Fail("unsupported_path_type")
     ELSE IF ~Exists(disk, call.target) /\ Missing(disk, call.target) = Internal
     THEN Fail(Internal)
     ELSE Goto("open source", seen)
  /\ Looks

(* A directory can be opened, but not read. *)
OpenSource ==
  /\ pc = "open source"
  /\ IF Exists(disk, call.path)
     THEN Goto("open target", [seen EXCEPT !.input = Source.ino])
     ELSE Fail(Missing(disk, call.path))
  /\ Looks

AfterOpen == IF call.op = "write" THEN "write content" ELSE "copy content"

CreateTarget ==
  LET i == FreeInode(disk, Open)
  IN /\ CanCreate(disk, ToCreate)
     /\ Sets(Create(disk, ToCreate, i, FALSE))
     /\ Goto(AfterOpen, IsOpened(i))

(* Mutant: an existing target is appended to. *)
OpenExisting_Append ==
  \/ ~call.flag /\ Exists(disk, ToCreate) /\ Fail("already_exists") /\ Looks
  \/ call.flag /\ IsDir(disk, ToCreate) /\ Fail(Internal) /\ Looks
  \/ /\ call.flag /\ IsFile(disk, ToCreate)
     /\ Goto(AfterOpen, [IsOpened(Target.ino) EXCEPT !.offset = Target.size]) /\ Looks

OpenExisting ==
  \/ ~call.flag /\ Exists(disk, ToCreate) /\ Fail("already_exists") /\ Looks
  \/ call.flag /\ IsDir(disk, ToCreate) /\ Fail(Internal) /\ Looks
  \/ /\ call.flag /\ IsFile(disk, ToCreate)
     /\ Sets(Store(disk, Target.ino, 0)) /\ Goto(AfterOpen, IsOpened(Target.ino))

OpenTarget ==
  /\ pc = "open target"
  /\ \/ CreateTarget
     \/ OpenExisting
     \/ /\ ~Exists(disk, ToCreate) /\ ~CanCreate(disk, ToCreate)
        /\ Fail(Missing(disk, ToCreate)) /\ Looks

(* n bytes written at the position of the open file; what others have put  *)
(* behind them meanwhile stays.  MaxSize cuts off what is longer.          *)
Written(n) ==
  Store(disk, seen.file, Min({MaxSize, Max({disk.size[seen.file], seen.offset + n})}))

WriteContent ==
  /\ pc = "write content"
  /\ Sets(Written(call.size)) /\ Succeed

WriteContentFails ==
  /\ pc = "write content" /\ Breaks
  /\ \E n \in Sizes : n < call.size /\ disk' = Written(n)
  /\ changed' = TRUE
  /\ Fail(Internal)
  /\ UNCHANGED <<call, before, touched, since, again, calls, foreign>>

CopyContent ==
  /\ pc = "copy content"
  /\ IF seen.input \in disk.dirs THEN Looks /\ Fail(Internal)
     ELSE Sets(Written(disk.size[seen.input])) /\ Succeed

CopyContentFails ==
  /\ pc = "copy content" /\ Breaks
  /\ \E n \in Sizes : n <= disk.size[seen.input] /\ disk' = Written(n)
  /\ changed' = TRUE
  /\ Fail(Internal)
  /\ UNCHANGED <<call, before, touched, since, again, calls, foreign>>

ReadFile ==
  /\ pc = "read file"
  /\ IF ~Exists(disk, call.path) THEN Fail(Missing(disk, call.path))
     ELSE IF Source.dir THEN Fail(Internal)
     ELSE Return("ok", Source.size, {})
  /\ Looks

-----------------------------------------------------------------------------
(* Mkdir: os.MkdirAll looks upwards for a parent that exists, creates the  *)
(* missing ones downwards, then the leaf is made.                          *)

Entry(p) == [path |-> p, dir |-> TRUE]
Lowest == IF seen.todo = << >> THEN Front(call.path) ELSE Front(Head(seen.todo).path)

StatParents ==
  /\ pc = "stat parents"
  /\ IF IsFile(disk, Lowest) THEN Fail(Internal)
     ELSE IF ~Exists(disk, Lowest)
     THEN Goto("stat parents", [seen EXCEPT !.todo = <<Entry(Lowest)>> \o @])
     ELSE Goto(IF seen.todo = << >> THEN "make leaf" ELSE "make parent", seen)
  /\ Looks

MakeParent ==
  LET p == Head(seen.todo).path
      Onward == Goto(IF Len(seen.todo) = 1 THEN "make leaf" ELSE "make parent",
                     [seen EXCEPT !.todo = Tail(@)])
  IN /\ pc = "make parent"
     /\ \/ /\ CanCreate(disk, p)
           /\ Sets(Create(disk, p, FreeInode(disk, Open), TRUE)) /\ Onward
        \/ IsDir(disk, p) /\ Onward /\ Looks
        \/ IsFile(disk, p) /\ Fail("already_exists") /\ Looks
        \/ /\ ~Exists(disk, p) /\ ~CanCreate(disk, p)
           /\ Fail(Missing(disk, p)) /\ Looks

MakeLeaf ==
  /\ pc = "make leaf"
  /\ \/ /\ CanCreate(disk, call.path)
        /\ Sets(Create(disk, call.path, FreeInode(disk, Open), TRUE)) /\ Succeed
     \/ Exists(disk, call.path) /\ Goto("stat leaf", seen) /\ Looks
     \/ /\ ~Exists(disk, call.path) /\ ~CanCreate(disk, call.path)
        /\ Fail(Missing(disk, call.path)) /\ Looks

StatLeaf ==
  /\ pc = "stat leaf"
  /\ IF ~Exists(disk, call.path) THEN Fail(Missing(disk, call.path))
     ELSE IF Source.dir THEN Fail("existed") ELSE Fail("unsupported_path_type")
  /\ Looks

-----------------------------------------------------------------------------
(* os.ReadDir, for a Delete that is not recursive and for List, which then *)
(* looks at each entry again (AllowListEntry and Info).                    *)

Listed(p) == [path |-> p, dir |-> IsDir(disk, p)]
Snapshot(p) ==
  LET names == SetToSeq(Children(disk, p))
  IN [i \in 1..Len(names) |-> Listed(names[i])]

ReadNames ==
  /\ pc = "read names"
  /\ IF ~Exists(disk, call.path) THEN Fail(Missing(disk, call.path))
     ELSE IF ~Source.dir THEN Fail(Internal)
     ELSE IF call.op = "delete"
     THEN (IF Snapshot(call.path) = << >> THEN Goto("remove", seen)
                                          ELSE Fail("unsupported_path_type"))
     ELSE Goto("list entry", [seen EXCEPT !.todo = Snapshot(call.path)])
  /\ Looks

(* Mutant: the listing ends at an entry that is gone. *)
ListEntry_Partial ==
  /\ pc = "list entry"
  /\ IF seen.todo = << >> \/ ~Exists(disk, Head(seen.todo).path)
     THEN Return("ok", 0, seen.names)
     ELSE IF Cardinality(seen.names) >= MaxListEntries THEN Fail("limit_exceeded")
     ELSE Goto("list entry", [seen EXCEPT !.todo = Tail(@),
                                          !.names = @ \cup {Head(seen.todo).path}])
  /\ Looks

ListEntry ==
  /\ pc = "list entry"
  /\ IF seen.todo = << >> THEN Return("ok", 0, seen.names)
     ELSE LET p == Head(seen.todo).path IN
       IF ~Exists(disk, p) THEN Fail(Missing(disk, p))
       ELSE IF Cardinality(seen.names) >= MaxListEntries THEN Fail("limit_exceeded")
       ELSE Goto("list entry", [seen EXCEPT !.todo = Tail(@), !.names = @ \cup {p}])
  /\ Looks

(* os.Remove: unlink, or rmdir of an empty directory; ENOTEMPTY counts as  *)
(* an error of existence.                                                  *)
RemovePath ==
  /\ pc = "remove"
  /\ \/ ~Exists(disk, call.path) /\ Fail(Missing(disk, call.path)) /\ Looks
     \/ /\ IsDir(disk, call.path) /\ ~IsEmptyDir(disk, call.path)
        /\ Fail("already_exists") /\ Looks
     \/ /\ IsFile(disk, call.path) \/ IsEmptyDir(disk, call.path)
        /\ Sets(Unlink(disk, call.path)) /\ Succeed

-----------------------------------------------------------------------------
(* ensureRecursiveDeleteWithinLimit: filepath.WalkDir counts the entries   *)
(* below the path, reading a directory when it comes to it.                *)

WalkRoot ==
  /\ pc = "lstat root of walk"
  /\ IF ~Exists(disk, call.path) THEN Fail(Missing(disk, call.path))
     ELSE Goto("walk", [seen EXCEPT !.todo = <<Listed(call.path)>>])
  /\ Looks

(* Mutant: the limit is compared before the entry is counted. *)
OverDeleteLimit_Late(n) == n > MaxDeleteEntries + 1
OverDeleteLimit(n) == n > MaxDeleteEntries

Walk ==
  LET entry == Head(seen.todo)
      n == IF entry.path = call.path THEN 0 ELSE seen.count + 1
      On(more) == Goto("walk", [seen EXCEPT !.todo = more \o Tail(@), !.count = n])
  IN /\ pc = "walk"
     /\ IF seen.todo = << >> THEN Goto("remove all", seen)
        ELSE IF OverDeleteLimit(n) THEN Fail("limit_exceeded")
        ELSE IF ~entry.dir THEN On(<< >>)
        ELSE IF ~Exists(disk, entry.path) THEN Fail(Missing(disk, entry.path))
        ELSE IF ~IsDir(disk, entry.path) THEN Fail(Internal)
        ELSE On(Snapshot(entry.path))
     /\ Looks

(* os.RemoveAll takes away one file or empty directory after the other and *)
(* ends with the path itself, or finds that it is gone.                    *)
Removable(p) == IsFile(disk, p) \/ IsEmptyDir(disk, p)

(* Mutant: a directory goes before its entries. *)
RemoveAllStep_TopDown ==
  /\ pc = "remove all"
  /\ Exists(disk, call.path)
  /\ Sets(Unlink(disk, call.path)) /\ Succeed

RemoveAllStep ==
  /\ pc = "remove all"
  /\ \E p \in Below(call.path) :
       /\ Removable(p)
       /\ Sets(Unlink(disk, p))
       /\ IF p = call.path THEN Succeed ELSE Goto("remove all", seen)

(* Mutant: a path that is gone is waited for. *)
RemoveAllGone_Waits ==
  /\ pc = "remove all"
  /\ ~Exists(disk, call.path) /\ Missing(disk, call.path) = Internal
  /\ Fail(Internal)
  /\ Looks

RemoveAllGone ==
  /\ pc = "remove all"
  /\ ~Exists(disk, call.path)
  /\ IF Missing(disk, call.path) = NotFound THEN Succeed ELSE Fail(Internal)
  /\ Looks

(* An entry that others have put into a directory after its names were     *)
(* read keeps the directories above it.                                    *)
RemoveAllRaced ==
  /\ pc = "remove all"
  /\ Children(disk, call.path) # {}
  /\ \A q \in Below(call.path) : Exists(disk, q) =>
       \E r \in touched : Exists(disk, r) /\ (r \in Below(q) \/ q \in Below(r))
  /\ Fail("already_exists")
  /\ Looks

RemoveAllFails ==
  /\ pc = "remove all" /\ Breaks
  /\ Exists(disk, call.path)
  /\ Fail(Internal)
  /\ UNCHANGED <<disk, call, before, touched, since, changed, again, calls, foreign>>

-----------------------------------------------------------------------------
(* Move, after the first look at its source. *)

MoveStatTarget ==
  /\ pc = "stat target" /\ call.op = "move"
  /\ IF ~Exists(disk, call.target) /\ Missing(disk, call.target) = Internal
     THEN Fail(Internal)
     ELSE IF Exists(disk, call.target) /\ Target.ino = seen.src.ino
     THEN Fail("invalid_path")
     ELSE Goto("compare", [seen EXCEPT !.dst = Target])
  /\ Looks

(* A path that is looked up once more on the way: nothing is learnt but    *)
(* that it is still there, or that no file stands above it.                *)
StillThere(p) == Exists(disk, p)
StillReachable(p) == Exists(disk, p) \/ Missing(disk, p) = NotFound

(* filepath.EvalSymlinks of the source, effectivePathForComparison of the  *)
(* target and isStrictDescendant of the two                                *)
MoveCompare ==
  /\ pc = "compare"
  /\ IF ~StillThere(call.path) THEN Fail(Missing(disk, call.path))
     ELSE IF ~StillReachable(call.target) THEN Fail(Internal)
     ELSE IF seen.src.dir /\ IsStrictPrefix(call.path, call.target)
     THEN Fail("invalid_path")
     ELSE Goto("same volume", seen)
  /\ Looks

(* Mutant: overwrite is not asked for. *)
MovePolicy_Overwrite ==
  /\ pc = "same volume"
  /\ Goto("revalidate source", seen)
  /\ Looks

(* pathsOnSameVolume, always true of one tree, and the policy *)
MovePolicy ==
  /\ pc = "same volume"
  /\ IF ~StillThere(call.path) THEN Fail(Missing(disk, call.path))
     ELSE IF ~StillReachable(call.target) THEN Fail(Internal)
     ELSE IF seen.dst # NoStat /\ ~call.flag THEN Fail("already_exists")
     ELSE IF seen.dst # NoStat /\ (seen.src.dir \/ seen.dst.dir)
     THEN Fail("unsupported_path_type")
     ELSE Goto("revalidate source", seen)
  /\ Looks

(* revalidateMoveState *)
RevalidateSource ==
  /\ pc = "revalidate source"
  /\ IF ~Exists(disk, call.path) THEN Fail(Missing(disk, call.path))
     ELSE IF ~SameEntry(Source, seen.src) THEN Fail("invalid_path")
     ELSE Goto("revalidate target", seen)
  /\ Looks

(* Mutant: the target is not looked at again. *)
TargetUnchanged_Unchecked == TRUE

TargetUnchanged ==
  IF seen.dst = NoStat THEN ~Exists(disk, call.target)
  ELSE SameEntry(Target, seen.dst) /\ Target.ino # seen.src.ino

RevalidateTarget ==
  /\ pc = "revalidate target"
  /\ IF ~StillReachable(call.target) THEN Fail(Internal)
     ELSE IF TargetUnchanged THEN Goto("lstat target", seen)
     ELSE Fail("invalid_path")
  /\ LooksAnew

(* os.Rename refuses a directory as target before it calls rename(2). *)
RenameLooks ==
  /\ pc = "lstat target"
  /\ IF ~Target.dir THEN Goto("rename", seen)
     ELSE IF Exists(disk, call.path) THEN Fail("already_exists")
     ELSE Fail(Missing(disk, call.path))
  /\ Looks

(* rename(2) replaces a file by a file, or an empty directory by a         *)
(* directory.                                                              *)
CanRename(p, q) ==
  /\ Exists(disk, p) /\ ~IsPrefix(p, q)
  /\ \/ CanCreate(disk, q)
     \/ IsFile(disk, p) /\ IsFile(disk, q)
     \/ IsDir(disk, p) /\ IsEmptyDir(disk, q)

RenameError ==
  IF ~Exists(disk, call.path) THEN Missing(disk, call.path)
  ELSE IF ~Exists(disk, call.target) THEN Missing(disk, call.target)
  ELSE IF IsDir(disk, call.path) /\ IsDir(disk, call.target) THEN "already_exists"
  ELSE Internal

MoveRename ==
  /\ pc = "rename"
  /\ IF CanRename(call.path, call.target)
     THEN Sets(Rename(disk, call.path, call.target)) /\ Succeed
     ELSE Fail(RenameError) /\ Looks

-----------------------------------------------------------------------------
Work ==
  \/ ResolveExisting \/ ResolveForCreate \/ StatSource
  \/ CopyStatTarget \/ OpenSource \/ OpenTarget
  \/ WriteContent \/ CopyContent \/ ReadFile
  \/ StatParents \/ MakeParent \/ MakeLeaf \/ StatLeaf
  \/ ReadNames \/ ListEntry \/ RemovePath
  \/ WalkRoot \/ Walk \/ RemoveAllStep \/ RemoveAllGone \/ RemoveAllRaced
  \/ MoveStatTarget \/ MoveCompare \/ MovePolicy
  \/ RevalidateSource \/ RevalidateTarget \/ RenameLooks \/ MoveRename

Break == WriteContentFails \/ CopyContentFails \/ RemoveAllFails

(* The other process, while a call is under way: between two calls its     *)
(* change would only make another tree to start from.  It leaves the root  *)
(* alone.                                                                  *)
Interfere(ps, d) ==
  /\ pc # "idle" /\ foreign < MaxForeign
  /\ disk' = d
  /\ touched' = touched \cup ps /\ since' = since \cup ps
  /\ foreign' = foreign + 1
  /\ UNCHANGED <<call, pc, seen, result, before, changed, faulted, again, calls>>

ForeignCreate(p) ==
  /\ CanCreate(disk, p)
  /\ LET i == FreeInode(disk, Open) IN
       \/ Interfere({p}, Create(disk, p, i, TRUE))
       \/ \E n \in Sizes : Interfere({p}, Store(Create(disk, p, i, FALSE), i, n))
ForeignRemove(p) ==
  /\ p # Root /\ Removable(p)
  /\ Interfere({p}, Unlink(disk, p))
ForeignWrite(p) ==
  /\ IsFile(disk, p)
  /\ \E n \in Sizes : Interfere({p}, Store(disk, disk.tree[p], n))
ForeignRename(p, q) ==
  /\ CanRename(p, q)
  /\ \A r \in Below(p) : Exists(disk, r) => q \o SubSeq(r, Len(p) + 1, Len(r)) \in Paths
  /\ Interfere(Below(p) \cup Below(q), Rename(disk, p, q))

Others ==
  \/ \E p \in Paths : ForeignCreate(p) \/ ForeignRemove(p) \/ ForeignWrite(p)
  \/ \E p, q \in Paths : ForeignRename(p, q)

Done == pc = "idle" /\ calls = MaxCalls /\ UNCHANGED vars

Next == (\E c \in CallSet : Begin(c)) \/ Work \/ Break \/ Others \/ Done

(* A call that has begun goes on; nobody owes another call or a fault. *)
Spec == Init /\ [][Next]_vars /\ WF_vars(Work)

-----------------------------------------------------------------------------
(* Properties. *)

Idle == pc = "idle" /\ calls > 0
OK == result.code \in {"ok", "existed"}
Quiet == touched = {} /\ ~faulted

(* Alone and without faults, a call acts as if it were one step of the     *)
(* contract: it succeeds exactly when it may, has then its whole effect,   *)
(* and none at all otherwise (all of internal/fs).  A file copied onto     *)
(* itself is left out: see CopyKeepsSource.                                *)
ActsAtOnce ==
  /\ TypeOK
  /\ (Idle /\ Quiet /\ (call.op = "copy" => call.path # call.target)) =>
       /\ OK <=> Permitted(View(before), call)
       /\ View(disk) = IF OK THEN Effect(View(before), call) ELSE View(before)

(* What stood in the tree when a call began, and nobody else has touched,  *)
(* is there at every moment of the call, with the same identity and        *)
(* content, unless the call names it as what it takes away: also when      *)
(* others act in between, when the call fails, and so if the server is     *)
(* killed at any point.                                                    *)
Untouched(p) == Exists(before, p) /\ p \notin touched
Kept(p) ==
  /\ disk.tree[p] = before.tree[p]
  /\ IsDir(disk, p) <=> IsDir(before, p)
  /\ disk.size[disk.tree[p]] = before.size[before.tree[p]]
UntouchedSurvive ==
  calls > 0 => \A p \in Paths \ Footprint(call) : Untouched(p) => Kept(p)

(* Nothing appears in the tree but what the call names and what others     *)
(* have touched: the file it writes, what it moves, the directory to be    *)
(* made and its parents.  A Mkdir that fails may leave parents behind, but *)
(* the directory itself is there only when it has succeeded (write.go:73). *)
NothingElseAppears ==
  calls > 0 =>
    \A p \in Paths : (Exists(disk, p) /\ ~Exists(before, p) /\ p \notin touched) =>
      /\ p \in Product(call)
      /\ (call.op = "mkdir" /\ p = call.path) => (pc = "idle" /\ OK)

(* What nobody else touches is changed only where the call names it.       *)
ChangesOnlyNamed == UntouchedSurvive /\ NothingElseAppears

(* Without overwrite, Write, Copy and Mkdir never change or replace a      *)
(* file, not even one that others create while the call runs; they write   *)
(* only to the file they have created themselves (security.md:119,133 and  *)
(* O_EXCL).                                                                *)
NoClobber ==
  [][ (foreign' = foreign /\ ~call.flag /\ call.op \in {"write", "copy", "mkdir"})
      => \A p \in Paths : (Exists(disk, p) /\ disk.tree[p] # seen.file) =>
           /\ disk'.tree[p] = disk.tree[p]
           /\ disk'.size[disk.tree[p]] = disk.size[disk.tree[p]] ]_vars

(* A Delete that is not recursive takes away at most the path it names,    *)
(* and never a directory that has entries at that moment                   *)
(* (security.md:123), whatever others put there since it was looked at.    *)
DeleteKeepsContents ==
  [][ (foreign' = foreign /\ call.op = "delete" /\ ~call.flag)
      => \A p \in Paths : (Exists(disk, p) /\ ~Exists(disk', p)) =>
           p = call.path /\ Children(disk, p) = {} ]_vars

(* A recursive Delete takes away no more of what was there when it began   *)
(* and nobody else has touched than MaxDeleteEntries, besides the path     *)
(* itself (security.md:215), although it counts before it removes.  What   *)
(* others add after the count is removed too: nothing bounds that.         *)
DeleteWithinLimit ==
  call.op = "delete" =>
    Cardinality({p \in Below(call.path) \ {call.path} :
                   Untouched(p) /\ ~Exists(disk, p)}) <= MaxDeleteEntries

(* A Move takes nothing away but what stands at its target: the file it    *)
(* has been told to overwrite and has found there twice, or something      *)
(* without contents that others have put there since its second look       *)
(* (revalidateMoveState; security.md:127-129, tools.md:208).  What it      *)
(* moves is never lost.                                                    *)
MoveLosesAtMostTarget ==
  [][ (foreign' = foreign /\ call.op = "move")
      => \A p \in Paths :
           LET i == disk.tree[p] IN
           (i # 0 /\ \A q \in Paths : disk'.tree[q] # i) =>
             /\ p = call.target /\ Children(disk, p) = {}
             /\ \/ call.flag /\ IsFile(disk, p) /\ i = seen.dst.ino
                \/ p \in since ]_vars

(* A failure reported as a typed tool error has changed nothing, except    *)
(* for parents that Mkdir has made and entries that a recursive Delete has *)
(* removed before others got in the way (mapFilesystemError; docs/tools.md *)
(* "Machine-readable tool errors").                                        *)
TypedErrorsChangeNothing ==
  (/\ Idle /\ ~OK /\ result.code # Internal
   /\ call.op # "mkdir" /\ ~(call.op = "delete" /\ call.flag)) => ~changed

(* A call that has just succeeded can be repeated and changes nothing more *)
(* (tools.md:44-53 promises it for mkdir, delete and move).                *)
RepeatHarmless ==
  (Idle /\ again /\ Quiet) => View(disk) = View(before)

(* A listing that succeeds names every entry that was there throughout and *)
(* none that was never there (List looks at the entries one by one).       *)
ListingTrue ==
  (Idle /\ call.op = "list" /\ OK) =>
    /\ \A p \in Children(before, call.path) :
         (p \notin touched /\ call.path \notin touched) => p \in result.names
    /\ \A p \in result.names :
         p \in Children(before, call.path) \/ p \in touched
    /\ Cardinality(result.names) <= MaxListEntries

(* Every call returns (the walks of MkdirAll, WalkDir and RemoveAll). *)
CallsFinish == pc # "idle" ~> pc = "idle"

(* A read returns and a copy produces more than its limit only if others   *)
(* have changed one of the files between the look at the size and the end  *)
(* of the call (security.md:209,214 state the limits; os.ReadFile and      *)
(* io.Copy do not know them).                                              *)
LimitsHold ==
  (Idle /\ OK /\ {call.path, call.target} \cap since = {}) =>
    /\ call.op = "read" => result.got <= call.size
    /\ call.op = "copy" => Stat(disk, call.target).size <= MaxCopyBytes

(* What a caller is told is true of the tree, also when others act in      *)
(* between: a typed error means that nothing was changed, a listing names  *)
(* what was there (mapFilesystemError, List).                              *)
ReportsTrue == TypedErrorsChangeNothing /\ ListingTrue

(* The limits bound what a call does and not only what it was asked for,   *)
(* as far as others leave the files and entries alone.                     *)
LimitsRespected == LimitsHold /\ DeleteWithinLimit

(* At every step of every call: what it takes away or overwrites is at     *)
(* most what its caller has named and allowed it to.                       *)
DestroysAtMost == NoClobber /\ DeleteKeepsContents /\ MoveLosesAtMostTarget

(* tool_copy_path.go:37 says that a file is copied: what was to be copied  *)
(* is still there when the copy has succeeded.                             *)
CopyKeepsSource ==
  (Idle /\ call.op = "copy" /\ OK /\ Quiet) =>
    View(disk)[call.path] = View(before)[call.path]
=============================================================================
