--------------------------------- MODULE Disk ---------------------------------
(***************************************************************************)
(* The directory tree below the configured root, as the system calls that  *)
(* internal/fs makes see and change it: os.Stat, os.Lstat, open(2),        *)
(* mkdir(2), unlink(2), rmdir(2) and rename(2).                            *)
(*                                                                         *)
(* A disk maps each path to the inode linked there, 0 for none; of a       *)
(* file's content only its size is kept.  An inode that is neither linked  *)
(* nor open is free and may be used next, so that a file that is removed   *)
(* and created again may have the identity it had before.  Links are not   *)
(* modelled.                                                               *)
(***************************************************************************)
EXTENDS Integers, FiniteSets, Sequences, SequencesExt

CONSTANTS
  Paths,     \* the paths considered, << >> being the root
  MaxSize    \* bound on the size of a file

ASSUME DiskAssumption ==
  /\ IsFiniteSet(Paths) /\ Paths \subseteq Seq(STRING) /\ << >> \in Paths
  /\ \A p \in Paths : \A n \in 0..Len(p) : SubSeq(p, 1, n) \in Paths
  /\ MaxSize \in Nat

Root == << >>
Sizes == 0..MaxSize

(* One for each path, and one for each of two open files. *)
Inodes == 1..(Cardinality(Paths) + 2)

Disks ==
  [tree : [Paths -> Inodes \cup {0}], dirs : SUBSET Inodes, size : [Inodes -> Sizes]]

Exists(d, p) == d.tree[p] # 0
IsDir(d, p) == d.tree[p] \in d.dirs
IsFile(d, p) == Exists(d, p) /\ ~IsDir(d, p)

Below(p) == {q \in Paths : IsPrefix(p, q)}
Above(p) == {q \in Paths : IsStrictPrefix(q, p)}
Children(d, p) == {q \in Below(p) : Len(q) = Len(p) + 1 /\ Exists(d, q)}
IsEmptyDir(d, p) == IsDir(d, p) /\ Children(d, p) = {}

WellFormed(d) ==
  /\ \A p \in Paths : Exists(d, p) => \A q \in Above(p) : IsDir(d, q)
  /\ \A p, q \in Paths : Exists(d, p) /\ d.tree[p] = d.tree[q] => p = q
  /\ d.dirs \subseteq {d.tree[p] : p \in Paths}

-----------------------------------------------------------------------------
(* What a system call that takes a path reports when there is nothing to   *)
(* be found there: ENOTDIR if a file stands on the way, ENOENT otherwise.  *)
(* classifyFilesystemError has no category for ENOTDIR and its like, which *)
(* become the protocol's internal error.                                   *)
NotFound == "not_found"
Internal == "internal"
Missing(d, p) == IF \E q \in Above(p) : IsFile(d, q) THEN Internal ELSE NotFound

NoStat == [ino |-> 0, dir |-> FALSE, size |-> 0]
Stat(d, p) ==
  IF Exists(d, p)
  THEN [ino |-> d.tree[p], dir |-> IsDir(d, p), size |-> d.size[d.tree[p]]]
  ELSE NoStat
Stats == [ino : Inodes \cup {0}, dir : BOOLEAN, size : Sizes]

(* os.SameFile and the comparison of types beside it *)
SameEntry(s, t) == s.ino = t.ino /\ s.dir = t.dir

FreeInode(d, open) ==
  CHOOSE i \in Inodes : i \notin open /\ \A p \in Paths : d.tree[p] # i

CanCreate(d, p) == p # Root /\ ~Exists(d, p) /\ IsDir(d, Front(p))

Create(d, p, i, isDir) ==
  [d EXCEPT !.tree[p] = i, !.size[i] = 0,
            !.dirs = IF isDir THEN @ \cup {i} ELSE @ \ {i}]

(* The content of an unlinked file stays as long as somebody has it open.  *)
Unlink(d, p) == [d EXCEPT !.tree[p] = 0, !.dirs = @ \ {d.tree[p]}]

Store(d, i, n) == [d EXCEPT !.size[i] = n]

(* rename(2): what is at and below p is then at and below q, and what was  *)
(* at q is gone.                                                           *)
Rename(d, p, q) ==
  LET Old(r) == p \o SubSeq(r, Len(q) + 1, Len(r))
  IN [d EXCEPT !.tree = [r \in Paths |->
        IF r \in Below(q) THEN (IF Old(r) \in Paths THEN d.tree[Old(r)] ELSE 0)
        ELSE IF r \in Below(p) THEN 0 ELSE d.tree[r]],
      !.dirs = @ \ ({d.tree[q]} \ {0})]

-----------------------------------------------------------------------------
(* What anybody sees of a disk: for each path nothing, a directory, or a   *)
(* file of some size.                                                      *)
Nothing == 0
Directory == 1
File(n) == n + 2
View(d) ==
  [p \in Paths |-> IF ~Exists(d, p) THEN Nothing
                   ELSE IF IsDir(d, p) THEN Directory ELSE File(d.size[d.tree[p]])]
Views == [Paths -> {Nothing, Directory} \cup {File(n) : n \in Sizes}]

Sound(v) ==
  /\ v[Root] \in {Nothing, Directory}
  /\ \A p \in Paths : v[p] # Nothing => \A q \in Above(p) : v[q] = Directory

(* A disk with a given view, its inodes numbered in some order. *)
DiskOf(v) ==
  LET order == SetToSeq(Paths)
      number == [p \in Paths |-> CHOOSE i \in 1..Len(order) : order[i] = p]
      size(i) == IF i <= Len(order) /\ v[order[i]] >= File(0)
                 THEN v[order[i]] - File(0) ELSE 0
  IN [tree |-> [p \in Paths |-> IF v[p] = Nothing THEN 0 ELSE number[p]],
      dirs |-> {number[p] : p \in {q \in Paths : v[q] = Directory}},
      size |-> [i \in Inodes |-> size(i)]]
=============================================================================
