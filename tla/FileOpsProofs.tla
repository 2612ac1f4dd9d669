---------------------------- MODULE FileOpsProofs -----------------------------
(***************************************************************************)
(* Proofs about FileOps, for every tree, every set of calls and any number *)
(* of changes by the other process: the type invariant; what nobody else   *)
(* touches and the call does not name survives; a call destroys at most    *)
(* what it names; what it reports is true; it keeps to its limits; left    *)
(* alone it acts at once, and a repetition changes nothing more.           *)
(*                                                                         *)
(* Paths and their prefixes come first, then what each system call does to *)
(* the disk, then the control of the operations, the effect of a step of   *)
(* the server (WorkEffect) and of the other process (OthersEffect), and    *)
(* the inductive invariant SafeInv, from which the first theorems follow.  *)
(* The last part is about a call that runs undisturbed: AtOnceInv says     *)
(* step by step how far it has got, AtOnceBy... that each action keeps it. *)
(***************************************************************************)
EXTENDS FileOps, TLAPS, FiniteSetTheorems, FunctionTheorems, SequenceTheorems

(* Paths are sequences of names. *)
LEMMA PathType ==
  ASSUME NEW p \in Paths
  PROVE /\ p \in Seq(STRING) /\ Len(p) \in Nat
        /\ p = [i \in 1..Len(p) |-> p[i]] /\ DOMAIN p = 1..Len(p)
  BY DiskAssumption

(* Prefixes, element by element (SequencesExt!IsPrefix). *)
LEMMA PrefixMeans ==
  ASSUME NEW p \in Paths, NEW q \in Paths
  PROVE IsPrefix(p, q) <=> Len(p) <= Len(q) /\ \A i \in 1..Len(p) : p[i] = q[i]
<1>1. p \in Seq(STRING) /\ q \in Seq(STRING) /\ Len(p) \in Nat /\ Len(q) \in Nat
  BY PathType
<1>2. Len(p) <= Len(q) =>
        /\ SubSeq(p, 1, Len(p)) = [i \in 1..Len(p) |-> p[i]]
        /\ SubSeq(q, 1, Len(p)) = [i \in 1..Len(p) |-> q[i]]
  BY <1>1
<1>3. Len(p) <= Len(q) =>
        (SubSeq(p, 1, Len(p)) = SubSeq(q, 1, Len(p)) <=> \A i \in 1..Len(p) : p[i] = q[i])
  BY <1>1, <1>2
<1> QED BY <1>3 DEF IsPrefix

(* Two paths with the same names are the same. *)
LEMMA SamePath ==
  ASSUME NEW p \in Paths, NEW q \in Paths, Len(p) = Len(q), \A i \in 1..Len(p) : p[i] = q[i]
  PROVE p = q
  BY PathType

(* What a prefix of a path is. *)
LEMMA CutPath ==
  ASSUME NEW p \in Paths, NEW n \in 0..Len(p)
  PROVE /\ SubSeq(p, 1, n) \in Paths /\ Len(SubSeq(p, 1, n)) = n
        /\ \A i \in 1..n : SubSeq(p, 1, n)[i] = p[i]
        /\ IsPrefix(SubSeq(p, 1, n), p)
<1>1. p \in Seq(STRING) /\ Len(p) \in Nat
  BY PathType
<1>2. SubSeq(p, 1, n) \in Paths
  BY DiskAssumption
<1>3. n \in Nat /\ n <= Len(p)
  BY <1>1
<1>4. SubSeq(p, 1, n) = [i \in 1..n |-> p[i]]
  BY <1>1, <1>3
<1>5. Len(SubSeq(p, 1, n)) = n /\ \A i \in 1..n : SubSeq(p, 1, n)[i] = p[i]
  BY <1>1, <1>3, <1>4
<1> QED BY <1>1, <1>2, <1>3, <1>5, PrefixMeans

(* Prefixes order the paths, with the root first; two prefixes of one path *)
(* are comparable.                                                         *)
LEMMA PrefixOrder ==
  ASSUME NEW p \in Paths, NEW q \in Paths
  PROVE /\ IsPrefix(p, p) /\ IsPrefix(Root, p)
        /\ IsPrefix(p, q) /\ IsPrefix(q, p) => p = q
        /\ \A r \in Paths : IsPrefix(p, q) /\ IsPrefix(q, r) => IsPrefix(p, r)
        /\ \A r \in Paths : IsPrefix(p, r) /\ IsPrefix(q, r) => IsPrefix(p, q) \/ IsPrefix(q, p)
        /\ IsPrefix(p, q) /\ Len(p) = Len(q) => p = q
<1>0. Root \in Paths /\ Len(Root) = 0
  BY DiskAssumption DEF Root
<1>1. Len(p) \in Nat /\ Len(q) \in Nat
  BY PathType
<1>2. IsPrefix(p, p) /\ IsPrefix(Root, p)
  BY <1>0, <1>1, PrefixMeans
<1>3. IsPrefix(p, q) /\ IsPrefix(q, p) => p = q
  BY <1>1, PrefixMeans, SamePath
<1>4. ASSUME NEW r \in Paths, IsPrefix(p, q), IsPrefix(q, r) PROVE IsPrefix(p, r)
  BY <1>1, <1>4, PathType, PrefixMeans
<1>5. ASSUME NEW r \in Paths, IsPrefix(p, r), IsPrefix(q, r) PROVE IsPrefix(p, q) \/ IsPrefix(q, p)
  BY <1>1, <1>5, PathType, PrefixMeans
<1>6. IsPrefix(p, q) /\ Len(p) = Len(q) => p = q
  BY <1>1, PrefixMeans, SamePath
<1> QED BY <1>2, <1>3, <1>4, <1>5, <1>6

(* The directory of a path is above it, and nothing is between the two. *)
LEMMA FrontPath ==
  ASSUME NEW p \in Paths
  PROVE /\ Front(p) \in Paths /\ IsPrefix(Front(p), p)
        /\ p = Root => Front(p) = Root
        /\ p # Root => Front(p) # p /\ Len(p) = Len(Front(p)) + 1
        /\ \A q \in Paths : IsPrefix(q, p) => q = p \/ IsPrefix(q, Front(p))
<1>1. p \in Seq(STRING) /\ Len(p) \in Nat
  BY PathType
<1>2. CASE p = Root
  <2>1. Len(p) = 0 /\ Front(p) = << >>
    BY <1>2 DEF Root, Front
  <2>2. \A q \in Paths : IsPrefix(q, p) => q = p
    BY <1>2, PrefixOrder
  <2> QED BY <1>2, <2>1, <2>2, PrefixOrder DEF Root
<1>3. CASE p # Root
  <2>1. Len(p) # 0
    BY <1>1, <1>3 DEF Root
  <2>2. Len(p) - 1 \in 0..Len(p)
    BY <1>1, <2>1
  <2>3. /\ Front(p) \in Paths /\ IsPrefix(Front(p), p) /\ Len(Front(p)) = Len(p) - 1
        /\ \A i \in 1..(Len(p) - 1) : Front(p)[i] = p[i]
    BY <2>2, CutPath DEF Front
  <2>4. ASSUME NEW q \in Paths, IsPrefix(q, p), q # p PROVE IsPrefix(q, Front(p))
    <3>1. Len(q) \in Nat /\ Len(q) # Len(p)
      BY <2>4, PrefixOrder, PathType
    <3>2. Len(q) <= Len(p) - 1 /\ \A i \in 1..Len(q) : q[i] = p[i]
      BY <1>1, <2>4, <3>1, PrefixMeans
    <3> QED BY <1>1, <2>3, <3>1, <3>2, PrefixMeans
  <2> QED BY <1>1, <1>3, <2>1, <2>3, <2>4
<1> QED BY <1>2, <1>3

(* Between a path and one below it lies an entry of the former. *)
LEMMA NextBelow ==
  ASSUME NEW p \in Paths, NEW r \in Paths, IsPrefix(p, r), p # r
  PROVE \E c \in Paths : IsPrefix(p, c) /\ Len(c) = Len(p) + 1 /\ IsPrefix(c, r) /\ c # p
<1> DEFINE c == SubSeq(r, 1, Len(p) + 1)
<1>1. Len(p) \in Nat /\ Len(r) \in Nat
  BY PathType
<1>2. Len(p) <= Len(r) /\ Len(p) # Len(r) /\ \A i \in 1..Len(p) : p[i] = r[i]
  BY PrefixMeans, PrefixOrder
<1>3. Len(p) + 1 \in 0..Len(r)
  BY <1>1, <1>2
<1>4. c \in Paths /\ Len(c) = Len(p) + 1 /\ IsPrefix(c, r) /\ \A i \in 1..(Len(p) + 1) : c[i] = r[i]
  BY <1>3, CutPath
<1> HIDE DEF c
<1>5. IsPrefix(p, c)
  BY <1>1, <1>2, <1>4, PrefixMeans
<1> QED BY <1>1, <1>4, <1>5

-----------------------------------------------------------------------------
(* What is at r below p when p has become q. *)
Moved(p, q, r) == q \o SubSeq(r, Len(p) + 1, Len(r))

(* A path below p, taken along when p becomes q, element by element. *)
LEMMA MovedPath ==
  ASSUME NEW p \in Paths, NEW q \in Paths, NEW r \in Paths, IsPrefix(p, r)
  PROVE /\ Moved(p, q, r) \in Seq(STRING)
        /\ Len(Moved(p, q, r)) = Len(q) + Len(r) - Len(p)
        /\ \A i \in 1..Len(q) : Moved(p, q, r)[i] = q[i]
        /\ \A i \in 1..(Len(r) - Len(p)) : Moved(p, q, r)[Len(q) + i] = r[Len(p) + i]
<1> DEFINE s == SubSeq(r, Len(p) + 1, Len(r))
<1>1. /\ p \in Seq(STRING) /\ q \in Seq(STRING) /\ r \in Seq(STRING)
      /\ Len(p) \in Nat /\ Len(q) \in Nat /\ Len(r) \in Nat
  BY PathType
<1>2. Len(p) <= Len(r)
  BY PrefixMeans
<1>3. /\ s \in Seq(STRING) /\ Len(s) = Len(r) - Len(p)
      /\ \A i \in 1..(Len(r) - Len(p)) : s[i] = r[Len(p) + i]
  BY <1>1, <1>2
<1> HIDE DEF s
<1>4. /\ q \o s \in Seq(STRING) /\ Len(q \o s) = Len(q) + Len(s)
      /\ \A i \in 1..Len(q) : (q \o s)[i] = q[i]
      /\ \A i \in 1..Len(s) : (q \o s)[Len(q) + i] = s[i]
  <2>1. q \o s \in Seq(STRING) /\ Len(q \o s) = Len(q) + Len(s)
    BY <1>1, <1>3, ConcatProperties
  <2>2. ASSUME NEW i \in 1..Len(q) PROVE (q \o s)[i] = q[i]
    BY <1>1, <1>2, <1>3, <2>2
  <2>3. ASSUME NEW i \in 1..Len(s) PROVE (q \o s)[Len(q) + i] = s[i]
    BY <1>1, <1>2, <1>3, <2>3
  <2> QED BY <2>1, <2>2, <2>3
<1> QED BY <1>3, <1>4 DEF Moved, s

(* Moving there and back. *)
LEMMA MovedBack ==
  ASSUME NEW p \in Paths, NEW q \in Paths, NEW r \in Paths, IsPrefix(p, r),
         Moved(p, q, r) \in Paths
  PROVE IsPrefix(q, Moved(p, q, r)) /\ Moved(q, p, Moved(p, q, r)) = r
<1> DEFINE m == Moved(p, q, r)
<1>1. Len(p) \in Nat /\ Len(q) \in Nat /\ Len(r) \in Nat
  BY PathType
<1>2. /\ Len(m) = Len(q) + Len(r) - Len(p) /\ \A i \in 1..Len(q) : m[i] = q[i]
      /\ \A i \in 1..(Len(r) - Len(p)) : m[Len(q) + i] = r[Len(p) + i]
  BY MovedPath
<1>3. Len(p) <= Len(r) /\ \A i \in 1..Len(p) : p[i] = r[i]
  BY PrefixMeans
<1> HIDE DEF m
<1>4. m \in Paths
  BY DEF m
<1>5. IsPrefix(q, m)
  BY <1>1, <1>2, <1>3, <1>4, PrefixMeans
<1> DEFINE b == Moved(q, p, m)
<1>6. /\ b \in Seq(STRING)
      /\ Len(b) = Len(p) + Len(m) - Len(q) /\ \A i \in 1..Len(p) : b[i] = p[i]
      /\ \A i \in 1..(Len(m) - Len(q)) : b[Len(p) + i] = m[Len(q) + i]
  BY ZenonT(60), <1>4, <1>5, MovedPath
<1> HIDE DEF b
<1>7. Len(b) = Len(r)
  BY <1>1, <1>2, <1>6
<1>8. ASSUME NEW i \in 1..Len(r) PROVE b[i] = r[i]
  <2>1. CASE i <= Len(p)
    BY <1>1, <1>3, <1>6, <2>1
  <2>2. CASE i > Len(p)
    <3> DEFINE j == i - Len(p)
    <3>1. j \in 1..(Len(r) - Len(p)) /\ i = Len(p) + j /\ Len(r) - Len(p) = Len(m) - Len(q)
      BY <1>1, <1>2, <1>8, <2>2
    <3> HIDE DEF j
    <3>2. b[Len(p) + j] = m[Len(q) + j] /\ m[Len(q) + j] = r[Len(p) + j]
      BY <1>2, <1>6, <3>1
    <3> QED BY <3>1, <3>2
  <2> QED BY <1>1, <2>1, <2>2
<1>9. b = r
  <2>1. b = [i \in 1..Len(b) |-> b[i]] /\ r = [i \in 1..Len(r) |-> r[i]]
    BY <1>6, PathType
  <2> QED BY <1>7, <1>8, <2>1
<1> QED BY <1>5, <1>9 DEF b, m

(* What is above keeps above. *)
LEMMA MovedOrder ==
  ASSUME NEW p \in Paths, NEW q \in Paths, NEW r \in Paths, NEW a \in Paths,
         IsPrefix(p, a), IsPrefix(a, r), Moved(p, q, r) \in Paths
  PROVE /\ Moved(p, q, a) \in Paths /\ IsPrefix(Moved(p, q, a), Moved(p, q, r))
        /\ a # r => Moved(p, q, a) # Moved(p, q, r)
<1> DEFINE m == Moved(p, q, r)
           n == Moved(p, q, a)
           k == Len(q) + Len(a) - Len(p)
<1>1. Len(p) \in Nat /\ Len(q) \in Nat /\ Len(r) \in Nat /\ Len(a) \in Nat
  BY PathType
<1>2. IsPrefix(p, r)
  BY PrefixOrder
<1>3. /\ Len(m) = Len(q) + Len(r) - Len(p) /\ \A i \in 1..Len(q) : m[i] = q[i]
      /\ \A i \in 1..(Len(r) - Len(p)) : m[Len(q) + i] = r[Len(p) + i]
  BY ZenonT(60), <1>2, MovedPath
<1>4. /\ n \in Seq(STRING) /\ Len(n) = k /\ \A i \in 1..Len(q) : n[i] = q[i]
      /\ \A i \in 1..(Len(a) - Len(p)) : n[Len(q) + i] = a[Len(p) + i]
  BY ZenonT(60), MovedPath
<1>5. Len(p) <= Len(a) /\ Len(a) <= Len(r) /\ \A i \in 1..Len(a) : a[i] = r[i]
  BY PrefixMeans
<1> HIDE DEF m, n
<1>6. k \in 0..Len(m)
  BY <1>1, <1>3, <1>5
<1>7. m \in Paths
  BY DEF m
<1> DEFINE c == SubSeq(m, 1, k)
<1>8. c \in Paths /\ Len(c) = k /\ IsPrefix(c, m) /\ \A i \in 1..k : c[i] = m[i]
  BY <1>6, <1>7, CutPath
<1> HIDE DEF c
<1>9. ASSUME NEW i \in 1..k PROVE n[i] = m[i]
  <2>1. CASE i <= Len(q)
    BY <1>1, <1>3, <1>4, <1>9, <2>1
  <2>2. CASE i > Len(q)
    <3> DEFINE j == i - Len(q)
    <3>1. j \in 1..(Len(a) - Len(p)) /\ i = Len(q) + j /\ j \in 1..(Len(r) - Len(p))
          /\ Len(p) + j \in 1..Len(a)
      BY <1>1, <1>5, <1>9, <2>2
    <3> HIDE DEF j
    <3>2. n[Len(q) + j] = a[Len(p) + j] /\ m[Len(q) + j] = r[Len(p) + j]
      BY <1>3, <1>4, <3>1
    <3>3. a[Len(p) + j] = r[Len(p) + j]
      BY <1>5, <3>1
    <3> QED BY <3>1, <3>2, <3>3
  <2> QED BY <1>1, <2>1, <2>2
<1>10. n = c
  <2>1. n = [i \in 1..k |-> n[i]] /\ c = [i \in 1..k |-> c[i]]
    BY <1>4, <1>8, PathType
  <2> QED BY <1>8, <1>9, <2>1
<1>11. a # r => Len(a) # Len(r)
  BY PrefixOrder
<1>12. a # r => Len(n) # Len(m)
  BY <1>1, <1>3, <1>4, <1>11
<1> QED BY <1>8, <1>10, <1>12 DEF m, n

(* Inodes are positive numbers. *)
LEMMA InodeFacts == Inodes \subseteq Nat /\ 0 \notin Inodes /\ Cardinality(Paths) \in Nat
<1>1. Cardinality(Paths) \in Nat
  BY DiskAssumption, FS_CardinalityType
<1> QED BY <1>1 DEF Inodes

(* One lookup on two disks. *)
SameAt(d, e, p) ==
  /\ e.tree[p] = d.tree[p]
  /\ IsDir(e, p) <=> IsDir(d, p)
  /\ Exists(d, p) => e.size[d.tree[p]] = d.size[d.tree[p]]

(* What a disk consists of. *)
LEMMA DiskParts ==
  ASSUME NEW d \in Disks
  PROVE /\ d.tree \in [Paths -> Inodes \cup {0}] /\ d.dirs \subseteq Inodes
        /\ d.size \in [Inodes -> Sizes]
        /\ d = [tree |-> d.tree, dirs |-> d.dirs, size |-> d.size]
        /\ \A p \in Paths : d.tree[p] \in Inodes \cup {0}
        /\ \A p \in Paths : IsDir(d, p) => Exists(d, p)
<1>1. /\ d.tree \in [Paths -> Inodes \cup {0}] /\ d.dirs \subseteq Inodes
      /\ d.size \in [Inodes -> Sizes]
      /\ d = [tree |-> d.tree, dirs |-> d.dirs, size |-> d.size]
  BY DEF Disks
<1>2. \A p \in Paths : d.tree[p] \in Inodes \cup {0}
  BY <1>1
<1>3. \A p \in Paths : IsDir(d, p) => Exists(d, p)
  BY <1>1, InodeFacts DEF IsDir, Exists
<1> QED BY <1>1, <1>2, <1>3

(* Nothing lies below what is no directory or has no entries. *)
LEMMA NothingBelow ==
  ASSUME NEW d \in Disks, WellFormed(d), NEW p \in Paths,
         ~IsDir(d, p) \/ Children(d, p) = {}
  PROVE \A r \in Paths : IsPrefix(p, r) /\ r # p => ~Exists(d, r)
<1> SUFFICES ASSUME NEW r \in Paths, IsPrefix(p, r), r # p, Exists(d, r) PROVE FALSE
  OBVIOUS
<1>1. IsDir(d, p)
  BY DEF WellFormed, Above, IsStrictPrefix
<1>2. PICK c \in Paths : IsPrefix(p, c) /\ Len(c) = Len(p) + 1 /\ IsPrefix(c, r)
  BY NextBelow
<1>3. Exists(d, c)
  <2>1. CASE c = r
    BY <2>1
  <2>2. CASE c # r
    BY <1>2, <2>2, DiskParts DEF WellFormed, Above, IsStrictPrefix
  <2> QED BY <2>1, <2>2
<1>4. c \in Children(d, p)
  BY <1>2, <1>3 DEF Children, Below
<1> QED BY <1>1, <1>4

(* A directory has entries exactly if something exists below it. *)
LEMMA EmptyMeans ==
  ASSUME NEW d \in Disks, WellFormed(d), NEW p \in Paths
  PROVE /\ IsFile(d, p) \/ IsEmptyDir(d, p) => \A r \in Paths : IsPrefix(p, r) /\ r # p => ~Exists(d, r)
        /\ ~Exists(d, p) => \A r \in Paths : IsPrefix(p, r) => ~Exists(d, r)
  BY NothingBelow, DiskParts DEF IsFile, IsEmptyDir

(* Paths with the same inode are the same. *)
LEMMA OneLink ==
  ASSUME NEW d, WellFormed(d), NEW p \in Paths, NEW q \in Paths, d.tree[p] = d.tree[q], Exists(d, p)
  PROVE p = q
  BY DEF WellFormed

(* open(O_CREAT) and mkdir. *)
LEMMA CreateKeeps ==
  ASSUME NEW d \in Disks, WellFormed(d), NEW p \in Paths, CanCreate(d, p),
         NEW i \in Inodes, \A r \in Paths : d.tree[r] # i, NEW isDir \in BOOLEAN
  PROVE LET e == Create(d, p, i, isDir)
        IN /\ e \in Disks /\ WellFormed(e)
           /\ \A r \in Paths : r # p => SameAt(d, e, r)
           /\ e.tree[p] = i /\ (IsDir(e, p) <=> isDir) /\ e.size[i] = 0
           /\ \A j \in Inodes : j # i => e.size[j] = d.size[j] /\ (j \in e.dirs <=> j \in d.dirs)
<1> DEFINE e == Create(d, p, i, isDir)
<1>1. /\ e.tree = [d.tree EXCEPT ![p] = i] /\ e.size = [d.size EXCEPT ![i] = 0]
      /\ e.dirs = (IF isDir THEN d.dirs \cup {i} ELSE d.dirs \ {i})
      /\ e \in [tree : {e.tree}, dirs : {e.dirs}, size : {e.size}]
  <2>1. e \in [tree : {[d.tree EXCEPT ![p] = i]}, size : {[d.size EXCEPT ![i] = 0]},
               dirs : {IF isDir THEN d.dirs \cup {i} ELSE d.dirs \ {i}}]
    BY DEF Create, Disks
  <2> HIDE DEF e
  <2> QED BY <2>1
<1> HIDE DEF e
<1>2. 0 \in Sizes
  BY DiskAssumption DEF Sizes
<1>3. e \in Disks
  <2>1. e.tree \in [Paths -> Inodes \cup {0}] /\ e.size \in [Inodes -> Sizes] /\ e.dirs \in SUBSET Inodes
    BY <1>1, <1>2, DiskParts
  <2> QED BY <1>1, <2>1 DEF Disks
<1>4. /\ e.tree[p] = i /\ e.size[i] = 0 /\ (i \in e.dirs <=> isDir)
      /\ \A r \in Paths : r # p => e.tree[r] = d.tree[r]
      /\ \A j \in Inodes : j # i => e.size[j] = d.size[j] /\ (j \in e.dirs <=> j \in d.dirs)
  BY <1>1, DiskParts
<1>5. ASSUME NEW r \in Paths, r # p PROVE SameAt(d, e, r)
  <2>1. d.tree[r] # i /\ e.tree[r] = d.tree[r] /\ d.tree[r] \in Inodes \cup {0}
    BY <1>4, <1>5, DiskParts
  <2>2. CASE d.tree[r] = 0
    <3>1. ~Exists(d, r) /\ ~IsDir(d, r) /\ ~IsDir(e, r)
      BY <1>3, <2>1, <2>2, DiskParts DEF Exists
    <3> QED BY <2>1, <3>1 DEF SameAt
  <2>3. CASE d.tree[r] \in Inodes
    BY <1>4, <2>1, <2>3 DEF SameAt, IsDir
  <2> QED BY <2>1, <2>2, <2>3
<1>6. IsDir(e, p) <=> isDir
  BY <1>4 DEF IsDir
<1>7. ~Exists(d, p) /\ IsDir(d, Front(p)) /\ p # Root
  BY DEF CanCreate
<1>8. WellFormed(e)
  <2>1. ASSUME NEW r \in Paths, Exists(e, r), NEW a \in Above(r) PROVE IsDir(e, a)
    <3>1. a \in Paths /\ IsPrefix(a, r) /\ a # r
      BY <2>1 DEF Above, IsStrictPrefix
    <3>2. IsDir(d, a)
      <4>1. CASE r = p
        <5>1. IsPrefix(a, Front(p)) /\ Front(p) \in Paths
          BY <3>1, <4>1, FrontPath
        <5> QED BY <1>7, <3>1, <5>1, DiskParts DEF WellFormed, Above, IsStrictPrefix
      <4>2. CASE r # p
        BY <1>5, <2>1, <3>1, <4>2 DEF WellFormed, Above, IsStrictPrefix, SameAt, Exists
      <4> QED BY <4>1, <4>2
    <3>3. a # p
      BY <1>7, <3>1, <3>2, DiskParts
    <3> QED BY <1>5, <3>1, <3>2, <3>3 DEF SameAt
  <2>2. ASSUME NEW r \in Paths, NEW q \in Paths, Exists(e, r), e.tree[r] = e.tree[q] PROVE r = q
    BY <1>4, <2>2 DEF WellFormed, Exists
  <2>3. ASSUME NEW j \in e.dirs PROVE \E r \in Paths : j = e.tree[r]
    <3>1. CASE j = i
      BY <1>4, <3>1
    <3>2. CASE j # i
      <4>1. j \in d.dirs /\ j # 0
        BY <1>1, <3>2, <2>3, DiskParts, InodeFacts
      <4>2. PICK r \in Paths : j = d.tree[r]
        BY <4>1 DEF WellFormed
      <4> QED BY <1>4, <1>7, <4>1, <4>2 DEF Exists
    <3> QED BY <3>1, <3>2
  <2>4. e.dirs \subseteq {e.tree[r] : r \in Paths}
    BY <2>3
  <2> QED BY <2>1, <2>2, <2>4 DEF WellFormed
<1> QED BY <1>3, <1>4, <1>5, <1>6, <1>8 DEF e

(* unlink and rmdir. *)
LEMMA UnlinkKeeps ==
  ASSUME NEW d \in Disks, WellFormed(d), NEW p \in Paths, IsFile(d, p) \/ IsEmptyDir(d, p)
  PROVE LET e == Unlink(d, p)
        IN /\ e \in Disks /\ WellFormed(e)
           /\ \A r \in Paths : r # p => SameAt(d, e, r)
           /\ ~Exists(e, p) /\ ~IsDir(e, p) /\ e.size = d.size
           /\ e.dirs = d.dirs \ {d.tree[p]}
<1> DEFINE e == Unlink(d, p)
<1>1. /\ e.tree = [d.tree EXCEPT ![p] = 0] /\ e.size = d.size /\ e.dirs = d.dirs \ {d.tree[p]}
      /\ e \in [tree : {e.tree}, dirs : {e.dirs}, size : {e.size}]
  <2>1. e \in [tree : {[d.tree EXCEPT ![p] = 0]}, dirs : {d.dirs \ {d.tree[p]}}, size : {d.size}]
    BY DEF Unlink, Disks
  <2> HIDE DEF e
  <2> QED BY <2>1
<1> HIDE DEF e
<1>2. e \in Disks
  <2>1. e.tree \in [Paths -> Inodes \cup {0}] /\ e.size \in [Inodes -> Sizes] /\ e.dirs \in SUBSET Inodes
    BY <1>1, DiskParts
  <2> QED BY <1>1, <2>1 DEF Disks
<1>3. e.tree[p] = 0 /\ \A r \in Paths : r # p => e.tree[r] = d.tree[r]
  BY <1>1, DiskParts
<1>4. Exists(d, p)
  BY DiskParts DEF IsFile, IsEmptyDir
<1>5. ASSUME NEW r \in Paths, r # p PROVE SameAt(d, e, r)
  <2>1. d.tree[r] # d.tree[p]
    BY <1>4, <1>5, OneLink
  <2> QED BY <1>1, <1>3, <1>5, <2>1 DEF SameAt, IsDir
<1>6. ~Exists(e, p) /\ ~IsDir(e, p)
  BY <1>2, <1>3, DiskParts DEF Exists
<1>7. WellFormed(e)
  <2>1. ASSUME NEW r \in Paths, Exists(e, r), NEW a \in Above(r) PROVE IsDir(e, a)
    <3>1. a \in Paths /\ IsPrefix(a, r) /\ a # r /\ r # p
      BY <1>6, <2>1 DEF Above, IsStrictPrefix
    <3>2. Exists(d, r)
      BY <1>5, <2>1, <3>1 DEF SameAt, Exists
    <3>3. IsDir(d, a)
      BY <3>1, <3>2 DEF WellFormed, Above, IsStrictPrefix
    <3>4. a # p
      BY <3>1, <3>2, EmptyMeans
    <3> QED BY <1>5, <3>1, <3>3, <3>4 DEF SameAt
  <2>2. ASSUME NEW r \in Paths, NEW q \in Paths, Exists(e, r), e.tree[r] = e.tree[q] PROVE r = q
    BY <1>3, <2>2 DEF WellFormed, Exists
  <2>3. e.dirs \subseteq {e.tree[r] : r \in Paths}
    BY <1>1, <1>3, DiskParts DEF WellFormed, Exists
  <2> QED BY <2>1, <2>2, <2>3 DEF WellFormed
<1> QED BY <1>1, <1>2, <1>5, <1>6, <1>7 DEF e

(* write and ftruncate. *)
LEMMA StoreKeeps ==
  ASSUME NEW d \in Disks, WellFormed(d), NEW i \in Inodes, NEW n \in Sizes
  PROVE LET e == Store(d, i, n)
        IN /\ e \in Disks /\ WellFormed(e)
           /\ e.tree = d.tree /\ e.dirs = d.dirs /\ e.size[i] = n
           /\ \A j \in Inodes : j # i => e.size[j] = d.size[j]
           /\ \A r \in Paths : d.tree[r] # i => SameAt(d, e, r)
<1> DEFINE e == Store(d, i, n)
<1>1. /\ e.tree = d.tree /\ e.size = [d.size EXCEPT ![i] = n] /\ e.dirs = d.dirs
      /\ e = [tree |-> e.tree, dirs |-> e.dirs, size |-> e.size]
  BY DiskParts DEF Store
<1> HIDE DEF e
<1>2. e \in Disks
  <2>1. e.tree \in [Paths -> Inodes \cup {0}] /\ e.size \in [Inodes -> Sizes] /\ e.dirs \in SUBSET Inodes
    BY <1>1, DiskParts
  <2> QED BY <1>1, <2>1 DEF Disks
<1>3. e.size[i] = n /\ \A j \in Inodes : j # i => e.size[j] = d.size[j]
  BY <1>1, DiskParts
<1>4. WellFormed(e)
  BY <1>1 DEF WellFormed, Exists, IsDir
<1>5. \A r \in Paths : d.tree[r] # i => SameAt(d, e, r)
  BY <1>1, <1>3, DiskParts DEF SameAt, IsDir, Exists
<1> QED BY <1>1, <1>2, <1>3, <1>4, <1>5 DEF e

(* What rename(2) asks of the disk, and of the paths considered. *)
Renamable(d, p, q) ==
  /\ Exists(d, p) /\ ~IsPrefix(p, q)
  /\ \/ CanCreate(d, q)
     \/ IsFile(d, p) /\ IsFile(d, q)
     \/ IsDir(d, p) /\ IsEmptyDir(d, q)
(* Both at once. *)
MayRename(d, p, q) ==
  /\ Renamable(d, p, q)
  /\ \A r \in Below(p) : Exists(d, r) => Moved(p, q, r) \in Paths

(* Source and target of a rename are apart, the target's directory is      *)
(* there, and nothing is below the target.                                 *)
LEMMA RenameApart ==
  ASSUME NEW d \in Disks, WellFormed(d), NEW p \in Paths, NEW q \in Paths, Renamable(d, p, q)
  PROVE /\ ~IsPrefix(p, q) /\ ~IsPrefix(q, p) /\ p # q
        /\ \A r \in Paths : ~(IsPrefix(p, r) /\ IsPrefix(q, r))
        /\ \A a \in Above(q) : IsDir(d, a)
        /\ \A r \in Paths : IsPrefix(q, r) /\ r # q => ~Exists(d, r)
<1>1. ~IsPrefix(p, q) /\ Exists(d, p) /\ p # q
  BY PrefixOrder DEF Renamable
<1>2. \A r \in Paths : IsPrefix(q, r) /\ r # q => ~Exists(d, r)
  <2>1. CASE CanCreate(d, q)
    BY <2>1, EmptyMeans DEF CanCreate
  <2>2. CASE IsFile(d, q) \/ IsEmptyDir(d, q)
    BY <2>2, EmptyMeans
  <2> QED BY <2>1, <2>2 DEF Renamable
<1>3. ~IsPrefix(q, p)
  BY <1>1, <1>2
<1>4. \A r \in Paths : ~(IsPrefix(p, r) /\ IsPrefix(q, r))
  BY <1>1, <1>3, PrefixOrder
<1>5. ASSUME NEW a \in Above(q) PROVE IsDir(d, a)
  <2>1. a \in Paths /\ IsPrefix(a, q) /\ a # q
    BY <1>5 DEF Above, IsStrictPrefix
  <2>2. CASE CanCreate(d, q)
    <3>1. IsDir(d, Front(q)) /\ Front(q) \in Paths /\ IsPrefix(a, Front(q))
      BY <2>1, <2>2, FrontPath DEF CanCreate
    <3>2. Exists(d, Front(q))
      BY <3>1, DiskParts
    <3> QED BY <2>1, <3>1, <3>2 DEF WellFormed, Above, IsStrictPrefix
  <2>3. CASE IsFile(d, q) \/ IsEmptyDir(d, q)
    BY <2>1, <2>3, DiskParts DEF WellFormed, Above, IsStrictPrefix, IsFile, IsEmptyDir
  <2> QED BY <2>2, <2>3 DEF Renamable
<1> QED BY <1>1, <1>2, <1>3, <1>4, <1>5

(* The tree after a rename. *)
LEMMA RenameTree ==
  ASSUME NEW d \in Disks, WellFormed(d), NEW p \in Paths, NEW q \in Paths, MayRename(d, p, q)
  PROVE LET e == Rename(d, p, q)
        IN /\ e \in Disks /\ e.size = d.size /\ e.dirs = d.dirs \ ({d.tree[q]} \ {0})
           /\ \A r \in Paths : IsPrefix(q, r) =>
                e.tree[r] = IF Moved(q, p, r) \in Paths THEN d.tree[Moved(q, p, r)] ELSE 0
           /\ \A r \in Paths : IsPrefix(p, r) => e.tree[r] = 0
           /\ \A r \in Paths : IsPrefix(p, r) /\ Exists(d, r) =>
                Moved(p, q, r) \in Paths /\ e.tree[Moved(p, q, r)] = d.tree[r]
           /\ \A r \in Paths : ~IsPrefix(p, r) /\ ~IsPrefix(q, r) => e.tree[r] = d.tree[r]
<1> DEFINE e == Rename(d, p, q)
           T == [r \in Paths |->
                   IF r \in Below(q)
                   THEN (IF Moved(q, p, r) \in Paths THEN d.tree[Moved(q, p, r)] ELSE 0)
                   ELSE IF r \in Below(p) THEN 0 ELSE d.tree[r]]
<1>1. e.tree = T /\ e.size = d.size /\ e.dirs = d.dirs \ ({d.tree[q]} \ {0})
      /\ e \in [tree : {e.tree}, dirs : {e.dirs}, size : {e.size}]
  <2>1. e \in [tree : {T}, dirs : {d.dirs \ ({d.tree[q]} \ {0})}, size : {d.size}]
    BY DEF Rename, Disks, Moved
  <2> HIDE DEF e, T
  <2> QED BY <2>1
<1> HIDE DEF e
<1>2. \A r \in Paths : e.tree[r] =
         IF IsPrefix(q, r) THEN (IF Moved(q, p, r) \in Paths THEN d.tree[Moved(q, p, r)] ELSE 0)
         ELSE IF IsPrefix(p, r) THEN 0 ELSE d.tree[r]
  BY <1>1 DEF Below
<1>3. T \in [Paths -> Inodes \cup {0}]
  BY DiskParts
<1> HIDE DEF T
<1>4. e \in Disks
  <2>1. e.tree \in [Paths -> Inodes \cup {0}] /\ e.size \in [Inodes -> Sizes] /\ e.dirs \in SUBSET Inodes
    BY <1>1, <1>3, DiskParts
  <2> QED BY <1>1, <2>1 DEF Disks
<1>5. \A r \in Paths : IsPrefix(p, r) => e.tree[r] = 0
  BY <1>2, RenameApart DEF MayRename
<1>6. ASSUME NEW r \in Paths, IsPrefix(p, r), Exists(d, r)
      PROVE Moved(p, q, r) \in Paths /\ e.tree[Moved(p, q, r)] = d.tree[r]
  <2>1. Moved(p, q, r) \in Paths
    BY <1>6 DEF MayRename, Below
  <2>2. IsPrefix(q, Moved(p, q, r)) /\ Moved(q, p, Moved(p, q, r)) = r
    BY <1>6, <2>1, MovedBack
  <2> QED BY <1>2, <2>1, <2>2
<1> QED BY <1>1, <1>2, <1>4, <1>5, <1>6 DEF e

(* Where an entry of the tree after a rename came from. *)
LEMMA RenameOrigin ==
  ASSUME NEW d \in Disks, WellFormed(d), NEW p \in Paths, NEW q \in Paths, MayRename(d, p, q),
         NEW r \in Paths, Exists(Rename(d, p, q), r)
  PROVE \E o \in Paths :
          /\ Rename(d, p, q).tree[r] = d.tree[o] /\ o # q
          /\ IsDir(Rename(d, p, q), r) <=> IsDir(d, o)
          /\ \/ /\ IsPrefix(q, r) /\ IsPrefix(p, o) /\ o = Moved(q, p, r) /\ r = Moved(p, q, o)
             \/ ~IsPrefix(q, r) /\ ~IsPrefix(p, r) /\ o = r
<1> DEFINE e == Rename(d, p, q)
<1>1. /\ e.dirs = d.dirs \ ({d.tree[q]} \ {0})
      /\ IsPrefix(q, r) =>
           e.tree[r] = IF Moved(q, p, r) \in Paths THEN d.tree[Moved(q, p, r)] ELSE 0
      /\ IsPrefix(p, r) => e.tree[r] = 0
      /\ ~IsPrefix(p, r) /\ ~IsPrefix(q, r) => e.tree[r] = d.tree[r]
  BY RenameTree
<1> HIDE DEF e
<1>2. e.tree[r] # 0
  BY DEF e, Exists
<1>3. \E o \in Paths :
          /\ e.tree[r] = d.tree[o] /\ o # q
          /\ \/ /\ IsPrefix(q, r) /\ IsPrefix(p, o) /\ o = Moved(q, p, r) /\ r = Moved(p, q, o)
             \/ ~IsPrefix(q, r) /\ ~IsPrefix(p, r) /\ o = r
  <2>1. CASE IsPrefix(q, r)
    <3>1. Moved(q, p, r) \in Paths /\ e.tree[r] = d.tree[Moved(q, p, r)]
      BY <1>1, <1>2, <2>1
    <3>2. IsPrefix(p, Moved(q, p, r)) /\ Moved(p, q, Moved(q, p, r)) = r
      BY <2>1, <3>1, MovedBack
    <3>3. Moved(q, p, r) # q
      BY <3>2, RenameApart DEF MayRename
    <3> QED BY <2>1, <3>1, <3>2, <3>3
  <2>2. CASE ~IsPrefix(q, r)
    <3>1. ~IsPrefix(p, r) /\ e.tree[r] = d.tree[r]
      BY <1>1, <1>2, <2>2
    <3>2. r # q
      BY <2>2, PrefixOrder
    <3> QED BY <2>2, <3>1, <3>2
  <2> QED BY <2>1, <2>2
<1>4. PICK o \in Paths :
          /\ e.tree[r] = d.tree[o] /\ o # q
          /\ \/ /\ IsPrefix(q, r) /\ IsPrefix(p, o) /\ o = Moved(q, p, r) /\ r = Moved(p, q, o)
             \/ ~IsPrefix(q, r) /\ ~IsPrefix(p, r) /\ o = r
  BY <1>3
<1>5. d.tree[o] # d.tree[q]
  BY <1>2, <1>4, OneLink DEF Exists
<1>6. IsDir(e, r) <=> IsDir(d, o)
  BY <1>1, <1>4, <1>5 DEF IsDir
<1> QED BY <1>4, <1>6 DEF e

(* rename(2). *)
LEMMA RenameKeeps ==
  ASSUME NEW d \in Disks, WellFormed(d), NEW p \in Paths, NEW q \in Paths, MayRename(d, p, q)
  PROVE LET e == Rename(d, p, q)
        IN /\ WellFormed(e)
           /\ \A r \in Paths : ~IsPrefix(p, r) /\ ~IsPrefix(q, r) => SameAt(d, e, r)
<1> DEFINE e == Rename(d, p, q)
<1>1. /\ e \in Disks /\ e.size = d.size /\ e.dirs = d.dirs \ ({d.tree[q]} \ {0})
      /\ \A r \in Paths : IsPrefix(q, r) =>
           e.tree[r] = IF Moved(q, p, r) \in Paths THEN d.tree[Moved(q, p, r)] ELSE 0
      /\ \A r \in Paths : IsPrefix(p, r) => e.tree[r] = 0
      /\ \A r \in Paths : IsPrefix(p, r) /\ Exists(d, r) =>
           Moved(p, q, r) \in Paths /\ e.tree[Moved(p, q, r)] = d.tree[r]
      /\ \A r \in Paths : ~IsPrefix(p, r) /\ ~IsPrefix(q, r) => e.tree[r] = d.tree[r]
  BY RenameTree
<1>2. \A r \in Paths : Exists(e, r) =>
        \E o \in Paths :
          /\ e.tree[r] = d.tree[o] /\ o # q
          /\ IsDir(e, r) <=> IsDir(d, o)
          /\ \/ /\ IsPrefix(q, r) /\ IsPrefix(p, o) /\ o = Moved(q, p, r) /\ r = Moved(p, q, o)
             \/ ~IsPrefix(q, r) /\ ~IsPrefix(p, r) /\ o = r
  BY RenameOrigin
<1>3. /\ ~IsPrefix(p, q) /\ ~IsPrefix(q, p) /\ p # q
      /\ \A r \in Paths : ~(IsPrefix(p, r) /\ IsPrefix(q, r))
      /\ \A a \in Above(q) : IsDir(d, a)
      /\ \A r \in Paths : IsPrefix(q, r) /\ r # q => ~Exists(d, r)
  BY RenameApart DEF MayRename
<1> HIDE DEF e
<1>4. ASSUME NEW r \in Paths, ~IsPrefix(p, r), ~IsPrefix(q, r)
      PROVE SameAt(d, e, r)
  <2>1. e.tree[r] = d.tree[r]
    BY <1>1, <1>4
  <2>2. CASE Exists(d, r)
    <3>1. Exists(e, r)
      BY <2>1, <2>2 DEF Exists
    <3>2. IsDir(e, r) <=> IsDir(d, r)
      BY <1>2, <1>4, <3>1
    <3> QED BY <1>1, <2>1, <3>2 DEF SameAt
  <2>3. CASE ~Exists(d, r)
    <3>1. ~IsDir(d, r) /\ ~IsDir(e, r)
      BY <1>1, <2>1, <2>3, DiskParts DEF Exists
    <3> QED BY <2>1, <2>3, <3>1 DEF SameAt
  <2> QED BY <2>2, <2>3
<1>5. ASSUME NEW r \in Paths, Exists(e, r), NEW a \in Above(r) PROVE IsDir(e, a)
  <2>1. a \in Paths /\ IsPrefix(a, r) /\ a # r
    BY <1>5 DEF Above, IsStrictPrefix
  <2>2. PICK o \in Paths :
          /\ e.tree[r] = d.tree[o] /\ o # q
          /\ IsDir(e, r) <=> IsDir(d, o)
          /\ \/ /\ IsPrefix(q, r) /\ IsPrefix(p, o) /\ o = Moved(q, p, r) /\ r = Moved(p, q, o)
             \/ ~IsPrefix(q, r) /\ ~IsPrefix(p, r) /\ o = r
    BY <1>2, <1>5
  <2>3. Exists(d, o)
    BY <1>5, <2>2 DEF Exists
  <2>4. CASE IsPrefix(q, a)
    <3>1. IsPrefix(q, r) /\ o = Moved(q, p, r)
      BY <2>1, <2>2, <2>4, PrefixOrder
    <3>2. Moved(q, p, a) \in Paths /\ IsPrefix(Moved(q, p, a), o) /\ Moved(q, p, a) # o
      BY <2>1, <2>4, <3>1, MovedOrder
    <3>3. IsDir(d, Moved(q, p, a))
      BY <2>3, <3>2 DEF WellFormed, Above, IsStrictPrefix
    <3>4. e.tree[a] = d.tree[Moved(q, p, a)]
      BY <1>1, <2>1, <2>4, <3>2
    <3>5. Exists(e, a)
      BY <3>2, <3>3, <3>4, DiskParts DEF Exists
    <3>6. IsDir(e, a) <=> IsDir(d, Moved(q, p, a))
      BY <1>2, <2>1, <2>4, <3>5
    <3> QED BY <3>3, <3>6
  <2>5. CASE ~IsPrefix(q, a)
    <3>1. ~IsPrefix(p, a)
      <4>1. CASE IsPrefix(q, r)
        <5>1. IsPrefix(a, q)
          BY <2>1, <2>5, <4>1, PrefixOrder
        <5> QED BY <1>3, <2>1, <5>1, PrefixOrder
      <4>2. CASE ~IsPrefix(q, r)
        BY <2>1, <2>2, <4>2, PrefixOrder
      <4> QED BY <4>1, <4>2
    <3>2. IsDir(d, a)
      <4>1. CASE IsPrefix(q, r)
        <5>1. IsPrefix(a, q) /\ a # q
          BY <2>1, <2>5, <4>1, PrefixOrder
        <5> QED BY <1>3, <2>1, <5>1 DEF Above, IsStrictPrefix
      <4>2. CASE ~IsPrefix(q, r)
        BY <2>1, <2>2, <2>3, <4>2 DEF WellFormed, Above, IsStrictPrefix
      <4> QED BY <4>1, <4>2
    <3> QED BY <1>4, <2>1, <2>5, <3>1, <3>2 DEF SameAt
  <2> QED BY <2>4, <2>5
<1>6. ASSUME NEW r \in Paths, NEW s \in Paths, Exists(e, r), e.tree[r] = e.tree[s]
      PROVE r = s
  <2>1. PICK o \in Paths :
          /\ e.tree[r] = d.tree[o]
          /\ \/ /\ IsPrefix(q, r) /\ IsPrefix(p, o) /\ r = Moved(p, q, o)
             \/ ~IsPrefix(q, r) /\ ~IsPrefix(p, r) /\ o = r
    BY <1>2, <1>6
  <2>2. Exists(e, s)
    BY <1>6 DEF Exists
  <2>3. PICK u \in Paths :
          /\ e.tree[s] = d.tree[u]
          /\ \/ /\ IsPrefix(q, s) /\ IsPrefix(p, u) /\ s = Moved(p, q, u)
             \/ ~IsPrefix(q, s) /\ ~IsPrefix(p, s) /\ u = s
    BY <1>2, <2>2
  <2>4. o = u
    BY <1>6, <2>1, <2>3, OneLink DEF Exists
  <2> QED BY <2>1, <2>3, <2>4
<1>7. ASSUME NEW j \in e.dirs PROVE \E r \in Paths : j = e.tree[r]
  <2>1. j \in d.dirs /\ j # 0 /\ j # d.tree[q]
    BY <1>1, <1>7, DiskParts, InodeFacts
  <2>2. PICK r \in Paths : j = d.tree[r]
    BY <2>1 DEF WellFormed
  <2>3. Exists(d, r) /\ r # q
    BY <2>1, <2>2 DEF Exists
  <2>4. CASE IsPrefix(p, r)
    BY <1>1, <2>2, <2>3, <2>4
  <2>5. CASE ~IsPrefix(p, r)
    <3>1. ~IsPrefix(q, r)
      BY <1>3, <2>3
    <3> QED BY <1>1, <2>2, <2>5, <3>1
  <2> QED BY <2>4, <2>5
<1>8. WellFormed(e)
  <2>1. e.dirs \subseteq {e.tree[r] : r \in Paths}
    BY <1>7
  <2> QED BY <1>5, <1>6, <2>1 DEF WellFormed
<1> QED BY <1>4, <1>8 DEF e

(* As long as a path is missing, there is an inode that is neither linked  *)
(* nor one of two open ones (Inodes).                                      *)
LEMMA FreeInodeFound ==
  ASSUME NEW d \in Disks, NEW p \in Paths, ~Exists(d, p), NEW a, NEW b
  PROVE /\ FreeInode(d, {a, b}) \in Inodes \ {a, b}
        /\ \A r \in Paths : d.tree[r] # FreeInode(d, {a, b})
<1> DEFINE used == Range(d.tree)
           all == used \cup {a, b}
           n == Cardinality(Paths)
<1>1. IsFiniteSet(Paths) /\ n \in Nat
  BY DiskAssumption, FS_CardinalityType
<1>2. d.tree \in Surjection(Paths, used) /\ d.tree[p] \in used /\ \A r \in Paths : d.tree[r] \in used
  <2>1. d.tree \in [Paths -> Inodes \cup {0}]
    BY DiskParts
  <2>2. d.tree \in Surjection(Paths, used)
    BY <2>1, Fun_RangeProperties
  <2>3. \A r \in Paths : d.tree[r] \in used
    BY <2>1 DEF Range
  <2> QED BY <2>2, <2>3
<1>3. IsFiniteSet(used) /\ Cardinality(used) <= n
  BY <1>1, <1>2, FS_Surjection
<1>4. Cardinality(used) \in Nat
  BY <1>3, FS_CardinalityType
<1>5. IsFiniteSet(all) /\ Cardinality(all) <= n + 2
  <2> HIDE DEF used, n
  <2>1. /\ IsFiniteSet(used \cup {a})
        /\ Cardinality(used \cup {a}) = IF a \in used THEN Cardinality(used) ELSE Cardinality(used) + 1
    BY <1>3, FS_AddElement
  <2>2. /\ IsFiniteSet((used \cup {a}) \cup {b})
        /\ Cardinality((used \cup {a}) \cup {b}) =
             IF b \in used \cup {a} THEN Cardinality(used \cup {a}) ELSE Cardinality(used \cup {a}) + 1
    BY <2>1, FS_AddElement
  <2>3. all = (used \cup {a}) \cup {b}
    OBVIOUS
  <2> HIDE DEF all
  <2> QED BY <1>1, <1>3, <1>4, <2>1, <2>2, <2>3
<1>6. 0 \in all
  BY <1>2 DEF Exists
<1>7. ~(0..(n + 2) \subseteq all)
  <2> HIDE DEF all, n
  <2> SUFFICES ASSUME 0..(n + 2) \in SUBSET all PROVE FALSE
    OBVIOUS
  <2>1. Cardinality(0..(n + 2)) <= Cardinality(all)
    BY <1>5, FS_Subset
  <2>2. Cardinality(0..(n + 2)) = n + 3
    <3>1. 0 \in Int /\ n + 2 \in Int /\ ~(0 > n + 2)
      BY <1>1
    <3>2. Cardinality(0..(n + 2)) = (n + 2) - 0 + 1
      BY <3>1, FS_Interval
    <3> QED BY <1>1, <3>2
  <2>3. Cardinality(all) \in Nat
    BY <1>5, FS_CardinalityType
  <2> QED BY <1>1, <1>5, <2>1, <2>2, <2>3
<1>8. \E i \in Inodes : i \notin {a, b} /\ \A r \in Paths : d.tree[r] # i
  <2>1. PICK i \in 0..(n + 2) : i \notin all
    BY <1>7
  <2>2. i \in Inodes
    BY <1>1, <1>6, <2>1 DEF Inodes
  <2> QED BY <1>2, <2>1, <2>2
<1> QED BY <1>8 DEF FreeInode

-----------------------------------------------------------------------------
(* The entries of a sequence, and how they change (Go slices in WalkDir,   *)
(* List and MkdirAll).                                                     *)
EntryType == [path : Paths, dir : BOOLEAN]
(* The entries of a sequence of them. *)
Elements(s) == {s[i] : i \in 1..Len(s)}

(* A sequence that is not empty has its head and what its tail has. *)
LEMMA ElementsOfTail ==
  ASSUME NEW s \in Seq(EntryType), s # << >>
  PROVE /\ Head(s) \in Elements(s) /\ Tail(s) \in Seq(EntryType)
        /\ Elements(s) = {Head(s)} \cup Elements(Tail(s))
<1>1. /\ Len(s) \in Nat /\ Len(s) # 0 /\ Tail(s) \in Seq(EntryType) /\ Len(Tail(s)) = Len(s) - 1
      /\ Head(s) = s[1]
  BY EmptySeq
<1>2. \A i \in 1..(Len(s) - 1) : Tail(s)[i] = s[i + 1]
  BY <1>1, HeadTailProperties
<1>3. ASSUME NEW x \in Elements(s) PROVE x \in {Head(s)} \cup Elements(Tail(s))
  <2>1. PICK i \in 1..Len(s) : x = s[i]
    BY <1>3 DEF Elements
  <2>2. CASE i = 1
    BY <1>1, <2>1, <2>2
  <2>3. CASE i # 1
    <3>1. i - 1 \in 1..(Len(s) - 1) /\ (i - 1) + 1 = i
      BY <1>1, <2>1, <2>3
    <3>2. Tail(s)[i - 1] = x
      BY <1>2, <2>1, <3>1
    <3> QED BY <1>1, <3>1, <3>2 DEF Elements
  <2> QED BY <2>2, <2>3
<1>4. ASSUME NEW x \in Elements(Tail(s)) PROVE x \in Elements(s)
  <2>1. PICK i \in 1..(Len(s) - 1) : x = Tail(s)[i]
    BY <1>1, <1>4 DEF Elements
  <2>2. x = s[i + 1] /\ i + 1 \in 1..Len(s)
    BY <1>1, <1>2, <2>1
  <2> QED BY <2>2 DEF Elements
<1>5. Head(s) \in Elements(s)
  BY <1>1 DEF Elements
<1> QED BY <1>1, <1>3, <1>4, <1>5

(* Two sequences put together have what each of them has. *)
LEMMA ElementsOfConcat ==
  ASSUME NEW s \in Seq(EntryType), NEW t \in Seq(EntryType)
  PROVE s \o t \in Seq(EntryType) /\ Elements(s \o t) = Elements(s) \cup Elements(t)
<1>1. /\ s \o t \in Seq(EntryType) /\ Len(s \o t) = Len(s) + Len(t)
      /\ Len(s) \in Nat /\ Len(t) \in Nat
      /\ \A i \in 1..(Len(s) + Len(t)) : (s \o t)[i] = IF i <= Len(s) THEN s[i] ELSE t[i - Len(s)]
  BY ConcatProperties, LenProperties
<1> DEFINE c == s \o t
<1> HIDE DEF c
<1>2. /\ Len(c) = Len(s) + Len(t)
      /\ \A i \in 1..(Len(s) + Len(t)) : c[i] = IF i <= Len(s) THEN s[i] ELSE t[i - Len(s)]
  BY <1>1 DEF c
<1>3. ASSUME NEW x \in Elements(c) PROVE x \in Elements(s) \cup Elements(t)
  <2>1. PICK i \in 1..(Len(s) + Len(t)) : x = c[i]
    BY <1>2, <1>3 DEF Elements
  <2>2. CASE i <= Len(s)
    <3>1. i \in 1..Len(s) /\ x = s[i]
      BY <1>1, <1>2, <2>1, <2>2
    <3> QED BY <3>1 DEF Elements
  <2>3. CASE ~(i <= Len(s))
    <3>1. i - Len(s) \in 1..Len(t) /\ x = t[i - Len(s)]
      BY <1>1, <1>2, <2>1, <2>3
    <3> QED BY <3>1 DEF Elements
  <2> QED BY <2>2, <2>3
<1>4. ASSUME NEW x \in Elements(s) PROVE x \in Elements(c)
  <2>1. PICK i \in 1..Len(s) : x = s[i]
    BY <1>4 DEF Elements
  <2>2. i \in 1..Len(c) /\ c[i] = x
    BY <1>1, <1>2, <2>1
  <2> QED BY <2>2 DEF Elements
<1>5. ASSUME NEW x \in Elements(t) PROVE x \in Elements(c)
  <2>1. PICK i \in 1..Len(t) : x = t[i]
    BY <1>5 DEF Elements
  <2>2. i + Len(s) \in 1..Len(c) /\ ~(i + Len(s) <= Len(s)) /\ (i + Len(s)) - Len(s) = i
        /\ i + Len(s) \in 1..(Len(s) + Len(t))
    BY <1>1, <1>2, <2>1
  <2>3. c[i + Len(s)] = x
    BY <1>2, <2>1, <2>2
  <2> QED BY <2>2, <2>3 DEF Elements
<1> QED BY <1>1, <1>3, <1>4, <1>5 DEF c

(* A sequence of one entry. *)
LEMMA ElementsOfOne ==
  ASSUME NEW e \in EntryType
  PROVE <<e>> \in Seq(EntryType) /\ Elements(<<e>>) = {e} /\ Len(<<e>>) = 1
  BY DEF Elements

(* The empty sequence. *)
LEMMA ElementsOfNone == << >> \in Seq(EntryType) /\ Elements(<< >>) = {}
  BY DEF Elements

(* os.ReadDir returns every entry of the directory. *)
LEMMA SnapshotMeans ==
  ASSUME disk \in Disks, NEW p \in Paths
  PROVE /\ Snapshot(p) \in Seq(EntryType)
        /\ Elements(Snapshot(p)) = {Listed(c) : c \in Children(disk, p)}
        /\ Snapshot(p) = << >> => Children(disk, p) = {}
        /\ Children(disk, p) \subseteq Paths /\ IsFiniteSet(Children(disk, p))
<1> DEFINE S == Children(disk, p)
           names == SetToSeq(S)
<1>1. S \in SUBSET Paths /\ IsFiniteSet(S)
  <2>1. S \in SUBSET Paths
    BY DEF Children, Below
  <2> QED BY <2>1, DiskAssumption, FS_Subset
<1> HIDE DEF S
<1>2. Cardinality(S) \in Nat /\ ExistsBijection(1..Cardinality(S), S)
  BY <1>1, FS_CardinalityType
<1>3. PICK f : f \in Bijection(1..Cardinality(S), S)
  BY <1>2 DEF ExistsBijection
<1>4. f \in [1..Cardinality(S) -> S] /\ IsInjective(f)
  BY <1>3 DEF Bijection, Injection
<1>5. names \in [1..Cardinality(S) -> S] /\ IsInjective(names)
  BY <1>4 DEF SetToSeq
<1> HIDE DEF names
<1>6. names \in Injection(1..Cardinality(S), S)
  BY <1>5 DEF Injection
<1>7. names \in Surjection(1..Cardinality(S), S)
  <2>1. Cardinality(1..Cardinality(S)) = Cardinality(S)
    <3>1. 1 \in Int /\ Cardinality(S) \in Int
      BY <1>2
    <3>2. Cardinality(1..Cardinality(S)) = IF 1 > Cardinality(S) THEN 0 ELSE Cardinality(S) - 1 + 1
      BY <3>1, FS_Interval
    <3> QED BY <1>2, <3>2
  <2> QED BY <1>1, <1>6, <2>1, FS_Injection
<1>8. \A c \in S : \E i \in 1..Cardinality(S) : names[i] = c
  BY <1>7 DEF Surjection
<1>9. Len(names) = Cardinality(S) /\ names \in Seq(S)
  BY <1>2, <1>5
<1>10. \A c \in S : Listed(c) \in EntryType
  BY <1>1 DEF Listed, EntryType, IsDir
<1> DEFINE T == [i \in 1..Len(names) |-> Listed(names[i])]
<1>11. Snapshot(p) = T
  BY DEF Snapshot, names, S
<1>12. T \in Seq(EntryType) /\ Len(T) = Cardinality(S) /\ \A i \in 1..Cardinality(S) : T[i] = Listed(names[i])
  BY <1>2, <1>5, <1>9, <1>10
<1> HIDE DEF T
<1>13. ASSUME NEW x \in Elements(T) PROVE \E c \in S : x = Listed(c)
  BY <1>5, <1>12, <1>13 DEF Elements
<1>14. ASSUME NEW c \in S PROVE Listed(c) \in Elements(T)
  BY <1>8, <1>12 DEF Elements
<1>15. T = << >> => S = {}
  <2>1. T = << >> => Cardinality(S) = 0
    BY <1>12
  <2> QED BY <1>1, <2>1, FS_EmptySet
<1> QED BY <1>1, <1>11, <1>12, <1>13, <1>14, <1>15 DEF S

-----------------------------------------------------------------------------
(* How long a file is after a write: at most as long as it was, or as what *)
(* was written reaches.                                                    *)
LEMMA WrittenSize ==
  ASSUME NEW a \in Sizes, NEW b \in Nat
  PROVE LET n == Min({MaxSize, Max({a, b})})
        IN n \in Sizes /\ \A m \in Nat : a <= m /\ b <= m => n <= m
<1> DEFINE top == Max({a, b})
           n == Min({MaxSize, top})
<1>1. a \in Nat /\ a <= MaxSize /\ MaxSize \in Nat
  BY DiskAssumption DEF Sizes
<1>2. top \in {a, b} /\ \A y \in {a, b} : top >= y
  <2>1. \E x \in {a, b} : \A y \in {a, b} : x >= y
    <3>1. CASE a >= b
      BY <1>1, <3>1
    <3>2. CASE b >= a
      BY <1>1, <3>2
    <3> QED BY <1>1, <3>1, <3>2
  <2> QED BY <2>1 DEF Max
<1> HIDE DEF top
<1>3. top \in Nat
  BY <1>1, <1>2
<1>4. n \in {MaxSize, top} /\ \A y \in {MaxSize, top} : n <= y
  <2>1. \E x \in {MaxSize, top} : \A y \in {MaxSize, top} : x <= y
    <3>1. CASE MaxSize <= top
      BY <1>1, <1>3, <3>1
    <3>2. CASE top <= MaxSize
      BY <1>1, <1>3, <3>2
    <3> QED BY <1>1, <1>3, <3>1, <3>2
  <2> QED BY <2>1 DEF Min
<1> HIDE DEF n
<1>5. n \in Nat /\ n <= MaxSize /\ n <= top
  BY <1>1, <1>3, <1>4
<1>6. \A m \in Nat : a <= m /\ b <= m => n <= m
  BY <1>1, <1>2, <1>3, <1>5
<1>7. n \in Sizes
  BY <1>1, <1>5 DEF Sizes
<1> QED BY <1>6, <1>7 DEF n, top

(* The disk a run starts from. *)
LEMMA DiskOfView ==
  ASSUME NEW v \in Views, Sound(v)
  PROVE DiskOf(v) \in Disks /\ WellFormed(DiskOf(v)) /\ ~IsFile(DiskOf(v), Root)
<1> DEFINE order == SetToSeq(Paths)
           n == Cardinality(Paths)
           number == [p \in Paths |-> CHOOSE i \in 1..Len(order) : order[i] = p]
           size(i) == IF i <= Len(order) /\ v[order[i]] >= File(0) THEN v[order[i]] - File(0) ELSE 0
           d == DiskOf(v)
<1>1. n \in Nat /\ ExistsBijection(1..n, Paths) /\ IsFiniteSet(Paths)
  BY DiskAssumption, FS_CardinalityType
<1>2. PICK f : f \in Bijection(1..n, Paths)
  BY <1>1 DEF ExistsBijection
<1>3. f \in [1..n -> Paths] /\ IsInjective(f)
  BY <1>2 DEF Bijection, Injection
<1>4. order \in [1..n -> Paths] /\ IsInjective(order)
  BY <1>3 DEF SetToSeq
<1> HIDE DEF order
<1>5. order \in Injection(1..n, Paths)
  BY <1>4 DEF Injection
<1>6. order \in Surjection(1..n, Paths)
  <2>1. Cardinality(1..n) = n
    <3>1. 1 \in Int /\ n \in Int
      BY <1>1
    <3>2. Cardinality(1..n) = IF 1 > n THEN 0 ELSE n - 1 + 1
      BY <3>1, FS_Interval
    <3> QED BY <1>1, <3>2
  <2> QED BY <1>1, <1>5, <2>1, FS_Injection
<1>7. \A c \in Paths : \E i \in 1..n : order[i] = c
  BY <1>6 DEF Surjection
<1>8. Len(order) = n
  BY <1>1, <1>4
<1>9. \A p \in Paths : number[p] \in 1..n /\ order[number[p]] = p
  BY <1>7, <1>8
<1> HIDE DEF number, n
<1>10. \A p \in Paths : number[p] \in Inodes
  BY <1>1, <1>9 DEF Inodes, n
<1>11. \A i \in Inodes : size(i) \in Sizes
  <2> SUFFICES ASSUME NEW i \in Inodes PROVE size(i) \in Sizes
    OBVIOUS
  <2>1. MaxSize \in Nat /\ i \in Nat /\ i >= 1
    BY <1>1, DiskAssumption DEF Inodes, n
  <2>2. CASE i <= n
    <3>1. order[i] \in Paths
      BY <1>1, <1>4, <2>1, <2>2
    <3>2. v[order[i]] \in {Nothing, Directory} \cup {File(m) : m \in Sizes}
      BY <3>1 DEF Views
    <3>3. CASE v[order[i]] \in {Nothing, Directory}
      BY <1>8, <2>1, <3>3 DEF Nothing, Directory, File, Sizes
    <3>4. CASE v[order[i]] \in {File(m) : m \in Sizes}
      BY <1>8, <2>1, <3>4 DEF File, Sizes
    <3> QED BY <3>2, <3>3, <3>4
  <2>3. CASE ~(i <= n)
    BY <1>8, <2>1, <2>3 DEF Sizes
  <2> QED BY <2>2, <2>3
<1>12. /\ d.tree = [p \in Paths |-> IF v[p] = Nothing THEN 0 ELSE number[p]]
       /\ d.dirs = {number[p] : p \in {q \in Paths : v[q] = Directory}}
       /\ d.size = [i \in Inodes |-> size(i)]
       /\ d = [tree |-> d.tree, dirs |-> d.dirs, size |-> d.size]
  BY DEF DiskOf, order, number
<1> HIDE DEF d, size
<1>13. d \in Disks
  <2>1. d.tree \in [Paths -> Inodes \cup {0}]
    BY <1>10, <1>12
  <2>2. d.dirs \in SUBSET Inodes
    BY <1>10, <1>12
  <2>3. d.size \in [Inodes -> Sizes]
    BY <1>11, <1>12
  <2> QED BY <1>12, <2>1, <2>2, <2>3 DEF Disks
<1>14. \A p \in Paths : d.tree[p] = IF v[p] = Nothing THEN 0 ELSE number[p]
  BY <1>12
<1>15. \A p \in Paths : number[p] # 0
  BY <1>10, InodeFacts
<1>16. \A p \in Paths : Exists(d, p) <=> v[p] # Nothing
  BY <1>14, <1>15 DEF Exists
<1>17. ASSUME NEW p \in Paths PROVE IsDir(d, p) <=> v[p] = Directory
  <2>1. CASE v[p] = Directory
    BY <1>12, <1>14, <2>1 DEF IsDir, Directory, Nothing
  <2>2. ASSUME IsDir(d, p) PROVE v[p] = Directory
    <3>1. PICK q \in Paths : v[q] = Directory /\ d.tree[p] = number[q]
      BY <1>12, <2>2 DEF IsDir
    <3>2. d.tree[p] = number[p]
      BY <1>13, <1>14, <2>2, <1>15, <3>1
    <3>3. p = q
      BY <1>9, <3>1, <3>2
    <3> QED BY <3>1, <3>3
  <2> QED BY <2>1, <2>2
<1>18. WellFormed(d)
  <2>1. ASSUME NEW p \in Paths, Exists(d, p), NEW q \in Above(p) PROVE IsDir(d, q)
    BY <1>16, <1>17, <2>1 DEF Sound, Above
  <2>2. ASSUME NEW p \in Paths, NEW q \in Paths, Exists(d, p), d.tree[p] = d.tree[q] PROVE p = q
    <3>1. d.tree[p] = number[p] /\ d.tree[q] = number[q]
      BY <1>14, <2>2 DEF Exists
    <3> QED BY <1>9, <2>2, <3>1
  <2>3. ASSUME NEW j \in d.dirs PROVE \E p \in Paths : j = d.tree[p]
    <3>1. PICK p \in Paths : v[p] = Directory /\ j = number[p]
      BY <1>12, <2>3
    <3>2. d.tree[p] = number[p]
      BY <1>14, <3>1 DEF Nothing, Directory
    <3> QED BY <3>1, <3>2
  <2>4. d.dirs \subseteq {d.tree[p] : p \in Paths}
    BY <2>3
  <2> QED BY <2>1, <2>2, <2>4 DEF WellFormed
<1>19. ~IsFile(d, Root)
  <2>1. Root \in Paths
    BY DiskAssumption DEF Root
  <2> QED BY <1>16, <1>17, <2>1 DEF IsFile, Sound
<1> QED BY <1>13, <1>18, <1>19 DEF d

(* What os.Stat returns. *)
LEMMA StatType ==
  ASSUME NEW d \in Disks, NEW p \in Paths
  PROVE /\ Stat(d, p) \in Stats /\ NoStat \in Stats
        /\ (Stat(d, p).dir <=> IsDir(d, p)) /\ Stat(d, p).ino = d.tree[p]
        /\ Exists(d, p) => Stat(d, p).size = d.size[d.tree[p]]
        /\ ~Exists(d, p) => Stat(d, p) = NoStat
        /\ Stat(d, p).ino \in Inodes \cup {0} /\ Stat(d, p).size \in Sizes
<1>1. 0 \in Sizes
  BY DiskAssumption DEF Sizes
<1>2. NoStat \in Stats
  BY <1>1 DEF NoStat, Stats
<1>3. CASE Exists(d, p)
  <2>1. d.tree[p] \in Inodes /\ d.size[d.tree[p]] \in Sizes /\ IsDir(d, p) \in BOOLEAN
    BY <1>3, DiskParts DEF Exists, IsDir
  <2>2. Stat(d, p) = [ino |-> d.tree[p], dir |-> IsDir(d, p), size |-> d.size[d.tree[p]]]
    BY <1>3 DEF Stat
  <2> QED BY <1>2, <1>3, <2>1, <2>2 DEF Stats
<1>4. CASE ~Exists(d, p)
  <2>1. Stat(d, p) = NoStat /\ ~IsDir(d, p) /\ d.tree[p] = 0
    BY <1>4, DiskParts DEF Stat, Exists
  <2> QED BY <1>1, <1>2, <1>4, <2>1 DEF NoStat
<1> QED BY <1>3, <1>4

(* What a call remembers. *)
SeenType ==
  [src : Stats, dst : Stats, input : Inodes \cup {0}, file : Inodes \cup {0}, offset : {0},
   todo : Seq(EntryType), count : Nat, names : SUBSET Paths]

(* What a call returns. *)
ResultType == [code : Codes, got : Sizes, names : SUBSET Paths]

(* Which operations come to which system call, and with what in hand. *)
Fits(l, c, s) ==
  /\ l \in {"idle", "existing path", "create path", "stat source", "read names", "list entry",
            "open target", "open source", "write content", "copy content", "read file",
            "stat parents", "make parent", "make leaf", "stat leaf", "remove",
            "lstat root of walk", "walk", "remove all", "stat target", "compare",
            "same volume", "revalidate source", "revalidate target", "lstat target", "rename"}
  /\ l = "idle" => s = Unseen
  /\ l = "existing path" => c.op \notin {"write", "mkdir"}
  /\ l = "create path" => c.op \in {"write", "mkdir", "copy", "move"}
  /\ l = "stat source" => c.op \notin {"mkdir", "list"}
  /\ l = "read names" => c.op = "list" \/ (c.op = "delete" /\ ~c.flag)
  /\ l = "list entry" => c.op = "list"
  /\ l = "open target" => c.op \in {"write", "copy"}
  /\ l = "write content" => c.op = "write"
  /\ l \in {"open source", "copy content"} => c.op = "copy"
  /\ l = "read file" => c.op = "read"
  /\ l \in {"stat parents", "make parent", "make leaf", "stat leaf"} => c.op = "mkdir"
  /\ l = "make parent" => s.todo # << >>
  /\ l = "remove" => c.op = "delete"
  /\ l \in {"lstat root of walk", "walk", "remove all"} => c.op = "delete" /\ c.flag
  /\ l = "stat target" => c.op \in {"copy", "move"}
  /\ l \in {"compare", "same volume", "revalidate source", "revalidate target",
            "lstat target", "rename"} => c.op = "move"
  /\ l \in {"write content", "copy content"} => s.file # 0
  /\ l \in {"open target", "copy content"} /\ c.op = "copy" => s.input # 0

(* Control: the call, what it remembers and its next system call fit each  *)
(* other.                                                                  *)
ControlInv ==
  /\ call \in CallSet /\ seen \in SeenType /\ result \in ResultType
  /\ Fits(pc, call, seen)

(* The history variables: others have changed what is in since and touched. *)
HistoryInv ==
  /\ before \in Disks /\ WellFormed(before)
  /\ touched \subseteq Paths /\ since \subseteq touched
  /\ changed \in BOOLEAN /\ calls \in Nat /\ foreign \in Nat

(* The disk is a tree. *)
DiskInv == disk \in Disks /\ WellFormed(disk)

(* The parts of a call. *)
LEMMA CallType ==
  ASSUME NEW c \in CallSet
  PROVE /\ c.op \in Ops /\ c.path \in Paths /\ c.target \in Paths /\ c.flag \in BOOLEAN
        /\ c.size \in Sizes /\ c.size \in Nat /\ HasRoom(c)
<1>1. c \in AllCalls /\ HasRoom(c)
  BY FileOpsAssumption
<1>2. Sizes \subseteq Nat
  BY DiskAssumption DEF Sizes
<1> QED BY <1>1, <1>2 DEF AllCalls

(* At its beginning a call remembers nothing. *)
LEMMA UnseenType == Unseen \in SeenType /\ 0 \in Sizes
<1>1. 0 \in Sizes
  BY DiskAssumption DEF Sizes
<1>2. NoStat \in Stats
  BY <1>1 DEF NoStat, Stats
<1> QED BY <1>1, <1>2, ElementsOfNone DEF Unseen, SeenType

(* A call that returns leaves nothing behind. *)
LEMMA ReturnType ==
  ASSUME NEW code \in Codes, NEW got \in Sizes, NEW names \in SUBSET Paths,
         Return(code, got, names), ControlInv, call' = call
  PROVE ControlInv' /\ pc' = "idle" /\ seen' = Unseen
        /\ result'.code = code /\ result'.got = got /\ result'.names = names
<1>1. pc' = "idle" /\ seen' = Unseen /\ result' = [code |-> code, got |-> got, names |-> names]
  BY DEF Return
<1>2. result' \in ResultType
  BY <1>1 DEF ResultType
<1>3. Fits(pc', call', seen')
  BY <1>1 DEF Fits
<1> QED BY <1>1, <1>2, <1>3, UnseenType DEF ControlInv

(* A call that fails returns an error code. *)
LEMMA FailType ==
  ASSUME NEW code \in Codes, Fail(code), ControlInv, call' = call
  PROVE ControlInv' /\ pc' = "idle" /\ seen' = Unseen /\ result'.code = code
<1>1. Return(code, 0, {}) /\ 0 \in Sizes /\ {} \in SUBSET Paths
  BY UnseenType DEF Fail
<1> QED BY <1>1, ReturnType

(* A call that succeeds returns "ok". *)
LEMMA SucceedType ==
  ASSUME Succeed, ControlInv, call' = call
  PROVE ControlInv' /\ pc' = "idle" /\ seen' = Unseen /\ result'.code = "ok"
<1>1. Return("ok", 0, {}) /\ 0 \in Sizes /\ {} \in SUBSET Paths /\ "ok" \in Codes
  BY UnseenType DEF Succeed, Codes
<1> QED BY <1>1, ReturnType

(* A call that goes on has what its next system call needs. *)
LEMMA GotoType ==
  ASSUME NEW l, NEW s \in SeenType, Goto(l, s), Fits(l, call, s), ControlInv, call' = call
  PROVE ControlInv' /\ pc' = l /\ seen' = s
  BY DEF Goto, ControlInv

(* Every error code that the operations report. *)
LEMMA CodeType ==
  /\ \A p \in Paths : Missing(disk, p) \in Codes /\ Missing(disk, p) \in {NotFound, Internal}
  /\ {"ok", "existed", NotFound, Internal, "already_exists", "invalid_path",
      "unsupported_path_type", "limit_exceeded"} \subseteq Codes
  BY DEF Missing, Codes

(* The paths an operation looks at. *)
LEMMA PathsOfCall ==
  ASSUME ControlInv
  PROVE /\ call \in CallSet /\ call.path \in Paths /\ call.target \in Paths /\ ToCreate \in Paths
        /\ call.op \in Ops /\ call.flag \in BOOLEAN /\ call.size \in Nat /\ call.size \in Sizes
  BY CallType DEF ControlInv, ToCreate

(* A step that only looks does not change the call. *)
LEMMA LooksLeavesCall == (Looks => call' = call) /\ (LooksAnew => call' = call)
  BY DEF Looks, LooksAnew

-----------------------------------------------------------------------------
(* Control, one lemma for each system call. *)

(* The path guard on a path that must exist. *)
LEMMA ResolveExistingControl == ASSUME ControlInv, DiskInv, ResolveExisting PROVE ControlInv'
<1>1. call' = call /\ pc = "existing path"
  BY LooksLeavesCall DEF ResolveExisting
<1>2. CASE Fail(Missing(disk, call.path))
  BY <1>1, <1>2, PathsOfCall, CodeType, FailType
<1>3. CASE Goto(AfterResolve(call), seen)
  <2>1. Fits(AfterResolve(call), call, seen)
    <3>1. call.op \notin {"write", "mkdir"}
      BY <1>1 DEF ControlInv, Fits
    <3> QED BY <3>1 DEF AfterResolve, Fits
  <2>2. seen \in SeenType
    BY DEF ControlInv
  <2> QED BY <1>1, <1>3, <2>1, <2>2, GotoType
<1> QED BY <1>2, <1>3 DEF ResolveExisting

(* The path guard on a path that may be created. *)
LEMMA ResolveForCreateControl == ASSUME ControlInv, DiskInv, ResolveForCreate PROVE ControlInv'
<1>1. call' = call /\ pc = "create path" /\ seen \in SeenType
  BY LooksLeavesCall DEF ResolveForCreate, ControlInv
<1>2. ASSUME NEW c \in {Internal, "invalid_path", "limit_exceeded", "existed"}, Fail(c) PROVE ControlInv'
  <2>1. c \in Codes
    BY CodeType
  <2> QED BY <1>1, <1>2, <2>1, FailType
<1>3. CASE AfterResolveForCreate
  <2>1. ASSUME NEW l \in {"stat source", "stat parents"}, Goto(l, seen),
               l = "stat source" => call.op \in {"write", "copy", "move"},
               l = "stat parents" => call.op = "mkdir"
        PROVE ControlInv'
    <3>1. Fits(l, call, seen)
      BY <2>1 DEF Fits
    <3> QED BY <1>1, <2>1, <3>1, GotoType
  <2> QED BY <1>2, <1>3, <2>1 DEF AfterResolveForCreate
<1> QED BY <1>2, <1>3 DEF ResolveForCreate

(* The first os.Stat. *)
LEMMA StatSourceControl == ASSUME ControlInv, DiskInv, StatSource PROVE ControlInv'
<1>1. call' = call /\ pc = "stat source" /\ seen \in SeenType
  BY LooksLeavesCall DEF StatSource, ControlInv
<1>2. SawSource \in SeenType
  <2>1. Source \in Stats
    BY PathsOfCall, StatType DEF Source, DiskInv
  <2> QED BY <1>1, <2>1 DEF SawSource, SeenType
<1>3. ASSUME NEW c \in {Internal, NotFound, "already_exists", "unsupported_path_type", "limit_exceeded"},
             Fail(c) PROVE ControlInv'
  <2>1. c \in Codes
    BY CodeType
  <2> QED BY <1>1, <1>3, <2>1, FailType
<1>4. ASSUME NEW l \in {"open target", "remove", "lstat root of walk", "read names", "stat target", "read file"},
             Goto(l, SawSource),
             l = "open target" => call.op = "write",
             l = "remove" => call.op = "delete",
             l = "lstat root of walk" => call.op = "delete" /\ call.flag,
             l = "read names" => call.op = "delete" /\ ~call.flag,
             l = "stat target" => call.op \in {"copy", "move"},
             l = "read file" => call.op = "read"
      PROVE ControlInv'
  <2>1. Fits(l, call, SawSource)
    BY <1>4 DEF Fits
  <2> QED BY <1>1, <1>2, <1>4, <2>1, GotoType
<1>5. CASE WriteAfterStat
  BY <1>3, <1>4, <1>5 DEF WriteAfterStat
<1>6. CASE NeedsSource
  <2>1. Missing(disk, call.path) \in {NotFound, Internal}
    BY PathsOfCall, CodeType
  <2> QED BY <1>3, <1>6, <2>1 DEF NeedsSource
<1>7. CASE DeleteAfterStat
  BY <1>3, <1>4, <1>7 DEF DeleteAfterStat
<1>8. CASE CopyAfterStat
  BY <1>3, <1>4, <1>8 DEF CopyAfterStat
<1>9. CASE MoveAfterStat
  BY <1>3, <1>4, <1>9 DEF MoveAfterStat
<1>10. CASE ReadAfterStat
  BY <1>3, <1>4, <1>10 DEF ReadAfterStat
<1>11. CASE StatOnly
  <2>1. Source.size \in Sizes /\ "ok" \in Codes
    BY PathsOfCall, StatType, CodeType DEF Source, DiskInv
  <2>2. Return("ok", Source.size, {}) /\ {} \in SUBSET Paths
    BY <1>11 DEF StatOnly
  <2> QED BY <1>1, <2>1, <2>2, ReturnType
<1> QED BY <1>5, <1>6, <1>7, <1>8, <1>9, <1>10, <1>11 DEF StatSource

(* The look at the target of a copy. *)
LEMMA CopyStatTargetControl == ASSUME ControlInv, DiskInv, CopyStatTarget PROVE ControlInv'
<1>1. call' = call /\ pc = "stat target" /\ seen \in SeenType /\ call.op = "copy"
  BY LooksLeavesCall DEF CopyStatTarget, ControlInv
<1>2. ASSUME NEW c \in {Internal, "already_exists", "unsupported_path_type"}, Fail(c) PROVE ControlInv'
  <2>1. c \in Codes
    BY CodeType
  <2> QED BY <1>1, <1>2, <2>1, FailType
<1>3. ASSUME Goto("open source", seen) PROVE ControlInv'
  <2>1. Fits("open source", call, seen)
    BY <1>1 DEF Fits
  <2> QED BY <1>1, <1>3, <2>1, GotoType
<1> QED BY <1>2, <1>3 DEF CopyStatTarget

(* open(2) of the source of a copy. *)
LEMMA OpenSourceControl == ASSUME ControlInv, DiskInv, OpenSource PROVE ControlInv'
<1>1. call' = call /\ pc = "open source" /\ seen \in SeenType /\ call.path \in Paths /\ call.op = "copy"
  BY LooksLeavesCall, PathsOfCall DEF OpenSource, ControlInv, Fits
<1>2. CASE Exists(disk, call.path)
  <2> DEFINE s == [seen EXCEPT !.input = Source.ino]
  <2>1. Source.ino \in Inodes \cup {0} /\ Source.ino # 0
    BY <1>1, <1>2, StatType DEF Source, DiskInv, Exists
  <2>2. s \in SeenType /\ s.input # 0
    BY <1>1, <2>1 DEF SeenType
  <2>3. Goto("open target", s)
    BY <1>2 DEF OpenSource
  <2>4. Fits("open target", call, s)
    BY <1>1, <2>2 DEF Fits
  <2> HIDE DEF s
  <2> QED BY <1>1, <2>2, <2>3, <2>4, GotoType
<1>3. CASE ~Exists(disk, call.path)
  BY <1>1, <1>3, CodeType, FailType DEF OpenSource
<1> QED BY <1>2, <1>3

(* open(2) of the target, with O_TRUNC or O_EXCL. *)
LEMMA OpenTargetControl == ASSUME ControlInv, DiskInv, OpenTarget PROVE ControlInv'
<1>1. pc = "open target" /\ seen \in SeenType /\ ToCreate \in Paths /\ call.op \in {"write", "copy"}
  BY PathsOfCall DEF OpenTarget, ControlInv, Fits
<1>2. ASSUME NEW i \in Inodes, Goto(AfterOpen, IsOpened(i)), call' = call PROVE ControlInv'
  <2>1. i # 0
    BY InodeFacts
  <2>2. IsOpened(i) \in SeenType /\ IsOpened(i).file = i /\ IsOpened(i).input = seen.input
    BY <1>1 DEF IsOpened, SeenType
  <2>3. call.op = "copy" => seen.input # 0
    BY <1>1 DEF ControlInv, Fits
  <2>4. AfterOpen = IF call.op = "write" THEN "write content" ELSE "copy content"
    BY DEF AfterOpen
  <2>5. CASE call.op = "write"
    <3>1. Fits("write content", call, IsOpened(i))
      BY <2>1, <2>2, <2>5 DEF Fits
    <3> QED BY <1>2, <2>2, <2>4, <2>5, <3>1, GotoType
  <2>6. CASE call.op = "copy"
    <3>1. Fits("copy content", call, IsOpened(i))
      BY <2>1, <2>2, <2>3, <2>6 DEF Fits
    <3> QED BY <1>2, <2>2, <2>4, <2>6, <3>1, GotoType
  <2> QED BY <1>1, <2>5, <2>6
<1>3. CASE CreateTarget
  <2>1. FreeInode(disk, Open) \in Inodes
    BY <1>1, <1>3, FreeInodeFound DEF CreateTarget, CanCreate, Open, DiskInv
  <2>2. Goto(AfterOpen, IsOpened(FreeInode(disk, Open))) /\ call' = call
    BY <1>3 DEF CreateTarget, Sets
  <2> QED BY <1>2, <2>1, <2>2
<1>4. CASE OpenExisting
  <2>1. CASE Fail("already_exists") /\ Looks
    BY <2>1, LooksLeavesCall, CodeType, FailType
  <2>2. CASE Fail(Internal) /\ Looks
    BY <2>2, LooksLeavesCall, CodeType, FailType
  <2>3. CASE /\ call.flag /\ IsFile(disk, ToCreate)
             /\ Sets(Store(disk, Target.ino, 0)) /\ Goto(AfterOpen, IsOpened(Target.ino))
    <3>1. Target.ino \in Inodes /\ call' = call
      BY <1>1, <2>3, StatType DEF Target, DiskInv, IsFile, Exists, Sets
    <3> QED BY <1>2, <2>3, <3>1
  <2> QED BY <1>4, <2>1, <2>2, <2>3 DEF OpenExisting
<1>5. CASE Fail(Missing(disk, ToCreate)) /\ Looks
  BY <1>1, <1>5, LooksLeavesCall, CodeType, FailType
<1> QED BY <1>3, <1>4, <1>5 DEF OpenTarget

(* The content is written, in whole or in part. *)
LEMMA ContentControl ==
  ASSUME ControlInv, DiskInv, WriteContent \/ WriteContentFails \/ CopyContent \/ CopyContentFails
  PROVE ControlInv' /\ pc' = "idle"
<1>1. CASE WriteContent
  <2>1. Succeed /\ call' = call
    BY <1>1 DEF WriteContent, Sets
  <2> QED BY <2>1, SucceedType
<1>2. CASE WriteContentFails
  <2>1. Fail(Internal) /\ call' = call
    BY <1>2 DEF WriteContentFails
  <2> QED BY <2>1, FailType, CodeType
<1>3. CASE CopyContent
  <2>1. (Fail(Internal) \/ Succeed) /\ call' = call
    BY <1>3, LooksLeavesCall DEF CopyContent, Sets
  <2> QED BY <2>1, FailType, CodeType, SucceedType
<1>4. CASE CopyContentFails
  <2>1. Fail(Internal) /\ call' = call
    BY <1>4 DEF CopyContentFails
  <2> QED BY <2>1, FailType, CodeType
<1> QED BY <1>1, <1>2, <1>3, <1>4

(* os.ReadFile. *)
LEMMA ReadFileControl == ASSUME ControlInv, DiskInv, ReadFile PROVE ControlInv'
<1>1. call' = call /\ call.path \in Paths
  BY LooksLeavesCall, PathsOfCall DEF ReadFile
<1>2. CASE Fail(Missing(disk, call.path)) \/ Fail(Internal)
  BY <1>1, <1>2, CodeType, FailType
<1>3. CASE Return("ok", Source.size, {})
  <2>1. Source.size \in Sizes /\ "ok" \in Codes /\ {} \in SUBSET Paths
    BY <1>1, StatType, CodeType DEF Source, DiskInv
  <2> QED BY <1>1, <1>3, <2>1, ReturnType
<1> QED BY <1>2, <1>3 DEF ReadFile

(* The first entry of those still to be visited. *)
LEMMA HeadType ==
  ASSUME NEW t \in Seq(EntryType), t # << >>
  PROVE /\ Head(t) \in EntryType /\ Head(t).path \in Paths /\ Tail(t) \in Seq(EntryType)
        /\ Len(t) # 1 => Tail(t) # << >>
<1>1. Head(t) \in EntryType /\ Tail(t) \in Seq(EntryType)
  BY HeadTailProperties
<1>2. Len(Tail(t)) = Len(t) - 1 /\ Len(t) \in Nat
  OBVIOUS
<1>3. ASSUME Len(t) # 1, Tail(t) = << >> PROVE FALSE
  <2>1. Len(<< >>) = 0
    OBVIOUS
  <2>2. Len(Tail(t)) = 0
    BY <1>3, <2>1, Zenon
  <2> QED BY <1>2, <1>3, <2>2
<1> QED BY <1>1, <1>3 DEF EntryType

(* What os.ReadDir says of an entry. *)
LEMMA ListedType == \A p \in Paths : Listed(p) \in EntryType
  BY DEF Listed, EntryType, IsDir

(* The directory that MkdirAll looks at is a path. *)
LEMMA LowestType == ASSUME ControlInv PROVE Lowest \in Paths
<1>1. call.path \in Paths /\ seen.todo \in Seq(EntryType)
  BY PathsOfCall DEF ControlInv, SeenType
<1>2. CASE seen.todo = << >>
  BY <1>1, <1>2, FrontPath DEF Lowest
<1>3. CASE seen.todo # << >>
  <2>1. Head(seen.todo).path \in Paths
    BY <1>1, <1>3, HeadType
  <2> QED BY <1>3, <2>1, FrontPath DEF Lowest
<1> QED BY <1>2, <1>3

(* MkdirAll looks upwards. *)
LEMMA StatParentsControl == ASSUME ControlInv, DiskInv, StatParents PROVE ControlInv'
<1>1. call' = call /\ pc = "stat parents" /\ seen \in SeenType /\ call.op = "mkdir"
  BY LooksLeavesCall DEF StatParents, ControlInv, Fits
<1>2. CASE Fail(Internal)
  BY <1>1, <1>2, CodeType, FailType
<1> DEFINE t == <<Entry(Lowest)>> \o seen.todo
           s == [seen EXCEPT !.todo = t]
<1>3. CASE Goto("stat parents", s)
  <2>1. Entry(Lowest) \in EntryType
    BY LowestType DEF Entry, EntryType
  <2>2. t \in Seq(EntryType)
    <3>1. <<Entry(Lowest)>> \in Seq(EntryType) /\ seen.todo \in Seq(EntryType)
      BY <1>1, <2>1, ElementsOfOne DEF SeenType
    <3> QED BY <3>1, ElementsOfConcat
  <2> HIDE DEF t
  <2>3. s \in SeenType
    BY <1>1, <2>2 DEF SeenType
  <2>4. Fits("stat parents", call, s)
    BY <1>1 DEF Fits
  <2> HIDE DEF s
  <2> QED BY <1>1, <1>3, <2>3, <2>4, GotoType
<1>4. CASE Goto(IF seen.todo = << >> THEN "make leaf" ELSE "make parent", seen)
  <2>1. CASE seen.todo = << >>
    <3>1. Fits("make leaf", call, seen)
      BY <1>1 DEF Fits
    <3> QED BY <1>1, <1>4, <2>1, <3>1, GotoType
  <2>2. CASE seen.todo # << >>
    <3>1. Fits("make parent", call, seen)
      BY <1>1, <2>2 DEF Fits
    <3> QED BY <1>1, <1>4, <2>2, <3>1, GotoType
  <2> QED BY <2>1, <2>2
<1> QED BY <1>2, <1>3, <1>4 DEF StatParents

(* MkdirAll makes a parent. *)
LEMMA MakeParentControl == ASSUME ControlInv, DiskInv, MakeParent PROVE ControlInv'
<1>1. pc = "make parent" /\ seen \in SeenType /\ call.op = "mkdir" /\ seen.todo # << >>
  BY DEF MakeParent, ControlInv, Fits
<1>2. seen.todo \in Seq(EntryType) /\ Head(seen.todo).path \in Paths
  BY <1>1, HeadType DEF SeenType
<1>3. call' = call
  BY LooksLeavesCall DEF MakeParent, Sets
<1> DEFINE s == [seen EXCEPT !.todo = Tail(seen.todo)]
           l == IF Len(seen.todo) = 1 THEN "make leaf" ELSE "make parent"
<1>4. CASE Goto(l, s)
  <2>1. Tail(seen.todo) \in Seq(EntryType) /\ (Len(seen.todo) # 1 => Tail(seen.todo) # << >>)
    BY <1>1, <1>2, HeadType
  <2>2. s \in SeenType /\ s.todo = Tail(seen.todo)
    BY <1>1, <2>1 DEF SeenType
  <2> HIDE DEF s
  <2>3. Fits(l, call, s)
    BY <1>1, <2>1, <2>2 DEF Fits
  <2> HIDE DEF l
  <2> QED BY <1>3, <1>4, <2>2, <2>3, GotoType
<1>5. CASE Fail("already_exists") \/ Fail(Missing(disk, Head(seen.todo).path))
  BY <1>2, <1>3, <1>5, CodeType, FailType
<1> QED BY <1>4, <1>5 DEF MakeParent

(* The directory itself is made. *)
LEMMA MakeLeafControl == ASSUME ControlInv, DiskInv, MakeLeaf PROVE ControlInv'
<1>1. pc = "make leaf" /\ seen \in SeenType /\ call.op = "mkdir" /\ call.path \in Paths
  BY PathsOfCall DEF MakeLeaf, ControlInv, Fits
<1>2. call' = call
  BY LooksLeavesCall DEF MakeLeaf, Sets
<1>3. CASE Succeed
  BY <1>2, <1>3, SucceedType
<1>4. CASE Goto("stat leaf", seen)
  <2>1. Fits("stat leaf", call, seen)
    BY <1>1 DEF Fits
  <2> QED BY <1>1, <1>2, <1>4, <2>1, GotoType
<1>5. CASE Fail(Missing(disk, call.path))
  BY <1>1, <1>2, <1>5, CodeType, FailType
<1> QED BY <1>3, <1>4, <1>5 DEF MakeLeaf

(* What stands where the directory was to be made is looked at. *)
LEMMA StatLeafControl == ASSUME ControlInv, DiskInv, StatLeaf PROVE ControlInv'
<1>1. call' = call /\ call.path \in Paths
  BY LooksLeavesCall, PathsOfCall DEF StatLeaf
<1>2. CASE Fail(Missing(disk, call.path))
  BY <1>1, <1>2, CodeType, FailType
<1>3. CASE Fail("existed")
  BY <1>1, <1>3, CodeType, FailType
<1>4. CASE Fail("unsupported_path_type")
  BY <1>1, <1>4, CodeType, FailType
<1> QED BY <1>2, <1>3, <1>4 DEF StatLeaf

(* os.ReadDir. *)
LEMMA ReadNamesControl == ASSUME ControlInv, DiskInv, ReadNames PROVE ControlInv'
<1>1. call' = call /\ pc = "read names" /\ seen \in SeenType /\ call.path \in Paths
      /\ (call.op = "list" \/ call.op = "delete")
  BY LooksLeavesCall, PathsOfCall DEF ReadNames, ControlInv, Fits
<1>2. CASE Fail(Missing(disk, call.path))
  BY <1>1, <1>2, CodeType, FailType
<1>3. CASE Fail(Internal) \/ Fail("unsupported_path_type")
  BY <1>1, <1>3, CodeType, FailType
<1>4. CASE call.op = "delete" /\ Goto("remove", seen)
  <2>1. Fits("remove", call, seen)
    BY <1>1, <1>4 DEF Fits
  <2> QED BY <1>1, <1>4, <2>1, GotoType
<1> DEFINE s == [seen EXCEPT !.todo = Snapshot(call.path)]
<1>5. CASE call.op = "list" /\ Goto("list entry", s)
  <2>1. Snapshot(call.path) \in Seq(EntryType)
    BY <1>1, SnapshotMeans DEF DiskInv
  <2>2. s \in SeenType
    BY <1>1, <2>1 DEF SeenType
  <2> HIDE DEF s
  <2>3. Fits("list entry", call, s)
    BY <1>5 DEF Fits
  <2> QED BY <1>1, <1>5, <2>2, <2>3, GotoType
<1> QED BY <1>1, <1>2, <1>3, <1>4, <1>5 DEF ReadNames

(* One entry of a listing. *)
LEMMA ListEntryControl == ASSUME ControlInv, DiskInv, ListEntry PROVE ControlInv'
<1>1. call' = call /\ pc = "list entry" /\ seen \in SeenType /\ call.op = "list"
      /\ seen.todo \in Seq(EntryType) /\ seen.names \in SUBSET Paths
  BY LooksLeavesCall DEF ListEntry, ControlInv, Fits, SeenType
<1>2. CASE seen.todo = << >>
  <2>1. Return("ok", 0, seen.names) /\ "ok" \in Codes /\ 0 \in Sizes
    BY <1>2, UnseenType, CodeType DEF ListEntry
  <2> QED BY <1>1, <2>1, ReturnType
<1>3. CASE seen.todo # << >>
  <2> DEFINE p == Head(seen.todo).path
             s == [seen EXCEPT !.todo = Tail(@), !.names = @ \cup {p}]
  <2>1. p \in Paths /\ Tail(seen.todo) \in Seq(EntryType)
    BY <1>1, <1>3, HeadType
  <2>2. CASE Fail(Missing(disk, p)) \/ Fail("limit_exceeded")
    BY <1>1, <2>1, <2>2, CodeType, FailType
  <2>3. CASE Goto("list entry", s)
    <3>1. s \in SeenType
      <4> HIDE DEF p
      <4> QED BY <1>1, <2>1 DEF SeenType
    <3>2. Fits("list entry", call, s)
      BY <1>1 DEF Fits
    <3> HIDE DEF s
    <3> QED BY <1>1, <2>3, <3>1, <3>2, GotoType
  <2> QED BY <1>3, <2>2, <2>3 DEF ListEntry
<1> QED BY <1>2, <1>3

(* os.Remove. *)
LEMMA RemovePathControl == ASSUME ControlInv, DiskInv, RemovePath PROVE ControlInv'
<1>1. call' = call /\ call.path \in Paths
  BY LooksLeavesCall, PathsOfCall DEF RemovePath, Sets
<1>2. CASE Fail(Missing(disk, call.path))
  BY <1>1, <1>2, CodeType, FailType
<1>3. CASE Fail("already_exists")
  BY <1>1, <1>3, CodeType, FailType
<1>4. CASE Succeed
  BY <1>1, <1>4, SucceedType
<1> QED BY <1>2, <1>3, <1>4 DEF RemovePath

(* The walk starts at the path itself. *)
LEMMA WalkRootControl == ASSUME ControlInv, DiskInv, WalkRoot PROVE ControlInv'
<1>1. call' = call /\ pc = "lstat root of walk" /\ seen \in SeenType /\ call.path \in Paths
      /\ call.op = "delete" /\ call.flag
  BY LooksLeavesCall, PathsOfCall DEF WalkRoot, ControlInv, Fits
<1>2. CASE Fail(Missing(disk, call.path))
  BY <1>1, <1>2, CodeType, FailType
<1> DEFINE s == [seen EXCEPT !.todo = <<Listed(call.path)>>]
<1>3. CASE Goto("walk", s)
  <2>1. Listed(call.path) \in EntryType
    BY <1>1, ListedType
  <2>2. <<Listed(call.path)>> \in Seq(EntryType)
    BY <2>1, ElementsOfOne
  <2>3. s \in SeenType
    BY <1>1, <2>2 DEF SeenType
  <2> HIDE DEF s
  <2>4. Fits("walk", call, s)
    BY <1>1 DEF Fits
  <2> QED BY <1>1, <1>3, <2>3, <2>4, GotoType
<1> QED BY <1>2, <1>3 DEF WalkRoot

(* The walk comes to an entry. *)
LEMMA WalkControl == ASSUME ControlInv, DiskInv, Walk PROVE ControlInv'
<1>1. call' = call /\ pc = "walk" /\ seen \in SeenType /\ call.op = "delete" /\ call.flag
      /\ seen.todo \in Seq(EntryType) /\ seen.count \in Nat
  BY LooksLeavesCall DEF Walk, ControlInv, Fits, SeenType
<1>2. CASE seen.todo = << >>
  <2>1. Goto("remove all", seen)
    BY <1>2 DEF Walk
  <2>2. Fits("remove all", call, seen)
    BY <1>1 DEF Fits
  <2> QED BY <1>1, <2>1, <2>2, GotoType
<1>3. CASE seen.todo # << >>
  <2> DEFINE p == Head(seen.todo).path
             n == IF p = call.path THEN 0 ELSE seen.count + 1
             s(more) == [seen EXCEPT !.todo = more \o Tail(@), !.count = n]
  <2>1. p \in Paths /\ Tail(seen.todo) \in Seq(EntryType)
    BY <1>1, <1>3, HeadType
  <2>2. CASE Fail("limit_exceeded") \/ Fail(Missing(disk, p)) \/ Fail(Internal)
    BY <1>1, <2>1, <2>2, CodeType, FailType
  <2>3. ASSUME NEW more \in Seq(EntryType), Goto("walk", s(more)) PROVE ControlInv'
    <3>1. more \o Tail(seen.todo) \in Seq(EntryType)
      BY <2>1, <2>3, ElementsOfConcat
    <3>2. n \in Nat
      BY <1>1
    <3> HIDE DEF n
    <3>3. s(more) \in SeenType
      BY <1>1, <3>1, <3>2 DEF SeenType
    <3>4. Fits("walk", call, s(more))
      BY <1>1 DEF Fits
    <3> HIDE DEF s
    <3> QED BY <1>1, <2>3, <3>3, <3>4, GotoType
  <2>4. << >> \in Seq(EntryType) /\ Snapshot(p) \in Seq(EntryType)
    BY <2>1, ElementsOfNone, SnapshotMeans DEF DiskInv
  <2> QED BY <1>3, <2>2, <2>3, <2>4 DEF Walk
<1> QED BY <1>2, <1>3

(* os.RemoveAll takes the next entry away, finds nothing left or gives up. *)
LEMMA RemoveAllControl ==
  ASSUME ControlInv, DiskInv, RemoveAllStep \/ RemoveAllGone \/ RemoveAllRaced \/ RemoveAllFails
  PROVE ControlInv' /\ pc' \in {"idle", "remove all"}
<1>1. call' = call /\ pc = "remove all" /\ seen \in SeenType /\ call.op = "delete" /\ call.flag
  BY LooksLeavesCall
     DEF RemoveAllStep, RemoveAllGone, RemoveAllRaced, RemoveAllFails, ControlInv, Fits, Sets
<1>2. CASE Succeed
  BY <1>1, <1>2, SucceedType
<1>3. CASE Fail(Internal)
  BY <1>1, <1>3, CodeType, FailType
<1>4. CASE Fail("already_exists")
  BY <1>1, <1>4, CodeType, FailType
<1>5. CASE Goto("remove all", seen)
  <2>1. Fits("remove all", call, seen)
    BY <1>1 DEF Fits
  <2> QED BY <1>1, <1>5, <2>1, GotoType
<1> QED BY <1>2, <1>3, <1>4, <1>5 DEF RemoveAllStep, RemoveAllGone, RemoveAllRaced, RemoveAllFails

(* The first look at the target of a move. *)
LEMMA MoveStatTargetControl == ASSUME ControlInv, DiskInv, MoveStatTarget PROVE ControlInv'
<1>1. call' = call /\ pc = "stat target" /\ seen \in SeenType /\ call.op = "move" /\ ToCreate \in Paths
  BY LooksLeavesCall, PathsOfCall DEF MoveStatTarget, ControlInv
<1>2. CASE Fail(Internal) \/ Fail("invalid_path")
  BY <1>1, <1>2, CodeType, FailType
<1> DEFINE s == [seen EXCEPT !.dst = Target]
<1>3. CASE Goto("compare", s)
  <2>1. Target \in Stats
    BY <1>1, StatType DEF Target, DiskInv
  <2>2. s \in SeenType
    BY <1>1, <2>1 DEF SeenType
  <2> HIDE DEF s
  <2>3. Fits("compare", call, s)
    BY <1>1 DEF Fits
  <2> QED BY <1>1, <1>3, <2>2, <2>3, GotoType
<1> QED BY <1>2, <1>3 DEF MoveStatTarget

(* The rest of Move: every step fails or goes on with what it has. *)
LEMMA MoveControl ==
  ASSUME ControlInv, DiskInv,
         \/ MoveCompare \/ MovePolicy \/ RevalidateSource \/ RevalidateTarget \/ RenameLooks
         \/ MoveRename
  PROVE ControlInv'
<1>1. /\ pc \in {"compare", "same volume", "revalidate source", "revalidate target",
                 "lstat target", "rename"}
      /\ call' = call
  BY LooksLeavesCall
     DEF MoveCompare, MovePolicy, RevalidateSource, RevalidateTarget, RenameLooks, MoveRename, Sets
<1>2. seen \in SeenType /\ call.op = "move" /\ call.path \in Paths /\ call.target \in Paths
  BY <1>1, PathsOfCall DEF ControlInv, Fits
<1>3. ASSUME NEW c \in {NotFound, Internal, "invalid_path", "already_exists", "unsupported_path_type"},
             Fail(c) PROVE ControlInv'
  <2>1. c \in Codes
    BY CodeType
  <2> QED BY <1>1, <1>3, <2>1, FailType
<1>4. Missing(disk, call.path) \in {NotFound, Internal} /\ Missing(disk, call.target) \in {NotFound, Internal}
  BY <1>2, CodeType
<1>5. ASSUME NEW l \in {"same volume", "revalidate source", "revalidate target", "lstat target", "rename"},
             Goto(l, seen) PROVE ControlInv'
  <2>1. Fits(l, call, seen)
    BY <1>2, <1>5 DEF Fits
  <2> QED BY <1>1, <1>2, <1>5, <2>1, GotoType
<1>6. CASE MoveCompare
  BY <1>3, <1>4, <1>5, <1>6 DEF MoveCompare
<1>7. CASE MovePolicy
  BY <1>3, <1>4, <1>5, <1>7 DEF MovePolicy
<1>8. CASE RevalidateSource
  BY <1>3, <1>4, <1>5, <1>8 DEF RevalidateSource
<1>9. CASE RevalidateTarget
  BY <1>3, <1>4, <1>5, <1>9 DEF RevalidateTarget
<1>10. CASE RenameLooks
  BY <1>3, <1>4, <1>5, <1>10 DEF RenameLooks
<1>11. CASE MoveRename
  <2>1. CASE Succeed
    BY <1>1, <2>1, SucceedType
  <2>2. CASE Fail(RenameError)
    <3>1. RenameError \in {NotFound, Internal, "already_exists"}
      BY <1>4 DEF RenameError
    <3> QED BY <1>3, <2>2, <3>1
  <2> QED BY <1>11, <2>1, <2>2 DEF MoveRename
<1> QED BY <1>1, <1>6, <1>7, <1>8, <1>9, <1>10, <1>11

(* A step of the server keeps the control part. *)
LEMMA WorkControl == ASSUME ControlInv, DiskInv, Work \/ Break PROVE ControlInv'
BY ResolveExistingControl, ResolveForCreateControl, StatSourceControl, CopyStatTargetControl,
   OpenSourceControl, OpenTargetControl, ContentControl, ReadFileControl, StatParentsControl,
   MakeParentControl, MakeLeafControl, StatLeafControl, ReadNamesControl, ListEntryControl,
   RemovePathControl, WalkRootControl, WalkControl, RemoveAllControl, MoveStatTargetControl,
   MoveControl DEF Work, Break

(* A new call. *)
LEMMA BeginControl == ASSUME ControlInv, NEW c \in CallSet, Begin(c) PROVE ControlInv'
<1>1. /\ pc = "idle" /\ call' = c /\ pc' = First(c) /\ seen' = seen /\ result' = result
  BY DEF Begin
<1>2. c.op \in Ops
  BY CallType
<1>3. Fits(First(c), c, seen)
  BY <1>2 DEF Fits, First, Ops
<1> QED BY <1>1, <1>3 DEF ControlInv

(* What a step of the server does to the disk. *)
Made ==
  /\ pc \in {"open target", "make parent", "make leaf"} /\ call.op \in {"write", "copy", "mkdir"}
  /\ \E p \in Paths, i \in Inodes, isDir \in BOOLEAN :
       /\ CanCreate(disk, p) /\ \A r \in Paths : disk.tree[r] # i
       /\ disk' = Create(disk, p, i, isDir)
(* An existing file is opened with O_TRUNC. *)
Truncated ==
  /\ pc = "open target" /\ call.op \in {"write", "copy"} /\ call.flag /\ IsFile(disk, ToCreate)
  /\ disk' = Store(disk, disk.tree[ToCreate], 0)
(* Bytes are written to the open file. *)
Wrote ==
  /\ pc \in {"write content", "copy content"} /\ call.op \in {"write", "copy"}
  /\ \E n \in Sizes : disk' = Store(disk, seen.file, n)
(* A file or an empty directory is taken away. *)
Removed ==
  /\ pc \in {"remove", "remove all"} /\ call.op = "delete"
  /\ \E p \in Below(call.path) :
       /\ Removable(p) /\ disk' = Unlink(disk, p)
       /\ ~call.flag => p = call.path
(* rename(2) from the source to the target. *)
Renamed ==
  /\ pc = "rename" /\ call.op = "move" /\ MayRename(disk, call.path, call.target)
  /\ disk' = Rename(disk, call.path, call.target)

(* The call and what others have touched since it began stay as they are. *)
LeavesHistory ==
  /\ call' = call /\ before' = before /\ touched' = touched
  /\ foreign' = foreign /\ calls' = calls /\ since' \in {since, {}}
(* The disk stays as it is. *)
Keeps == disk' = disk /\ changed' = changed

(* A step that only looks leaves all this alone. *)
LEMMA LooksKeeps == ASSUME Looks \/ LooksAnew PROVE LeavesHistory /\ Keeps
  BY DEF Looks, LooksAnew, LeavesHistory, Keeps, history

(* A step that sets the disk. *)
LEMMA SetsMeans ==
  ASSUME NEW d, Sets(d)
  PROVE LeavesHistory /\ disk' = d /\ changed' = TRUE
  BY DEF Sets, LeavesHistory

(* A new file or directory. *)
LEMMA MadeBy ==
  ASSUME ControlInv, DiskInv, NEW p \in Paths, CanCreate(disk, p), NEW isDir \in BOOLEAN,
         Sets(Create(disk, p, FreeInode(disk, Open), isDir)),
         pc \in {"open target", "make parent", "make leaf"}
  PROVE LeavesHistory /\ changed' = TRUE /\ Made
<1>1. /\ FreeInode(disk, Open) \in Inodes
      /\ \A r \in Paths : disk.tree[r] # FreeInode(disk, Open)
  BY FreeInodeFound DEF CanCreate, Open, DiskInv
<1>2. call.op \in {"write", "copy", "mkdir"}
  BY DEF ControlInv, Fits
<1>3. LeavesHistory /\ disk' = Create(disk, p, FreeInode(disk, Open), isDir) /\ changed' = TRUE
  BY SetsMeans
<1> DEFINE i == FreeInode(disk, Open)
<1> HIDE DEF i
<1>4. i \in Inodes /\ CanCreate(disk, p) /\ (\A r \in Paths : disk.tree[r] # i)
      /\ disk' = Create(disk, p, i, isDir)
  BY <1>1, <1>3 DEF i
<1>5. Made
  BY <1>2, <1>4 DEF Made
<1> QED BY <1>3, <1>5

(* Arithmetic of the position in the file. *)
LEMMA ZeroPlus == \A n \in Nat : 0 + n \in Nat
  OBVIOUS

(* Bytes written to the open file. *)
LEMMA WroteBy ==
  ASSUME ControlInv, DiskInv, pc \in {"write content", "copy content"},
         NEW n \in Nat, disk' = Written(n)
  PROVE Wrote
<1>1. seen.file \in Inodes /\ seen.offset = 0 /\ call.op \in {"write", "copy"}
  BY DEF ControlInv, Fits, SeenType
<1>2. disk.size[seen.file] \in Sizes /\ seen.offset + n \in Nat
  <2>1. disk.size \in [Inodes -> Sizes]
    BY DiskParts DEF DiskInv
  <2>2. disk.size[seen.file] \in Sizes
    BY <1>1, <2>1
  <2>3. seen.offset + n \in Nat
    <3>1. 0 + n \in Nat
      BY ZeroPlus
    <3>2. seen.offset = 0
      BY <1>1
    <3> QED BY <3>1, <3>2, Zenon
  <2> QED BY <2>2, <2>3
<1>3. Min({MaxSize, Max({disk.size[seen.file], seen.offset + n})}) \in Sizes
  BY <1>2, WrittenSize
<1> QED BY <1>1, <1>3 DEF Written, Wrote

(* Every step of the server leaves the disk alone or does one of the five. *)
LEMMA WorkEffect ==
  ASSUME ControlInv, DiskInv, HistoryInv, Work \/ Break
  PROVE LeavesHistory /\ (Keeps \/ (changed' = TRUE /\ (Made \/ Truncated \/ Wrote \/ Removed \/ Renamed)))
<1>0. /\ call.path \in Paths /\ call.target \in Paths /\ ToCreate \in Paths
      /\ Sizes \subseteq Nat /\ call.size \in Nat
  BY PathsOfCall, DiskAssumption DEF Sizes
<1> DEFINE Goal == LeavesHistory /\ (Keeps \/ (changed' = TRUE /\ (Made \/ Truncated \/ Wrote \/ Removed \/ Renamed)))
<1>1. CASE Looks \/ LooksAnew
  BY <1>1, LooksKeeps
<1>2. CASE OpenTarget
  <2>1. CASE CreateTarget
    BY <1>0, <1>2, <2>1, MadeBy DEF CreateTarget, OpenTarget
  <2>2. CASE OpenExisting
    <3>1. CASE call.flag /\ IsFile(disk, ToCreate) /\ Sets(Store(disk, Target.ino, 0))
      <4>1. Target.ino = disk.tree[ToCreate]
        BY <1>0, StatType DEF Target, DiskInv
      <4>2. pc = "open target" /\ call.op \in {"write", "copy"}
        BY <1>2 DEF OpenTarget, ControlInv, Fits
      <4> QED BY <3>1, <4>1, <4>2, SetsMeans DEF Truncated
    <3> QED BY <1>1, <2>2, <3>1 DEF OpenExisting
  <2> QED BY <1>1, <1>2, <2>1, <2>2 DEF OpenTarget
<1>3. CASE WriteContent
  <2>1. Sets(Written(call.size)) /\ pc = "write content"
    BY <1>3 DEF WriteContent
  <2>2. LeavesHistory /\ disk' = Written(call.size) /\ changed' = TRUE
    BY <2>1, SetsMeans
  <2> QED BY <1>0, <2>1, <2>2, WroteBy
<1>4. CASE WriteContentFails
  <2>1. PICK n \in Sizes : disk' = Written(n)
    BY <1>4 DEF WriteContentFails
  <2>2. LeavesHistory /\ changed' = TRUE /\ pc = "write content"
    BY <1>4 DEF WriteContentFails, LeavesHistory
  <2> QED BY <1>0, <2>1, <2>2, WroteBy
<1>5. CASE CopyContent
  <2>1. CASE Sets(Written(disk.size[seen.input])) /\ pc = "copy content"
    <3>1. seen.input \in Inodes
      BY <2>1 DEF ControlInv, Fits, SeenType
    <3>2. disk.size[seen.input] \in Nat
      BY <1>0, <3>1, DiskParts DEF DiskInv
    <3>3. LeavesHistory /\ disk' = Written(disk.size[seen.input]) /\ changed' = TRUE
      BY <2>1, SetsMeans
    <3> QED BY <2>1, <3>2, <3>3, WroteBy
  <2> QED BY <1>1, <1>5, <2>1 DEF CopyContent
<1>6. CASE CopyContentFails
  <2>1. PICK n \in Sizes : disk' = Written(n)
    BY <1>6 DEF CopyContentFails
  <2>2. LeavesHistory /\ changed' = TRUE /\ pc = "copy content"
    BY <1>6 DEF CopyContentFails, LeavesHistory
  <2> QED BY <1>0, <2>1, <2>2, WroteBy
<1>7. CASE MakeParent
  <2> DEFINE p == Head(seen.todo).path
  <2>1. pc = "make parent" /\ p \in Paths
    <3>1. pc = "make parent" /\ seen.todo # << >> /\ seen.todo \in Seq(EntryType)
      BY <1>7 DEF MakeParent, ControlInv, Fits, SeenType
    <3> QED BY <3>1, HeadType
  <2>2. CASE CanCreate(disk, p) /\ Sets(Create(disk, p, FreeInode(disk, Open), TRUE))
    BY <2>1, <2>2, MadeBy
  <2> QED BY <1>1, <1>7, <2>2 DEF MakeParent
<1>8. CASE MakeLeaf
  <2>1. CASE CanCreate(disk, call.path) /\ Sets(Create(disk, call.path, FreeInode(disk, Open), TRUE))
    <3>1. pc = "make leaf"
      BY <1>8 DEF MakeLeaf
    <3> QED BY <1>0, <2>1, <3>1, MadeBy
  <2> QED BY <1>1, <1>8, <2>1 DEF MakeLeaf
<1>9. CASE RemovePath
  <2>1. CASE (IsFile(disk, call.path) \/ IsEmptyDir(disk, call.path)) /\ Sets(Unlink(disk, call.path))
    <3>1. pc = "remove" /\ call.op = "delete"
      BY <1>9 DEF RemovePath, ControlInv, Fits
    <3>2. call.path \in Below(call.path)
      BY <1>0, PrefixOrder DEF Below
    <3> QED BY <2>1, <3>1, <3>2, SetsMeans DEF Removed, Removable
  <2> QED BY <1>1, <1>9, <2>1 DEF RemovePath
<1>10. CASE RemoveAllStep
  <2>1. PICK p \in Below(call.path) : Removable(p) /\ Sets(Unlink(disk, p))
    BY <1>10 DEF RemoveAllStep
  <2>2. pc = "remove all" /\ call.op = "delete" /\ call.flag
    BY <1>10 DEF RemoveAllStep, ControlInv, Fits
  <2> QED BY <2>1, <2>2, SetsMeans DEF Removed
<1>11. CASE RemoveAllFails
  BY <1>11 DEF RemoveAllFails, LeavesHistory, Keeps
<1>12. CASE MoveRename
  <2>1. CASE CanRename(call.path, call.target) /\ Sets(Rename(disk, call.path, call.target))
    <3>1. pc = "rename" /\ call.op = "move"
      BY <1>12 DEF MoveRename, ControlInv, Fits
    <3>2. Renamable(disk, call.path, call.target)
      BY <2>1 DEF CanRename, Renamable
    <3>3. ~IsPrefix(call.path, call.target) /\ ~IsPrefix(call.target, call.path)
      BY <1>0, <3>2, RenameApart DEF DiskInv
    <3>4. HasRoom(call)
      BY CallType DEF ControlInv
    <3>5. MayRename(disk, call.path, call.target)
      BY <3>1, <3>2, <3>3, <3>4 DEF HasRoom, MayRename, Moved
    <3> QED BY <2>1, <3>1, <3>5, SetsMeans DEF Renamed
  <2> QED BY <1>1, <1>12, <2>1 DEF MoveRename
<1>13. CASE \/ ResolveExisting \/ ResolveForCreate \/ StatSource
            \/ CopyStatTarget \/ OpenSource \/ ReadFile
            \/ StatParents \/ StatLeaf \/ ReadNames \/ ListEntry
            \/ WalkRoot \/ Walk \/ RemoveAllGone \/ RemoveAllRaced
            \/ MoveStatTarget \/ MoveCompare \/ MovePolicy
            \/ RevalidateSource \/ RevalidateTarget \/ RenameLooks
  <2>1. Looks \/ LooksAnew
    BY <1>13 DEF ResolveExisting, ResolveForCreate, StatSource, CopyStatTarget, OpenSource, ReadFile,
         StatParents, StatLeaf, ReadNames, ListEntry, WalkRoot, Walk, RemoveAllGone, RemoveAllRaced,
         MoveStatTarget, MoveCompare, MovePolicy, RevalidateSource, RevalidateTarget, RenameLooks
  <2> QED BY <1>1, <2>1
<1> QED BY <1>2, <1>3, <1>4, <1>5, <1>6, <1>7, <1>8, <1>9, <1>10, <1>11, <1>12, <1>13 DEF Work, Break

(* What such a step leaves alone. *)
LEMMA MadeKeeps ==
  ASSUME ControlInv, DiskInv, Made
  PROVE DiskInv' /\ \A r \in Paths : Exists(disk, r) => SameAt(disk, disk', r)
<1>1. PICK p \in Paths, i \in Inodes, isDir \in BOOLEAN :
       /\ CanCreate(disk, p) /\ \A r \in Paths : disk.tree[r] # i
       /\ disk' = Create(disk, p, i, isDir)
  BY DEF Made
<1>2. /\ disk' \in Disks /\ WellFormed(disk') /\ \A r \in Paths : r # p => SameAt(disk, disk', r)
  BY <1>1, CreateKeeps DEF DiskInv
<1> QED BY <1>1, <1>2 DEF DiskInv, CanCreate

(* Truncation changes one file. *)
LEMMA TruncatedKeeps ==
  ASSUME ControlInv, DiskInv, Truncated
  PROVE DiskInv' /\ \A r \in Paths : r # ToCreate => SameAt(disk, disk', r)
<1>1. ToCreate \in Paths /\ 0 \in Sizes /\ disk.tree[ToCreate] \in Inodes
  BY PathsOfCall, UnseenType, DiskParts DEF Truncated, DiskInv, IsFile, Exists
<1>2. /\ disk' \in Disks /\ WellFormed(disk')
      /\ \A r \in Paths : disk.tree[r] # disk.tree[ToCreate] => SameAt(disk, disk', r)
  BY <1>1, StoreKeeps DEF DiskInv, Truncated
<1>3. \A r \in Paths : r # ToCreate => disk.tree[r] # disk.tree[ToCreate]
  BY <1>1, OneLink DEF DiskInv, Truncated, IsFile
<1> QED BY <1>2, <1>3 DEF DiskInv

(* Writing changes the open file alone. *)
LEMMA WroteKeeps ==
  ASSUME ControlInv, DiskInv, Wrote
  PROVE DiskInv' /\ \A r \in Paths : disk.tree[r] # seen.file => SameAt(disk, disk', r)
<1>1. seen.file \in Inodes
  BY DEF Wrote, ControlInv, Fits, SeenType
<1>2. PICK n \in Sizes : disk' = Store(disk, seen.file, n)
  BY DEF Wrote
<1>3. /\ disk' \in Disks /\ WellFormed(disk')
      /\ \A r \in Paths : disk.tree[r] # seen.file => SameAt(disk, disk', r)
  BY <1>1, <1>2, StoreKeeps DEF DiskInv
<1> QED BY <1>3 DEF DiskInv

(* Only something without contents is removed, and only the path itself    *)
(* unless asked.                                                           *)
LEMMA RemovedKeeps ==
  ASSUME ControlInv, DiskInv, Removed
  PROVE /\ DiskInv'
        /\ \E p \in Below(call.path) :
             /\ ~call.flag => p = call.path
             /\ Children(disk, p) = {} /\ Exists(disk, p)
             /\ \A r \in Paths : r # p => SameAt(disk, disk', r)
<1>1. PICK p \in Below(call.path) :
        Removable(p) /\ disk' = Unlink(disk, p) /\ (~call.flag => p = call.path)
  BY DEF Removed
<1>2. p \in Paths
  BY <1>1 DEF Below
<1>3. IsFile(disk, p) \/ IsEmptyDir(disk, p)
  BY <1>1 DEF Removable
<1>4. disk' \in Disks /\ WellFormed(disk') /\ \A r \in Paths : r # p => SameAt(disk, disk', r)
  BY <1>1, <1>2, <1>3, UnlinkKeeps DEF DiskInv
<1>5. Exists(disk, p)
  BY <1>2, <1>3, DiskParts DEF IsFile, IsEmptyDir, DiskInv
<1>6. Children(disk, p) = {}
  <2> SUFFICES ASSUME NEW c \in Children(disk, p) PROVE FALSE
    OBVIOUS
  <2>1. c \in Paths /\ IsPrefix(p, c) /\ Len(c) = Len(p) + 1 /\ Exists(disk, c)
    BY DEF Children, Below
  <2>2. c # p
    BY <1>2, <2>1, PathType
  <2> QED BY <1>2, <1>3, <2>1, <2>2, EmptyMeans DEF DiskInv
<1> QED BY <1>1, <1>4, <1>5, <1>6 DEF DiskInv

(* A rename changes what is at or below the two paths. *)
LEMMA RenamedKeeps ==
  ASSUME ControlInv, DiskInv, Renamed
  PROVE /\ DiskInv'
        /\ \A r \in Paths : r \notin Below(call.path) \cup Below(call.target) => SameAt(disk, disk', r)
<1>1. call.path \in Paths /\ call.target \in Paths
  BY PathsOfCall
<1>2. /\ disk' \in Disks /\ WellFormed(disk')
      /\ \A r \in Paths : ~IsPrefix(call.path, r) /\ ~IsPrefix(call.target, r) => SameAt(disk, disk', r)
  BY <1>1, RenameTree, RenameKeeps DEF Renamed, DiskInv
<1> QED BY <1>2 DEF DiskInv, Below

(* The disk stays a tree under every step of the server. *)
LEMMA WorkKeepsDisk == ASSUME ControlInv, DiskInv, HistoryInv, Work \/ Break PROVE DiskInv'
<1>1. Keeps \/ Made \/ Truncated \/ Wrote \/ Removed \/ Renamed
  BY WorkEffect
<1>2. CASE Keeps
  BY <1>2 DEF Keeps, DiskInv
<1> QED BY <1>1, <1>2, MadeKeeps, TruncatedKeeps, WroteKeeps, RemovedKeeps, RenamedKeeps

(* What a step of the other process does: it touches the paths ps. *)
Meddles(ps) ==
  /\ ps \subseteq Paths
  /\ pc # "idle"
  /\ UNCHANGED <<call, pc, seen, result, before, changed, calls>>
  /\ touched' = touched \cup ps /\ since' = since \cup ps /\ foreign' = foreign + 1
  /\ \A r \in Paths \ ps : SameAt(disk, disk', r)

(* The other process changes the paths it touches, and the disk stays a    *)
(* tree.                                                                   *)
LEMMA OthersEffect ==
  ASSUME ControlInv, DiskInv, HistoryInv, Others
  PROVE DiskInv' /\ \E ps \in SUBSET Paths : Meddles(ps)
<1>1. ASSUME NEW ps \in SUBSET Paths, NEW d, Interfere(ps, d), d \in Disks, WellFormed(d),
             \A r \in Paths \ ps : SameAt(disk, d, r)
      PROVE DiskInv' /\ Meddles(ps)
  BY <1>1 DEF Interfere, Meddles, DiskInv
<1>2. ASSUME NEW p \in Paths, ForeignCreate(p) PROVE DiskInv' /\ Meddles({p})
  <2> DEFINE i == FreeInode(disk, Open)
  <2>1. CanCreate(disk, p)
    BY <1>2 DEF ForeignCreate
  <2>2. i \in Inodes /\ \A r \in Paths : disk.tree[r] # i
    BY <2>1, FreeInodeFound DEF CanCreate, Open, DiskInv
  <2>3. CASE Interfere({p}, Create(disk, p, i, TRUE))
    <3> HIDE DEF i
    <3>1. /\ Create(disk, p, i, TRUE) \in Disks /\ WellFormed(Create(disk, p, i, TRUE))
          /\ \A r \in Paths \ {p} : SameAt(disk, Create(disk, p, i, TRUE), r)
      BY <2>1, <2>2, CreateKeeps DEF DiskInv
    <3> QED BY <1>1, <2>3, <3>1
  <2>4. ASSUME NEW n \in Sizes, Interfere({p}, Store(Create(disk, p, i, FALSE), i, n))
        PROVE DiskInv' /\ Meddles({p})
    <3> DEFINE d == Create(disk, p, i, FALSE)
               e == Store(d, i, n)
    <3> HIDE DEF i
    <3>1. /\ d \in Disks /\ WellFormed(d) /\ \A r \in Paths : r # p => SameAt(disk, d, r)
          /\ d.tree[p] = i
      BY <2>1, <2>2, CreateKeeps DEF DiskInv
    <3> HIDE DEF d
    <3>2. e \in Disks /\ WellFormed(e) /\ \A r \in Paths : d.tree[r] # i => SameAt(d, e, r)
      BY <2>2, <3>1, StoreKeeps
    <3> HIDE DEF e
    <3>3. ASSUME NEW r \in Paths, r # p PROVE SameAt(disk, e, r)
      <4>1. d.tree[r] = disk.tree[r] /\ d.tree[r] # i
        BY <2>2, <3>1, <3>3 DEF SameAt
      <4> QED BY <3>1, <3>2, <3>3, <4>1 DEF SameAt, Exists
    <3>4. Interfere({p}, e)
      BY <2>4 DEF e, d
    <3> QED BY <1>1, <3>2, <3>3, <3>4
  <2> QED BY <1>2, <2>3, <2>4 DEF ForeignCreate
<1>3. ASSUME NEW p \in Paths, ForeignRemove(p) PROVE DiskInv' /\ Meddles({p})
  <2>1. Interfere({p}, Unlink(disk, p)) /\ (IsFile(disk, p) \/ IsEmptyDir(disk, p))
    BY <1>3 DEF ForeignRemove, Removable
  <2>2. /\ Unlink(disk, p) \in Disks /\ WellFormed(Unlink(disk, p))
        /\ \A r \in Paths \ {p} : SameAt(disk, Unlink(disk, p), r)
    BY <2>1, UnlinkKeeps DEF DiskInv
  <2> QED BY <1>1, <2>1, <2>2
<1>4. ASSUME NEW p \in Paths, ForeignWrite(p) PROVE DiskInv' /\ Meddles({p})
  <2> DEFINE i == disk.tree[p]
  <2>1. PICK n \in Sizes : Interfere({p}, Store(disk, i, n))
    BY <1>4 DEF ForeignWrite
  <2>2. i \in Inodes /\ Exists(disk, p)
    BY <1>4, DiskParts DEF ForeignWrite, IsFile, DiskInv, Exists
  <2>3. /\ Store(disk, i, n) \in Disks /\ WellFormed(Store(disk, i, n))
        /\ \A r \in Paths : disk.tree[r] # i => SameAt(disk, Store(disk, i, n), r)
    BY <2>2, StoreKeeps DEF DiskInv
  <2>4. \A r \in Paths \ {p} : disk.tree[r] # i
    BY <2>2, OneLink DEF DiskInv
  <2> HIDE DEF i
  <2> QED BY <1>1, <2>1, <2>3, <2>4
<1>5. ASSUME NEW p \in Paths, NEW q \in Paths, ForeignRename(p, q)
      PROVE DiskInv' /\ Meddles(Below(p) \cup Below(q))
  <2>1. MayRename(disk, p, q)
    BY <1>5 DEF ForeignRename, CanRename, MayRename, Renamable, Moved
  <2>2. /\ Rename(disk, p, q) \in Disks /\ WellFormed(Rename(disk, p, q))
        /\ \A r \in Paths : ~IsPrefix(p, r) /\ ~IsPrefix(q, r) => SameAt(disk, Rename(disk, p, q), r)
    BY <2>1, RenameTree, RenameKeeps DEF DiskInv
  <2>3. \A r \in Paths \ (Below(p) \cup Below(q)) : SameAt(disk, Rename(disk, p, q), r)
    BY <2>2 DEF Below
  <2>4. Interfere(Below(p) \cup Below(q), Rename(disk, p, q)) /\ Below(p) \cup Below(q) \in SUBSET Paths
    BY <1>5 DEF ForeignRename, Below
  <2> QED BY <1>1, <2>2, <2>3, <2>4
<1>6. \A p \in Paths : {p} \in SUBSET Paths /\ \A q \in Paths : Below(p) \cup Below(q) \in SUBSET Paths
  BY DEF Below
<1> QED BY <1>2, <1>3, <1>4, <1>5, <1>6 DEF Others

(* From which system call to which a step of the server leads. *)
Flow ==
  \/ ResolveExisting /\ pc = "existing path"
     /\ pc' \in {"idle", "create path", "read names", "stat source"}
  \/ ResolveForCreate /\ pc = "create path" /\ pc' \in {"idle", "stat source", "stat parents"}
  \/ StatSource /\ pc = "stat source"
     /\ pc' \in {"idle", "open target", "remove", "lstat root of walk", "read names",
                 "stat target", "read file"}
  \/ CopyStatTarget /\ pc = "stat target" /\ call.op = "copy" /\ pc' \in {"idle", "open source"}
  \/ OpenSource /\ pc = "open source" /\ pc' \in {"idle", "open target"}
  \/ OpenTarget /\ pc = "open target" /\ pc' \in {"idle", "write content", "copy content"}
  \/ (WriteContent \/ WriteContentFails) /\ pc = "write content" /\ pc' = "idle"
  \/ (CopyContent \/ CopyContentFails) /\ pc = "copy content" /\ pc' = "idle"
  \/ ReadFile /\ pc = "read file" /\ pc' = "idle"
  \/ StatParents /\ pc = "stat parents"
     /\ pc' \in {"idle", "stat parents", "make leaf", "make parent"}
  \/ MakeParent /\ pc = "make parent" /\ pc' \in {"idle", "make leaf", "make parent"}
  \/ MakeLeaf /\ pc = "make leaf" /\ pc' \in {"idle", "stat leaf"}
  \/ StatLeaf /\ pc = "stat leaf" /\ pc' = "idle"
  \/ ReadNames /\ pc = "read names" /\ pc' \in {"idle", "remove", "list entry"}
  \/ ListEntry /\ pc = "list entry" /\ pc' \in {"idle", "list entry"}
  \/ RemovePath /\ pc = "remove" /\ pc' = "idle"
  \/ WalkRoot /\ pc = "lstat root of walk" /\ pc' \in {"idle", "walk"}
  \/ Walk /\ pc = "walk" /\ pc' \in {"idle", "walk", "remove all"}
  \/ (RemoveAllStep \/ RemoveAllGone \/ RemoveAllRaced \/ RemoveAllFails)
     /\ pc = "remove all" /\ pc' \in {"idle", "remove all"}
  \/ MoveStatTarget /\ pc = "stat target" /\ call.op = "move" /\ pc' \in {"idle", "compare"}
  \/ MoveCompare /\ pc = "compare" /\ pc' \in {"idle", "same volume"}
  \/ MovePolicy /\ pc = "same volume" /\ pc' \in {"idle", "revalidate source"}
  \/ RevalidateSource /\ pc = "revalidate source" /\ pc' \in {"idle", "revalidate target"}
  \/ RevalidateTarget /\ pc = "revalidate target" /\ pc' \in {"idle", "lstat target"}
  \/ RenameLooks /\ pc = "lstat target" /\ pc' \in {"idle", "rename"}
  \/ MoveRename /\ pc = "rename" /\ pc' = "idle"

(* Every step of the server is one of these. *)
LEMMA WorkFlow == ASSUME Work \/ Break PROVE Flow
<1>0. /\ \A code : Fail(code) => pc' = "idle"
      /\ \A code, got, names : Return(code, got, names) => pc' = "idle"
      /\ Succeed => pc' = "idle"
      /\ \A l, s : Goto(l, s) => pc' = l
  BY DEF Fail, Succeed, Return, Goto
<1>1. CASE ResolveExisting
  BY <1>0, <1>1 DEF ResolveExisting, AfterResolve, Flow
<1>2. CASE ResolveForCreate
  BY <1>0, <1>2 DEF ResolveForCreate, AfterResolveForCreate, Flow
<1>3. CASE StatSource
  <2>1. pc' \in {"idle", "open target", "remove", "lstat root of walk", "read names",
                 "stat target", "read file"}
    BY <1>0, <1>3 DEF StatSource, WriteAfterStat, NeedsSource, DeleteAfterStat, CopyAfterStat,
         MoveAfterStat, ReadAfterStat, StatOnly
  <2>2. pc = "stat source"
    BY <1>3 DEF StatSource
  <2> QED BY <1>3, <2>1, <2>2 DEF Flow
<1>4. CASE CopyStatTarget
  BY <1>0, <1>4 DEF CopyStatTarget, Flow
<1>5. CASE OpenSource
  BY <1>0, <1>5 DEF OpenSource, Flow
<1>6. CASE OpenTarget
  BY <1>0, <1>6 DEF OpenTarget, CreateTarget, OpenExisting, AfterOpen, Flow
<1>7. CASE WriteContent \/ WriteContentFails
  BY <1>0, <1>7 DEF WriteContent, WriteContentFails, Flow
<1>8. CASE CopyContent \/ CopyContentFails
  BY <1>0, <1>8 DEF CopyContent, CopyContentFails, Flow
<1>9. CASE ReadFile
  BY <1>0, <1>9 DEF ReadFile, Flow
<1>10. CASE StatParents
  BY <1>0, <1>10 DEF StatParents, Flow
<1>11. CASE MakeParent
  BY <1>0, <1>11 DEF MakeParent, Flow
<1>12. CASE MakeLeaf
  BY <1>0, <1>12 DEF MakeLeaf, Flow
<1>13. CASE StatLeaf
  BY <1>0, <1>13 DEF StatLeaf, Flow
<1>14. CASE ReadNames
  BY <1>0, <1>14 DEF ReadNames, Flow
<1>15. CASE ListEntry
  BY <1>0, <1>15 DEF ListEntry, Flow
<1>16. CASE RemovePath
  BY <1>0, <1>16 DEF RemovePath, Flow
<1>17. CASE WalkRoot
  BY <1>0, <1>17 DEF WalkRoot, Flow
<1>18. CASE Walk
  BY <1>0, <1>18 DEF Walk, Flow
<1>19. CASE RemoveAllStep \/ RemoveAllGone \/ RemoveAllRaced \/ RemoveAllFails
  BY <1>0, <1>19 DEF RemoveAllStep, RemoveAllGone, RemoveAllRaced, RemoveAllFails, Flow
<1>20. CASE MoveStatTarget
  BY <1>0, <1>20 DEF MoveStatTarget, Flow
<1>21. CASE MoveCompare
  BY <1>0, <1>21 DEF MoveCompare, Flow
<1>22. CASE MovePolicy
  BY <1>0, <1>22 DEF MovePolicy, Flow
<1>23. CASE RevalidateSource
  BY <1>0, <1>23 DEF RevalidateSource, Flow
<1>24. CASE RevalidateTarget
  BY <1>0, <1>24 DEF RevalidateTarget, Flow
<1>25. CASE RenameLooks
  BY <1>0, <1>25 DEF RenameLooks, Flow
<1>26. CASE MoveRename
  BY <1>0, <1>26 DEF MoveRename, Flow
<1> QED BY <1>1, <1>2, <1>3, <1>4, <1>5, <1>6, <1>7, <1>8, <1>9, <1>10, <1>11, <1>12, <1>13,
           <1>14, <1>15, <1>16, <1>17, <1>18, <1>19, <1>20, <1>21, <1>22, <1>23, <1>24, <1>25,
           <1>26 DEF Work, Break

-----------------------------------------------------------------------------
(* A call has changed the disk only at or after the system calls that do.  *)
ChangedInv ==
  changed => pc \in {"idle", "write content", "copy content", "remove all",
                     "make parent", "make leaf", "stat leaf"}

(* Until then the disk is as it was, except for what others have touched.  *)
UnchangedInv == ~changed => \A p \in Paths \ touched : SameAt(before, disk, p)

(* What the call must leave alone and nobody has touched is as it was.     *)
SurviveInv == \A p \in Paths \ Footprint(call) : Untouched(p) => SameAt(before, disk, p)

(* The file that the call writes to is its own, or one it may overwrite.   *)
OpenedInv ==
  pc \in {"write content", "copy content"} =>
    \A p \in Paths : disk.tree[p] = seen.file =>
      p \in touched \/ ~Exists(before, p) \/ p \in Footprint(call)

(* What Move knows of its target. *)
Decided == {"revalidate source", "revalidate target", "lstat target", "rename"}
(* What Move knows of its target, and that it is still true unless others  *)
(* have touched it since.                                                  *)
MoveInv ==
  /\ (pc \in Decided \cup {"compare", "same volume"} /\ seen.dst = NoStat) =>
       call.target \in touched \/ ~Exists(before, call.target)
  /\ (pc \in Decided /\ seen.dst # NoStat) => call.flag /\ ~seen.dst.dir
  /\ (pc \in {"lstat target", "rename"} /\ call.target \notin since) =>
       IF seen.dst = NoStat THEN ~Exists(disk, call.target) ELSE SameEntry(Target, seen.dst)

(* The inductive invariant. *)
SafeInv ==
  /\ ControlInv /\ DiskInv /\ HistoryInv
  /\ ChangedInv /\ UnchangedInv /\ SurviveInv /\ OpenedInv /\ MoveInv

(* Lookups that agree on two pairs of disks agree on the outer pair. *)
LEMMA SameTwice ==
  ASSUME NEW d, NEW e, NEW f, NEW p, SameAt(d, e, p), SameAt(e, f, p)
  PROVE SameAt(d, f, p)
  BY DEF SameAt, Exists

(* Lookups that agree have the same stat. *)
LEMMA SameStat ==
  ASSUME NEW d \in Disks, NEW e \in Disks, NEW p \in Paths, SameAt(d, e, p)
  PROVE Stat(e, p) = Stat(d, p) /\ (Exists(e, p) <=> Exists(d, p))
<1>1. Exists(e, p) <=> Exists(d, p)
  BY DEF SameAt, Exists
<1>2. IsDir(e, p) = IsDir(d, p)
  BY DEF SameAt, IsDir
<1>3. Exists(d, p) => e.size[e.tree[p]] = d.size[d.tree[p]] /\ e.tree[p] = d.tree[p]
  BY DEF SameAt
<1> QED BY <1>1, <1>2, <1>3 DEF Stat

(* Preservation of each part of the invariant by the steps of the server:  *)
(* where the disk is changed.                                              *)
LEMMA ChangedByWork == ASSUME SafeInv, Work \/ Break PROVE ChangedInv'
<1>1. Flow
  BY WorkFlow
<1>2. LeavesHistory /\ (Keeps \/ (changed' = TRUE /\ (Made \/ Truncated \/ Wrote \/ Removed \/ Renamed)))
  BY WorkEffect DEF SafeInv
<1>3. CASE Keeps
  <2>1. changed' = changed
    BY <1>3 DEF Keeps
  <2> QED BY <1>1, <2>1 DEF Flow, ChangedInv, SafeInv
<1>4. CASE Made \/ Truncated \/ Wrote \/ Removed \/ Renamed
  <2>1. pc \in {"open target", "make parent", "make leaf", "write content", "copy content", "remove", "remove all", "rename"}
    BY <1>4 DEF Made, Truncated, Wrote, Removed, Renamed
  <2>2. pc' \in {"idle", "write content", "copy content", "remove all",
                     "make parent", "make leaf", "stat leaf"}
    BY <1>1, <2>1 DEF Flow
  <2> QED BY <2>2 DEF ChangedInv
<1> QED BY <1>2, <1>3, <1>4

(* As long as the call has changed nothing. *)
LEMMA UnchangedByWork == ASSUME SafeInv, Work \/ Break PROVE UnchangedInv'
<1>1. LeavesHistory /\ (Keeps \/ changed' = TRUE)
  BY WorkEffect DEF SafeInv
<1> QED BY <1>1 DEF LeavesHistory, Keeps, UnchangedInv, SafeInv, SameAt, IsDir, Exists

(* What a step of the server that changes the disk leaves alone. *)
LEMMA WorkSpares ==
  ASSUME SafeInv, Work \/ Break, NEW r \in Paths \ Footprint(call), Untouched(r)
  PROVE SameAt(disk, disk', r)
<1>0. ControlInv /\ DiskInv /\ HistoryInv
  BY DEF SafeInv
<1>1. /\ call.path \in Paths /\ call.target \in Paths /\ ToCreate \in Paths
  BY <1>0, PathsOfCall
<1>2. SameAt(before, disk, r) /\ r \notin touched /\ Exists(before, r)
  BY DEF SafeInv, SurviveInv, Untouched
<1>3. Exists(disk, r)
  BY <1>2 DEF SameAt, Exists
<1>4. CASE Keeps
  BY <1>4 DEF Keeps, SameAt, IsDir
<1>5. CASE Made
  BY <1>0, <1>3, <1>5, MadeKeeps
<1>6. CASE Truncated
  <2>1. r # ToCreate
    BY <1>6 DEF Truncated, Footprint, ToCreate
  <2> QED BY <1>0, <1>6, <2>1, TruncatedKeeps
<1>7. CASE Wrote
  <2>1. disk.tree[r] # seen.file
    BY <1>2, <1>7 DEF Wrote, SafeInv, OpenedInv
  <2> QED BY <1>0, <1>7, <2>1, WroteKeeps
<1>8. CASE Removed
  <2>1. PICK p \in Below(call.path) :
           (~call.flag => p = call.path) /\ \A s \in Paths : s # p => SameAt(disk, disk', s)
    BY <1>0, <1>8, RemovedKeeps
  <2>2. p \in Footprint(call)
    BY <1>8, <2>1 DEF Removed, Footprint
  <2> QED BY <2>1, <2>2
<1>9. CASE Renamed
  <2>1. r \notin Below(call.path) /\ (call.flag => r # call.target)
    BY <1>9 DEF Renamed, Footprint
  <2>2. r \notin Below(call.target)
    <3> SUFFICES ASSUME IsPrefix(call.target, r) PROVE FALSE
      BY DEF Below
    <3>1. r = call.target
      BY <1>0, <1>1, <1>3, <1>9, RenameApart DEF Renamed, MayRename, DiskInv
    <3>2. seen.dst = NoStat
      BY <1>9, <2>1, <3>1 DEF Renamed, SafeInv, MoveInv, Decided
    <3>3. call.target \in touched \/ ~Exists(before, call.target)
      BY <1>9, <3>2 DEF Renamed, SafeInv, MoveInv, Decided
    <3> QED BY <1>2, <3>1, <3>3
  <2> QED BY <1>0, <1>9, <2>1, <2>2, RenamedKeeps
<1> QED BY <1>0, <1>4, <1>5, <1>6, <1>7, <1>8, <1>9, WorkEffect

(* What the call must leave alone. *)
LEMMA SurviveByWork == ASSUME SafeInv, Work \/ Break PROVE SurviveInv'
<1>1. LeavesHistory
  BY WorkEffect DEF SafeInv
<1>2. call' = call /\ before' = before /\ touched' = touched
  BY <1>1 DEF LeavesHistory
<1>3. ASSUME NEW r \in Paths \ Footprint(call), Untouched(r) PROVE SameAt(before, disk', r)
  <2>1. SameAt(disk, disk', r) /\ SameAt(before, disk, r)
    BY <1>3, WorkSpares DEF SafeInv, SurviveInv
  <2> QED BY <2>1, SameTwice
<1> QED BY <1>2, <1>3 DEF SurviveInv, Untouched

(* The file that has been opened for writing. *)
LEMMA OpenedByWork == ASSUME SafeInv, Work \/ Break PROVE OpenedInv'
<1> SUFFICES ASSUME pc' \in {"write content", "copy content"}, NEW r \in Paths,
                    disk'.tree[r] = seen'.file, r \notin touched', Exists(before', r)
             PROVE r \in Footprint(call')
  BY DEF OpenedInv
<1>0. ControlInv /\ DiskInv /\ HistoryInv
  BY DEF SafeInv
<1>1. OpenTarget
  BY WorkFlow DEF Flow
<1>2. call' = call /\ before' = before /\ touched' = touched
  BY <1>0, WorkEffect DEF LeavesHistory
<1>3. ToCreate \in Paths /\ pc = "open target" /\ call.op \in {"write", "copy"}
  BY <1>0, <1>1, PathsOfCall DEF OpenTarget, ControlInv, Fits
<1> SUFFICES ASSUME r \notin Footprint(call) PROVE FALSE
  BY <1>2
<1>4. SameAt(before, disk, r) /\ Exists(before, r)
  BY <1>2 DEF SafeInv, SurviveInv, Untouched
<1>5. Exists(disk, r)
  BY <1>4 DEF SameAt, Exists
<1>6. ASSUME NEW i, Goto(AfterOpen, IsOpened(i)) PROVE seen'.file = i
  BY <1>0, <1>6 DEF Goto, IsOpened, ControlInv, SeenType
<1>7. CASE CreateTarget
  <2> DEFINE i == FreeInode(disk, Open)
  <2>1. i \in Inodes /\ \A s \in Paths : disk.tree[s] # i
    BY <1>0, <1>3, <1>7, FreeInodeFound DEF CreateTarget, CanCreate, Open, DiskInv
  <2>2. disk' = Create(disk, ToCreate, i, FALSE) /\ seen'.file = i /\ CanCreate(disk, ToCreate)
    BY <1>6, <1>7 DEF CreateTarget, Sets
  <2> HIDE DEF i
  <2>3. \A s \in Paths : s # ToCreate => SameAt(disk, disk', s)
    BY ZenonT(60), <1>0, <1>3, <2>1, <2>2, CreateKeeps DEF DiskInv
  <2>4. r # ToCreate
    BY <1>5, <2>2 DEF CanCreate
  <2>5. disk'.tree[r] = disk.tree[r]
    BY <2>3, <2>4 DEF SameAt
  <2> QED BY <2>1, <2>2, <2>5
<1>8. CASE OpenExisting
  <2>1. /\ call.flag /\ IsFile(disk, ToCreate)
        /\ disk' = Store(disk, Target.ino, 0) /\ seen'.file = Target.ino
    <3>0. ~(pc' = "idle")
      OBVIOUS
    <3> QED BY <1>6, <1>8, <3>0 DEF OpenExisting, Sets, Fail, Return
  <2>2. Target.ino = disk.tree[ToCreate]
    BY <1>0, <1>3, StatType DEF Target, DiskInv
  <2>3. disk'.tree = disk.tree
    <3>1. disk.tree[ToCreate] \in Inodes /\ 0 \in Sizes
      BY <1>0, <1>3, <2>1, UnseenType, DiskParts DEF DiskInv, IsFile, Exists
    <3>2. disk' = Store(disk, disk.tree[ToCreate], 0)
      BY <2>1, <2>2
    <3>3. Store(disk, disk.tree[ToCreate], 0).tree = disk.tree
      BY <1>0, <3>1, StoreKeeps DEF DiskInv
    <3> QED BY <3>2, <3>3
  <2>4. r = ToCreate
    BY <1>0, <1>3, <1>5, <2>1, <2>2, <2>3, OneLink DEF DiskInv
  <2> QED BY <1>3, <2>1, <2>4 DEF Footprint, ToCreate
<1>9. CASE Fail(Missing(disk, ToCreate))
  BY <1>9 DEF Fail, Return
<1> QED BY <1>1, <1>7, <1>8, <1>9 DEF OpenTarget

(* What Move knows of its target. *)
LEMMA MoveByWork == ASSUME SafeInv, Work \/ Break PROVE MoveInv'
<1>0. ControlInv /\ DiskInv /\ HistoryInv
  BY DEF SafeInv
<1>1. CASE pc' \notin Decided \cup {"compare", "same volume"}
  BY <1>1 DEF MoveInv, Decided
<1>2. CASE pc' \in Decided \cup {"compare", "same volume"}
  <2>0. pc' # "idle"
    BY <1>2 DEF Decided
  <2>1. /\ call' = call /\ before' = before /\ touched' = touched
        /\ since' \in {since, {}}
    BY <1>0, WorkEffect DEF LeavesHistory
  <2>2. \/ MoveStatTarget /\ pc = "stat target" /\ pc' = "compare"
        \/ MoveCompare /\ pc = "compare" /\ pc' = "same volume"
        \/ MovePolicy /\ pc = "same volume" /\ pc' = "revalidate source"
        \/ RevalidateSource /\ pc = "revalidate source" /\ pc' = "revalidate target"
        \/ RevalidateTarget /\ pc = "revalidate target" /\ pc' = "lstat target"
        \/ RenameLooks /\ pc = "lstat target" /\ pc' = "rename"
    <3>1. Flow
      BY WorkFlow
    <3>2. pc' \in {"compare", "same volume", "revalidate source", "revalidate target", "lstat target", "rename"}
      BY <1>2 DEF Decided
    <3> QED BY ONLY ZenonT(60), <3>1, <3>2 DEF Flow
  <2>3. Keeps
    <3>1. pc \in {"stat target", "compare", "same volume", "revalidate source", "revalidate target", "lstat target"}
      BY <2>2
    <3>2. ~Made /\ ~Truncated /\ ~Wrote /\ ~Removed /\ ~Renamed
      BY <3>1 DEF Made, Truncated, Wrote, Removed, Renamed
    <3> QED BY <1>0, <3>2, WorkEffect
  <2>4. disk' = disk
    BY <2>3 DEF Keeps
  <2>5. /\ \A c : Fail(c) => pc' = "idle"
        /\ \A l, s : Goto(l, s) => seen' = s
    BY DEF Fail, Return, Goto
  <2>6. call.target \in Paths /\ ToCreate \in Paths
    BY <1>0, PathsOfCall
  <2>7. CASE MoveStatTarget /\ pc = "stat target" /\ pc' = "compare"
    <3>1. seen' = [seen EXCEPT !.dst = Target] /\ call.op = "move"
      BY <2>0, <2>5, <2>7 DEF MoveStatTarget
    <3>2. seen'.dst = Target /\ ToCreate = call.target
      BY <1>0, <3>1 DEF ControlInv, SeenType, ToCreate
    <3>3. ASSUME Target = NoStat, call.target \notin touched PROVE ~Exists(before, call.target)
      <4>1. disk.tree[call.target] = 0
        BY <1>0, <2>6, <3>2, <3>3, StatType DEF Target, NoStat, DiskInv
      <4>2. ~changed
        BY <2>7 DEF SafeInv, ChangedInv
      <4>3. SameAt(before, disk, call.target)
        BY <2>6, <3>3, <4>2 DEF SafeInv, UnchangedInv
      <4> QED BY <4>1, <4>3 DEF SameAt, Exists
    <3> QED BY <2>1, <2>7, <3>2, <3>3 DEF MoveInv, Decided
  <2>8. CASE MoveCompare /\ pc = "compare" /\ pc' = "same volume"
    <3>1. seen' = seen
      BY <2>0, <2>5, <2>8 DEF MoveCompare
    <3> QED BY <2>1, <2>8, <3>1 DEF MoveInv, Decided, SafeInv
  <2>9. CASE MovePolicy /\ pc = "same volume" /\ pc' = "revalidate source"
    <3>1. seen' = seen /\ (seen.dst # NoStat => call.flag /\ ~seen.dst.dir)
      BY <2>0, <2>5, <2>9 DEF MovePolicy
    <3> QED BY <2>1, <2>9, <3>1 DEF MoveInv, Decided, SafeInv
  <2>10. CASE RevalidateSource /\ pc = "revalidate source" /\ pc' = "revalidate target"
    <3>1. seen' = seen
      BY <2>0, <2>5, <2>10 DEF RevalidateSource
    <3> QED BY <2>1, <2>10, <3>1 DEF MoveInv, Decided, SafeInv
  <2>11. CASE RevalidateTarget /\ pc = "revalidate target" /\ pc' = "lstat target"
    <3>1. seen' = seen /\ TargetUnchanged
      BY <2>0, <2>5, <2>11 DEF RevalidateTarget
    <3>2. Target' = Target
      BY <2>1, <2>4 DEF Target, ToCreate
    <3>3. IF seen'.dst = NoStat THEN ~Exists(disk', call'.target) ELSE SameEntry(Target', seen'.dst)
      BY <2>1, <2>4, <3>1, <3>2 DEF TargetUnchanged
    <3> QED BY <2>1, <2>11, <3>1, <3>3 DEF MoveInv, Decided, SafeInv
  <2>12. CASE RenameLooks /\ pc = "lstat target" /\ pc' = "rename"
    <3>1. seen' = seen /\ since' = since
      BY <2>0, <2>5, <2>12 DEF RenameLooks, Looks, history
    <3>2. Target' = Target
      BY <2>1, <2>4 DEF Target, ToCreate
    <3> QED BY <2>1, <2>4, <2>12, <3>1, <3>2 DEF MoveInv, Decided, SafeInv
  <2> QED BY <2>2, <2>7, <2>8, <2>9, <2>10, <2>11, <2>12
<1> QED BY <1>1, <1>2

(* The invariant is preserved by the steps of the server, *)
LEMMA SafeByWork == ASSUME SafeInv, Work \/ Break PROVE SafeInv'
<1>1. ControlInv /\ DiskInv /\ HistoryInv
  BY DEF SafeInv
<1>2. HistoryInv'
  <2>1. LeavesHistory /\ changed' \in {changed, TRUE}
    BY <1>1, WorkEffect DEF Keeps
  <2> QED BY <1>1, <2>1 DEF LeavesHistory, HistoryInv
<1> QED BY <1>1, <1>2, WorkControl, WorkKeepsDisk, ChangedByWork, UnchangedByWork, SurviveByWork,
           OpenedByWork, MoveByWork DEF SafeInv

(* by those of the other process, *)
LEMMA SafeByOthers == ASSUME SafeInv, Others PROVE SafeInv'
<1>1. ControlInv /\ DiskInv /\ HistoryInv
  BY DEF SafeInv
<1>2. DiskInv'
  BY <1>1, OthersEffect
<1>3. PICK ps \in SUBSET Paths : Meddles(ps)
  BY <1>1, OthersEffect
<1>4. /\ call' = call /\ pc' = pc /\ seen' = seen /\ result' = result
      /\ before' = before /\ changed' = changed /\ calls' = calls
      /\ touched' = touched \cup ps /\ since' = since \cup ps /\ foreign' = foreign + 1
      /\ \A r \in Paths : r \notin ps => SameAt(disk, disk', r)
  BY <1>3 DEF Meddles
<1>5. ControlInv' /\ ChangedInv'
  BY <1>1, <1>4 DEF ControlInv, ChangedInv, SafeInv
<1>6. HistoryInv'
  BY <1>1, <1>4 DEF HistoryInv
<1>7. ASSUME NEW r \in Paths, r \notin touched', SameAt(before, disk, r) PROVE SameAt(before', disk', r)
  BY <1>4, <1>7, SameTwice
<1>8. UnchangedInv'
  BY <1>4, <1>7 DEF UnchangedInv, SafeInv
<1>9. SurviveInv'
  <2> SUFFICES ASSUME NEW r \in Paths \ Footprint(call'), Untouched(r)' PROVE SameAt(before', disk', r)
    BY DEF SurviveInv
  <2>1. r \in Paths \ Footprint(call) /\ Untouched(r) /\ r \notin touched'
    BY <1>4 DEF Untouched
  <2> QED BY <1>7, <2>1 DEF SafeInv, SurviveInv
<1>10. OpenedInv'
  <2> SUFFICES ASSUME pc' \in {"write content", "copy content"}, NEW r \in Paths,
                      disk'.tree[r] = seen'.file, r \notin touched', Exists(before', r)
               PROVE r \in Footprint(call')
    BY DEF OpenedInv
  <2>1. disk.tree[r] = seen.file
    BY <1>4 DEF SameAt
  <2> QED BY <1>4, <2>1 DEF SafeInv, OpenedInv
<1>11. MoveInv'
  <2>1. call.target \in Paths /\ (call.op = "move" => ToCreate = call.target)
    BY <1>1, PathsOfCall DEF ToCreate
  <2>2. pc \in {"lstat target", "rename"} => call.op = "move"
    BY <1>1 DEF ControlInv, Fits
  <2>3. ASSUME pc \in {"lstat target", "rename"}, call.target \notin since'
        PROVE /\ Exists(disk', call.target) <=> Exists(disk, call.target)
              /\ Target' = Target /\ call.target \notin since
    <3>1. SameAt(disk, disk', call.target) /\ call.target \notin since
      BY <1>4, <2>1, <2>3
    <3>2. Stat(disk', call.target) = Stat(disk, call.target)
          /\ (Exists(disk', call.target) <=> Exists(disk, call.target))
      BY <1>1, <1>2, <2>1, <3>1, SameStat DEF DiskInv
    <3>3. Target = Stat(disk, call.target) /\ Target' = Stat(disk', call.target)
      BY <1>4, <2>1, <2>2, <2>3 DEF Target, ToCreate
    <3> QED BY <3>1, <3>2, <3>3
  <2>4. (pc' \in Decided \cup {"compare", "same volume"} /\ seen'.dst = NoStat) =>
          call'.target \in touched' \/ ~Exists(before', call'.target)
    BY <1>4 DEF SafeInv, MoveInv
  <2>5. (pc' \in Decided /\ seen'.dst # NoStat) => call'.flag /\ ~seen'.dst.dir
    BY <1>4 DEF SafeInv, MoveInv
  <2>6. (pc' \in {"lstat target", "rename"} /\ call'.target \notin since') =>
          IF seen'.dst = NoStat THEN ~Exists(disk', call'.target) ELSE SameEntry(Target', seen'.dst)
    BY <1>4, <2>3 DEF SafeInv, MoveInv
  <2> QED BY <2>4, <2>5, <2>6 DEF MoveInv
<1> QED BY <1>2, <1>5, <1>6, <1>8, <1>9, <1>10, <1>11 DEF SafeInv

(* by the beginning of a call, *)
LEMMA SafeByBegin == ASSUME SafeInv, NEW c \in CallSet, Begin(c) PROVE SafeInv'
<1>1. ControlInv /\ DiskInv /\ HistoryInv
  BY DEF SafeInv
<1>2. /\ call' = c /\ calls' = calls + 1 /\ pc' = First(c) /\ before' = disk /\ disk' = disk
      /\ touched' = {} /\ since' = {} /\ changed' = FALSE /\ foreign' = foreign
  BY DEF Begin
<1>3. pc' \in {"create path", "existing path"}
  BY <1>2 DEF First
<1>4. \A r : SameAt(disk, disk, r)
  BY DEF SameAt
<1>5. ControlInv' /\ DiskInv' /\ HistoryInv'
  <2>1. ControlInv'
    BY <1>1, BeginControl
  <2>2. DiskInv'
    BY <1>1, <1>2 DEF DiskInv
  <2>3. HistoryInv'
    <3>1. before' \in Disks /\ WellFormed(before')
      BY <1>1, <1>2 DEF DiskInv
    <3>2. calls' \in Nat /\ foreign' \in Nat
      BY <1>1, <1>2 DEF HistoryInv
    <3> QED BY <1>2, <3>1, <3>2 DEF HistoryInv
  <2> QED BY <2>1, <2>2, <2>3
<1>6. ChangedInv' /\ UnchangedInv' /\ SurviveInv'
  BY <1>2, <1>4 DEF ChangedInv, UnchangedInv, SurviveInv
<1>7. OpenedInv' /\ MoveInv'
  BY <1>3 DEF OpenedInv, MoveInv, Decided
<1> QED BY <1>5, <1>6, <1>7 DEF SafeInv

(* and by a step that changes nothing. *)
LEMMA SafeByStutter == ASSUME SafeInv, UNCHANGED vars PROVE SafeInv'
<1>1. /\ disk' = disk /\ call' = call /\ pc' = pc /\ seen' = seen /\ result' = result
      /\ before' = before /\ touched' = touched /\ since' = since /\ changed' = changed
      /\ calls' = calls /\ foreign' = foreign
  BY DEF vars, history
<1>2. ControlInv' /\ DiskInv' /\ HistoryInv' /\ ChangedInv'
  BY <1>1 DEF SafeInv, ControlInv, DiskInv, HistoryInv, ChangedInv
<1>3. UnchangedInv' /\ SurviveInv' /\ OpenedInv'
  BY <1>1 DEF SafeInv, UnchangedInv, SurviveInv, OpenedInv, Untouched
<1>4. MoveInv'
  BY <1>1 DEF SafeInv, MoveInv, Target, ToCreate
<1> QED BY <1>2, <1>3, <1>4 DEF SafeInv

(* It holds at first. *)
LEMMA SafeInit == ASSUME Init PROVE SafeInv
<1>1. PICK v \in Trees : disk = DiskOf(v)
  BY DEF Init
<1>2. DiskInv
  BY <1>1, FileOpsAssumption, DiskOfView DEF DiskInv
<1>3. ControlInv
  <2>1. call \in CallSet
    BY FileOpsAssumption DEF Init
  <2>2. seen \in SeenType /\ pc = "idle" /\ seen = Unseen
    BY UnseenType DEF Init
  <2>3. result \in ResultType
    BY UnseenType DEF Init, ResultType, Codes
  <2>4. Fits(pc, call, seen)
    BY <2>2 DEF Fits
  <2> QED BY <2>1, <2>2, <2>3, <2>4 DEF ControlInv
<1>4. HistoryInv
  BY <1>2 DEF Init, HistoryInv, DiskInv
<1>5. \A r : SameAt(disk, disk, r)
  BY DEF SameAt
<1>6. ChangedInv /\ UnchangedInv /\ SurviveInv
  BY <1>5 DEF Init, ChangedInv, UnchangedInv, SurviveInv
<1>7. OpenedInv /\ MoveInv
  BY DEF Init, OpenedInv, MoveInv, Decided
<1> QED BY <1>2, <1>3, <1>4, <1>6, <1>7 DEF SafeInv

(* So it is preserved by every step. *)
LEMMA SafeStep == ASSUME SafeInv, [Next]_vars PROVE SafeInv'
<1>1. CASE \E c \in CallSet : Begin(c)
  BY <1>1, SafeByBegin
<1>2. CASE Done
  BY <1>2, SafeByStutter DEF Done
<1> QED BY <1>1, <1>2, SafeByWork, SafeByOthers, SafeByStutter DEF Next

(* The inductive invariant always holds. *)
LEMMA SafeAlways == Spec => []SafeInv
<1>1. Init => SafeInv
  BY SafeInit
<1>2. SafeInv /\ [Next]_vars => SafeInv'
  BY SafeStep
<1> QED BY <1>1, <1>2, PTL DEF Spec

(* The disk is always a tree without dangling entries, and what a call     *)
(* remembers and returns is of its type, whatever the other process does.  *)
THEOREM FilesTyped == Spec => []TypeOK
<1>1. ASSUME SafeInv PROVE TypeOK
  <2>1. disk \in Disks /\ WellFormed(disk) /\ call \in CallSet /\ seen \in SeenType /\ result \in ResultType
    BY <1>1 DEF SafeInv, DiskInv, ControlInv
  <2>2. pc = "idle" => seen = Unseen
    BY <1>1 DEF SafeInv, ControlInv, Fits
  <2> QED BY <2>1, <2>2 DEF TypeOK, SeenType, ResultType
<1> QED BY <1>1, SafeAlways, PTL

(* The server's own steps. *)
LEMMA OwnStep ==
  ASSUME SafeInv, [Next]_vars, foreign' = foreign
  PROVE disk' = disk \/ Made \/ Truncated \/ Wrote \/ Removed \/ Renamed
<1>1. ControlInv /\ DiskInv /\ HistoryInv /\ foreign \in Nat
  BY DEF SafeInv, HistoryInv
<1>2. CASE \E c \in CallSet : Begin(c)
  BY <1>2 DEF Begin
<1>3. CASE Done \/ UNCHANGED vars
  BY <1>3 DEF Done, vars
<1>4. CASE Work \/ Break
  BY <1>1, <1>4, WorkEffect DEF Keeps
<1>5. CASE Others
  <2>1. foreign' = foreign + 1
    BY <1>1, <1>5, OthersEffect DEF Meddles
  <2> QED BY <1>1, <2>1
<1> QED BY <1>2, <1>3, <1>4, <1>5 DEF Next

(* The action of NoClobber. *)
ClobbersNot ==
  (foreign' = foreign /\ ~call.flag /\ call.op \in {"write", "copy", "mkdir"})
  => \A p \in Paths : (Exists(disk, p) /\ disk.tree[p] # seen.file) =>
       /\ disk'.tree[p] = disk.tree[p]
       /\ disk'.size[disk.tree[p]] = disk.size[disk.tree[p]]

(* No step of the server changes a file it has not opened, unless it may   *)
(* overwrite.                                                              *)
LEMMA ClobberStep == ASSUME SafeInv, [Next]_vars PROVE ClobbersNot
<1> SUFFICES ASSUME foreign' = foreign, ~call.flag, call.op \in {"write", "copy", "mkdir"},
                    NEW p \in Paths, Exists(disk, p), disk.tree[p] # seen.file
             PROVE disk' = disk \/ SameAt(disk, disk', p)
  BY DEF ClobbersNot, SameAt
<1>1. ControlInv /\ DiskInv
  BY DEF SafeInv
<1>2. ~Truncated /\ ~Removed /\ ~Renamed
  BY DEF Truncated, Removed, Renamed
<1> QED BY <1>1, <1>2, OwnStep, MadeKeeps, WroteKeeps

(* The action of DeleteKeepsContents. *)
DeletesWhatIsNamed ==
  (foreign' = foreign /\ call.op = "delete" /\ ~call.flag)
  => \A p \in Paths : (Exists(disk, p) /\ ~Exists(disk', p)) =>
       p = call.path /\ Children(disk, p) = {}

(* A Delete that is not recursive removes one thing without contents. *)
LEMMA DeleteStep == ASSUME SafeInv, [Next]_vars PROVE DeletesWhatIsNamed
<1> SUFFICES ASSUME foreign' = foreign, call.op = "delete", ~call.flag,
                    NEW p \in Paths, Exists(disk, p), ~Exists(disk', p)
             PROVE p = call.path /\ Children(disk, p) = {}
  BY DEF DeletesWhatIsNamed
<1>1. ControlInv /\ DiskInv
  BY DEF SafeInv
<1>2. ~Made /\ ~Truncated /\ ~Wrote /\ ~Renamed
  BY DEF Made, Truncated, Wrote, Renamed
<1>3. ~SameAt(disk, disk', p) /\ disk' # disk
  BY DEF SameAt, Exists
<1>4. Removed
  BY <1>2, <1>3, OwnStep
<1>5. PICK r \in Below(call.path) :
             /\ ~call.flag => r = call.path
             /\ Children(disk, r) = {}
             /\ \A s \in Paths : s # r => SameAt(disk, disk', s)
  BY <1>1, <1>4, RemovedKeeps
<1> QED BY <1>3, <1>5

(* The action of MoveLosesAtMostTarget. *)
MoveTakesTarget ==
  (foreign' = foreign /\ call.op = "move")
  => \A p \in Paths :
       LET i == disk.tree[p] IN
       (i # 0 /\ \A q \in Paths : disk'.tree[q] # i) =>
         /\ p = call.target /\ Children(disk, p) = {}
         /\ \/ call.flag /\ IsFile(disk, p) /\ i = seen.dst.ino
            \/ p \in since

(* What a rename takes away is at its target and has no contents. *)
LEMMA MoveStep == ASSUME SafeInv, [Next]_vars PROVE MoveTakesTarget
<1> SUFFICES ASSUME foreign' = foreign, call.op = "move", NEW p \in Paths,
                    disk.tree[p] # 0, \A q \in Paths : disk'.tree[q] # disk.tree[p]
             PROVE /\ p = call.target /\ Children(disk, p) = {}
                   /\ \/ call.flag /\ IsFile(disk, p) /\ disk.tree[p] = seen.dst.ino
                      \/ p \in since
  BY DEF MoveTakesTarget
<1>1. /\ ControlInv /\ DiskInv /\ MoveInv /\ call.path \in Paths /\ call.target \in Paths
      /\ disk \in Disks /\ WellFormed(disk)
  BY PathsOfCall DEF SafeInv, DiskInv
<1>2. ~Made /\ ~Truncated /\ ~Wrote /\ ~Removed
  BY DEF Made, Truncated, Wrote, Removed
<1>3. disk' # disk
  OBVIOUS
<1>4. Renamed
  BY <1>2, <1>3, OwnStep
<1>5. pc = "rename" /\ MayRename(disk, call.path, call.target) /\ disk' = Rename(disk, call.path, call.target)
  BY <1>4 DEF Renamed
<1>6. /\ \A r \in Paths : IsPrefix(call.path, r) /\ Exists(disk, r) =>
           Moved(call.path, call.target, r) \in Paths
           /\ disk'.tree[Moved(call.path, call.target, r)] = disk.tree[r]
      /\ \A r \in Paths : ~IsPrefix(call.path, r) /\ ~IsPrefix(call.target, r) =>
           disk'.tree[r] = disk.tree[r]
  BY <1>1, <1>5, RenameTree
<1>7. Exists(disk, p)
  BY DEF Exists
<1>8. IsPrefix(call.target, p)
  BY <1>6, <1>7
<1>9. \A r \in Paths : IsPrefix(call.target, r) /\ r # call.target => ~Exists(disk, r)
  BY <1>1, <1>5, RenameApart DEF MayRename
<1>10. p = call.target
  BY <1>7, <1>8, <1>9
<1>11. Children(disk, p) = {}
  <2> SUFFICES ASSUME NEW c \in Children(disk, p) PROVE FALSE
    OBVIOUS
  <2>1. c \in Paths /\ IsPrefix(p, c) /\ Len(c) = Len(p) + 1 /\ Exists(disk, c)
    BY DEF Children, Below
  <2>2. c # p
    BY <2>1, PathType
  <2> QED BY <1>9, <1>10, <2>1, <2>2
<1>12. ASSUME p \notin since PROVE call.flag /\ IsFile(disk, p) /\ disk.tree[p] = seen.dst.ino
  <2>1. IF seen.dst = NoStat THEN ~Exists(disk, call.target) ELSE SameEntry(Target, seen.dst)
    BY <1>1, <1>5, <1>10, <1>12 DEF MoveInv
  <2>2. seen.dst # NoStat /\ Target.ino = seen.dst.ino /\ Target.dir = seen.dst.dir
    BY <1>7, <1>10, <2>1 DEF SameEntry
  <2>3. call.flag /\ ~seen.dst.dir
    BY <1>1, <1>5, <2>2 DEF MoveInv, Decided
  <2>4. Target.ino = disk.tree[p] /\ (Target.dir <=> IsDir(disk, p))
    BY <1>1, <1>10, StatType DEF Target, ToCreate
  <2> QED BY <1>7, <2>2, <2>3, <2>4 DEF IsFile
<1> QED BY <1>10, <1>11, <1>12

(* No step of the server takes away or overwrites more than its caller has *)
(* named and allowed (DestroysAtMost).                                     *)
THEOREM FilesDestroyAtMost == Spec => DestroysAtMost
<1>1. SafeInv /\ [Next]_vars => ClobbersNot /\ DeletesWhatIsNamed /\ MoveTakesTarget
  BY ClobberStep, DeleteStep, MoveStep
<1>2. NoClobber <=> [][ClobbersNot]_vars
  BY DEF NoClobber, ClobbersNot
<1>3. DeleteKeepsContents <=> [][DeletesWhatIsNamed]_vars
  BY DEF DeleteKeepsContents, DeletesWhatIsNamed
<1>4. MoveLosesAtMostTarget <=> [][MoveTakesTarget]_vars
  BY DEF MoveLosesAtMostTarget, MoveTakesTarget
<1>5. Spec => [][ClobbersNot]_vars /\ [][DeletesWhatIsNamed]_vars /\ [][MoveTakesTarget]_vars
  BY <1>1, SafeAlways, PTL DEF Spec
<1> QED BY <1>2, <1>3, <1>4, <1>5 DEF DestroysAtMost

(* What a call has in hand before it has looked at anything. *)
FreshInv ==
  /\ pc \in {"existing path", "create path", "stat source"} => seen = Unseen
  /\ (pc = "read names" /\ call.op = "list") => seen = Unseen
  /\ pc = "lstat root of walk" => seen.count = 0

(* A call that remembers nothing has counted and collected nothing. *)
LEMMA UnseenFresh == Unseen.count = 0 /\ Unseen.names = {}
  BY DEF Unseen

(* Nothing is put in hand before those system calls. *)
LEMMA FreshStep == ASSUME SafeInv, FreshInv, [Next]_vars PROVE FreshInv'
<1>1. CASE \E c \in CallSet : Begin(c)
  <2>1. PICK c \in CallSet : Begin(c)
    BY <1>1
  <2>2. pc = "idle" /\ seen' = seen /\ pc' \in {"create path", "existing path"}
    BY <2>1 DEF Begin, First
  <2>3. seen = Unseen
    BY <2>2 DEF SafeInv, ControlInv, Fits
  <2> QED BY <2>2, <2>3 DEF FreshInv
<1>2. CASE Work \/ Break
  <2>0. Flow /\ call' = call
    BY <1>2, WorkFlow, WorkEffect DEF SafeInv, LeavesHistory
  <2>1. /\ \A c : Fail(c) => pc' = "idle"
        /\ \A l, s : Goto(l, s) => seen' = s /\ pc' = l
    BY DEF Fail, Return, Goto
  <2>2. CASE pc' = "stat source"
    <3>1. (ResolveExisting /\ pc = "existing path") \/ (ResolveForCreate /\ pc = "create path")
      BY <2>0, <2>2 DEF Flow
    <3>2. seen = Unseen
      BY <3>1 DEF FreshInv
    <3>3. ~(pc' = "idle")
      BY <2>2
    <3>4. seen' = seen
      BY <2>1, <3>1, <3>3 DEF ResolveExisting, ResolveForCreate, AfterResolveForCreate
    <3> QED BY <2>2, <3>2, <3>4 DEF FreshInv
  <2>3. CASE pc' \in {"existing path", "create path"}
    <3>1. ResolveExisting /\ pc = "existing path"
      BY <2>0, <2>3 DEF Flow
    <3>2. seen' = seen /\ seen = Unseen
      BY <2>1, <2>3, <3>1 DEF ResolveExisting, FreshInv
    <3> QED BY <2>3, <3>2 DEF FreshInv
  <2>4. CASE pc' = "read names" /\ call'.op = "list"
    <3>1. ResolveExisting /\ pc = "existing path"
      <4>1. ~(pc = "stat source")
        BY <2>0, <2>4 DEF SafeInv, ControlInv, Fits
      <4> QED BY <2>0, <2>4, <4>1 DEF Flow
    <3>2. seen' = seen /\ seen = Unseen
      BY <2>1, <2>4, <3>1 DEF ResolveExisting, FreshInv
    <3> QED BY <2>4, <3>2 DEF FreshInv
  <2>5. CASE pc' = "lstat root of walk"
    <3>1. StatSource /\ pc = "stat source"
      BY <2>0, <2>5 DEF Flow
    <3>2. seen.count = 0
      BY <3>1, UnseenFresh DEF FreshInv
    <3>3. ~(pc' = "idle")
      BY <2>5
    <3>4. seen' = SawSource
      BY <2>1, <3>1, <3>3 DEF StatSource, WriteAfterStat, NeedsSource, DeleteAfterStat, CopyAfterStat,
           MoveAfterStat, ReadAfterStat, StatOnly, Return
    <3>5. seen'.count = 0
      BY <3>2, <3>4 DEF SawSource, SafeInv, ControlInv, SeenType
    <3> QED BY <2>5, <3>5 DEF FreshInv
  <2> QED BY <2>2, <2>3, <2>4, <2>5 DEF FreshInv
<1>3. CASE Others
  <2>1. pc' = pc /\ seen' = seen /\ call' = call
    BY <1>3, OthersEffect DEF SafeInv, Meddles
  <2> QED BY <2>1 DEF FreshInv
<1>4. CASE Done \/ UNCHANGED vars
  BY <1>4 DEF Done, vars, FreshInv
<1> QED BY <1>1, <1>2, <1>3, <1>4 DEF Next

(* MkdirAll goes through parents of the path, which is not the root.       *)
AboveInv ==
  pc \in {"stat parents", "make parent"} =>
    call.path # Root /\ \A x \in Elements(seen.todo) : x.path \in Above(call.path)

(* What has appeared since the call began, and not by others, is what the  *)
(* call names; a directory to be made is there only at the end.            *)
Named(r) ==
  /\ r \in Product(call)
  /\ (call.op = "mkdir" /\ r = call.path) => (pc = "idle" /\ result.code = "ok")
AppearInv == \A r \in Paths : (Exists(disk, r) /\ ~Exists(before, r) /\ r \notin touched) => Named(r)

(* The directory MkdirAll looks at stands above the path. *)
LEMMA LowestAbove ==
  ASSUME ControlInv, AboveInv, pc = "stat parents" PROVE Lowest \in Above(call.path)
<1>1. call.path \in Paths /\ call.path # Root /\ seen.todo \in Seq(EntryType)
  BY PathsOfCall DEF ControlInv, SeenType, AboveInv
<1>2. CASE seen.todo = << >>
  BY <1>1, <1>2, FrontPath DEF Lowest, Above, IsStrictPrefix
<1>3. CASE seen.todo # << >>
  <2> DEFINE p == Head(seen.todo).path
  <2>1. p \in Above(call.path)
    BY <1>1, <1>3, ElementsOfTail DEF AboveInv
  <2>2. p \in Paths /\ IsPrefix(p, call.path) /\ p # call.path
    BY <2>1 DEF Above, IsStrictPrefix
  <2>3. Front(p) \in Paths /\ IsPrefix(Front(p), p)
    BY <2>2, FrontPath
  <2> HIDE DEF p
  <2>4. IsPrefix(Front(p), call.path)
    BY <1>1, <2>2, <2>3, PrefixOrder
  <2>5. Front(p) # call.path
    <3>1. IsPrefix(p, call.path) /\ IsPrefix(call.path, p) => p = call.path
      BY <1>1, <2>2, PrefixOrder
    <3> QED BY <2>2, <2>3, <3>1
  <2> QED BY <1>3, <2>3, <2>4, <2>5 DEF p, Lowest, Above, IsStrictPrefix
<1> QED BY <1>2, <1>3

(* So it goes upwards and then down again. *)
LEMMA AboveStep == ASSUME SafeInv, FreshInv, AboveInv, [Next]_vars PROVE AboveInv'
<1>1. CASE \E c \in CallSet : Begin(c)
  BY <1>1 DEF Begin, First, AboveInv
<1>2. CASE Work \/ Break
  <2>0. Flow /\ call' = call /\ ControlInv /\ call.path \in Paths /\ seen \in SeenType
    BY <1>2, WorkFlow, WorkEffect, PathsOfCall DEF SafeInv, LeavesHistory, ControlInv
  <2>1. /\ \A c : Fail(c) => pc' = "idle"
        /\ Succeed => pc' = "idle"
        /\ \A l, s : Goto(l, s) => seen' = s /\ pc' = l
    BY DEF Fail, Succeed, Return, Goto
  <2> SUFFICES ASSUME pc' \in {"stat parents", "make parent"}
               PROVE call'.path # Root /\ \A x \in Elements(seen'.todo) : x.path \in Above(call'.path)
    BY DEF AboveInv
  <2>2. ~(pc' = "idle")
    OBVIOUS
  <2>3. \/ ResolveForCreate /\ pc = "create path"
        \/ StatParents /\ pc = "stat parents"
        \/ MakeParent /\ pc = "make parent"
    BY <2>0 DEF Flow
  <2>4. CASE ResolveForCreate /\ pc = "create path"
    <3>0. call.op = "mkdir"
      <4>1. ControlInv'
        BY <1>2, WorkControl DEF SafeInv
      <4> QED BY <2>0, <4>1 DEF ControlInv, Fits
    <3>a. AfterResolveForCreate
      BY <2>1, <2>2, <2>4 DEF ResolveForCreate
    <3>1. seen' = seen /\ call.path # Root
      BY <2>1, <2>2, <3>0, <3>a DEF AfterResolveForCreate
    <3>b. seen = Unseen
      BY <2>4 DEF FreshInv
    <3>2. seen.todo = << >>
      BY <3>b DEF Unseen
    <3> QED BY <2>0, <3>1, <3>2, ElementsOfNone
  <2>5. CASE StatParents /\ pc = "stat parents"
    <3>1. call.path # Root /\ \A x \in Elements(seen.todo) : x.path \in Above(call.path)
      BY <2>5 DEF AboveInv
    <3>2. seen' = seen \/ seen' = [seen EXCEPT !.todo = <<Entry(Lowest)>> \o seen.todo]
      BY <2>1, <2>2, <2>5 DEF StatParents
    <3>3. CASE seen' = [seen EXCEPT !.todo = <<Entry(Lowest)>> \o seen.todo]
      <4>1. seen'.todo = <<Entry(Lowest)>> \o seen.todo
        BY <2>0, <3>3 DEF SeenType
      <4>2. Entry(Lowest) \in EntryType /\ Entry(Lowest).path = Lowest
        BY <2>0, LowestType DEF Entry, EntryType
      <4>3. /\ <<Entry(Lowest)>> \in Seq(EntryType) /\ Elements(<<Entry(Lowest)>>) = {Entry(Lowest)}
            /\ seen.todo \in Seq(EntryType)
        BY <2>0, <4>2, ElementsOfOne DEF SeenType
      <4>4. Elements(seen'.todo) = {Entry(Lowest)} \cup Elements(seen.todo)
        BY <4>1, <4>3, ElementsOfConcat
      <4> QED BY <2>0, <2>5, <3>1, <4>2, <4>4, LowestAbove
    <3> QED BY <2>0, <3>1, <3>2, <3>3
  <2>6. CASE MakeParent /\ pc = "make parent"
    <3>1. call.path # Root /\ (\A x \in Elements(seen.todo) : x.path \in Above(call.path)) /\ seen.todo # << >>
      BY <2>0, <2>6 DEF AboveInv, ControlInv, Fits
    <3>2. seen' = [seen EXCEPT !.todo = Tail(seen.todo)]
      BY <2>1, <2>2, <2>6 DEF MakeParent
    <3>3. seen'.todo = Tail(seen.todo) /\ seen.todo \in Seq(EntryType)
      BY <2>0, <3>2 DEF SeenType
    <3> QED BY <2>0, <3>1, <3>3, ElementsOfTail
  <2> QED BY <2>3, <2>4, <2>5, <2>6
<1>3. CASE Others
  <2>1. pc' = pc /\ seen' = seen /\ call' = call
    BY <1>3, OthersEffect DEF SafeInv, Meddles
  <2> QED BY <2>1 DEF AboveInv
<1>4. CASE Done \/ UNCHANGED vars
  BY <1>4 DEF Done, vars, AboveInv
<1> QED BY <1>1, <1>2, <1>3, <1>4 DEF Next

(* A new entry is where the system call puts it. *)
LEMMA CreatedAt ==
  ASSUME DiskInv, NEW p \in Paths, CanCreate(disk, p), NEW isDir \in BOOLEAN,
         disk' = Create(disk, p, FreeInode(disk, Open), isDir),
         NEW r \in Paths, ~Exists(disk, r), Exists(disk', r)
  PROVE r = p
<1> DEFINE i == FreeInode(disk, Open)
<1>1. i \in Inodes /\ \A q \in Paths : disk.tree[q] # i
  BY FreeInodeFound DEF CanCreate, Open, DiskInv
<1> HIDE DEF i
<1>2. r # p => SameAt(disk, Create(disk, p, i, isDir), r)
  BY <1>1, CreateKeeps DEF DiskInv
<1> QED BY <1>2 DEF i, SameAt, Exists

(* The three steps that put something into the tree. *)
LEMMA NewIsNamed ==
  ASSUME SafeInv, AboveInv, OpenTarget \/ MakeParent \/ MakeLeaf,
         NEW r \in Paths, ~Exists(disk, r), Exists(disk', r)
  PROVE /\ r \in Product(call)
        /\ (call.op = "mkdir" /\ r = call.path) => (pc' = "idle" /\ result'.code = "ok")
<1>0. /\ ControlInv /\ DiskInv /\ call.path \in Paths /\ call.target \in Paths /\ ToCreate \in Paths
      /\ seen \in SeenType /\ disk' # disk
  BY PathsOfCall DEF SafeInv, ControlInv
<1>1. ~Looks
  BY <1>0 DEF Looks
<1>2. CASE OpenTarget
  <2>1. call.op \in {"write", "copy"}
    BY <1>0, <1>2 DEF OpenTarget, ControlInv, Fits
  <2>2. CASE CreateTarget
    <3>1. CanCreate(disk, ToCreate) /\ disk' = Create(disk, ToCreate, FreeInode(disk, Open), FALSE)
      BY <2>2 DEF CreateTarget, Sets
    <3>2. r = ToCreate
      BY <1>0, <3>1, CreatedAt
    <3> QED BY <2>1, <3>2 DEF Product, ToCreate
  <2>3. CASE Sets(Store(disk, Target.ino, 0)) /\ IsFile(disk, ToCreate)
    <3>1. Target.ino \in Inodes /\ 0 \in Sizes
      BY <1>0, <2>3, StatType, DiskParts, UnseenType DEF Target, DiskInv, IsFile, Exists
    <3>2. disk'.tree = disk.tree
      BY <1>0, <2>3, <3>1, StoreKeeps DEF Sets, DiskInv
    <3> QED BY <3>2 DEF Exists
  <2> QED BY <1>1, <1>2, <2>2, <2>3 DEF OpenTarget, OpenExisting
<1>3. CASE MakeParent
  <2> DEFINE p == Head(seen.todo).path
  <2>1. /\ CanCreate(disk, p) /\ disk' = Create(disk, p, FreeInode(disk, Open), TRUE)
        /\ pc = "make parent"
    BY <1>1, <1>3 DEF MakeParent, Sets
  <2>2. call.op = "mkdir" /\ seen.todo # << >> /\ seen.todo \in Seq(EntryType)
    BY <1>0, <2>1 DEF ControlInv, Fits, SeenType
  <2>3. p \in Above(call.path)
    BY <2>1, <2>2, ElementsOfTail DEF AboveInv
  <2> HIDE DEF p
  <2>4. p \in Paths /\ IsPrefix(p, call.path) /\ p # call.path
    BY <2>3 DEF Above, IsStrictPrefix
  <2>5. r = p
    BY <1>0, <2>1, <2>4, CreatedAt
  <2> QED BY <1>0, <2>2, <2>4, <2>5 DEF Product, Below
<1>4. CASE MakeLeaf
  <2>1. /\ CanCreate(disk, call.path) /\ disk' = Create(disk, call.path, FreeInode(disk, Open), TRUE)
        /\ pc = "make leaf" /\ Succeed
    BY <1>1, <1>4 DEF MakeLeaf, Sets
  <2>2. call.op = "mkdir" /\ pc' = "idle" /\ result'.code = "ok"
    BY <1>0, <2>1 DEF ControlInv, Fits, Succeed, Return
  <2>3. r = call.path
    BY <1>0, <2>1, CreatedAt
  <2>4. IsPrefix(call.path, call.path)
    BY <1>0, PrefixOrder
  <2> QED BY <1>0, <2>2, <2>3, <2>4 DEF Product, Below
<1> QED BY <1>2, <1>3, <1>4

(* What appears by a step of the server is what the call names. *)
LEMMA AppearByWork == ASSUME SafeInv, AboveInv, AppearInv, Work \/ Break PROVE AppearInv'
<1>0. /\ ControlInv /\ DiskInv /\ HistoryInv /\ call.path \in Paths /\ call.target \in Paths
      /\ ToCreate \in Paths /\ Flow /\ LeavesHistory
  BY PathsOfCall, WorkFlow, WorkEffect DEF SafeInv
<1>1. call' = call /\ before' = before /\ touched' = touched
  BY <1>0 DEF LeavesHistory
<1>2. pc # "idle"
  BY <1>0 DEF Flow
<1> SUFFICES ASSUME NEW r \in Paths, Exists(disk', r), ~Exists(before, r), r \notin touched
             PROVE /\ r \in Product(call)
                   /\ (call.op = "mkdir" /\ r = call.path) => (pc' = "idle" /\ result'.code = "ok")
  BY <1>1 DEF AppearInv, Named, Product
<1>3. CASE Exists(disk, r)
  <2>1. r \in Product(call) /\ ~(call.op = "mkdir" /\ r = call.path)
    BY <1>2, <1>3 DEF AppearInv, Named
  <2> QED BY <2>1
<1>4. CASE ~Exists(disk, r)
  <2>1. ~SameAt(disk, disk', r)
    BY <1>4 DEF SameAt, Exists
  <2>2. CASE Made
    <3>1. pc \in {"open target", "make parent", "make leaf"}
      BY <2>2 DEF Made
    <3>2. OpenTarget \/ MakeParent \/ MakeLeaf
      BY <1>0, <3>1 DEF Flow
    <3> QED BY <1>4, <3>2, NewIsNamed
  <2>3. CASE Truncated
    <3>1. r = ToCreate
      BY <1>0, <2>1, <2>3, TruncatedKeeps
    <3> QED BY <1>4, <2>3, <3>1 DEF Truncated, IsFile
  <2>4. CASE Wrote
    <3>1. disk.tree[r] = seen.file
      BY <1>0, <2>1, <2>4, WroteKeeps
    <3>2. seen.file # 0
      BY <1>0, <2>4 DEF Wrote, ControlInv, Fits
    <3> QED BY <1>4, <3>1, <3>2 DEF Exists
  <2>5. CASE Removed
    <3>1. PICK p \in Below(call.path) : Exists(disk, p) /\ \A q \in Paths : q # p => SameAt(disk, disk', q)
      BY <1>0, <2>5, RemovedKeeps
    <3> QED BY <1>4, <2>1, <3>1
  <2>6. CASE Renamed
    <3>1. call.op = "move" /\ MayRename(disk, call.path, call.target) /\ disk' = Rename(disk, call.path, call.target)
      BY <2>6 DEF Renamed
    <3>2. r \in Below(call.path) \cup Below(call.target)
      BY <1>0, <2>1, <2>6, RenamedKeeps
    <3>3. \A q \in Paths : IsPrefix(call.path, q) => disk'.tree[q] = 0
      BY <1>0, <3>1, RenameTree DEF DiskInv
    <3>4. r \in Below(call.target)
      BY <3>2, <3>3 DEF Below, Exists
    <3> QED BY <3>1, <3>4 DEF Product
  <2>7. CASE Keeps
    BY <1>4, <2>7 DEF Keeps
  <2>8. Keeps \/ Made \/ Truncated \/ Wrote \/ Removed \/ Renamed
    BY <1>0, WorkEffect
  <2> QED BY <2>2, <2>3, <2>4, <2>5, <2>6, <2>7, <2>8
<1> QED BY <1>3, <1>4

(* Others appear only at what they touch, and a call begins with nothing   *)
(* new.                                                                    *)
LEMMA AppearStep == ASSUME SafeInv, AboveInv, AppearInv, [Next]_vars PROVE AppearInv'
<1>1. CASE \E c \in CallSet : Begin(c)
  BY <1>1 DEF Begin, AppearInv
<1>2. CASE Others
  <2>1. PICK ps \in SUBSET Paths : Meddles(ps)
    BY <1>2, OthersEffect DEF SafeInv
  <2>2. /\ UNCHANGED <<call, pc, result, before>> /\ touched' = touched \cup ps
        /\ \A r \in Paths : r \notin ps => disk'.tree[r] = disk.tree[r]
    BY <2>1 DEF Meddles, SameAt
  <2>3. ASSUME NEW r \in Paths, Exists(disk', r), ~Exists(before, r), r \notin touched' PROVE Named(r)
    BY <2>2, <2>3 DEF AppearInv, Exists
  <2>4. \A r \in Paths : Named(r) => Named(r)'
    BY <2>2 DEF Named
  <2> QED BY <2>2, <2>3, <2>4 DEF AppearInv
<1>3. CASE Done \/ UNCHANGED vars
  <2>1. UNCHANGED <<disk, call, pc, result, before, touched>>
    BY <1>3 DEF Done, vars, history
  <2> QED BY <2>1 DEF AppearInv, Named
<1> QED BY <1>1, <1>2, <1>3, AppearByWork DEF Next

(* All of this always holds. *)
LEMMA AppearAlways == Spec => [](SafeInv /\ AppearInv)
<1>1. Init => FreshInv /\ AboveInv /\ AppearInv
  BY DEF Init, FreshInv, AboveInv, AppearInv
<1>2. SafeInv /\ FreshInv /\ AboveInv /\ AppearInv /\ [Next]_vars => (FreshInv /\ AboveInv /\ AppearInv)'
  BY FreshStep, AboveStep, AppearStep
<1> QED BY <1>1, <1>2, SafeAlways, PTL DEF Spec

(* What stood in the tree when a call began, was not touched by others and *)
(* is not named by the call as what it takes away is there with the same   *)
(* content at every moment; and nothing appears but what the call names,   *)
(* the directory to be made only by a Mkdir that succeeds, whatever others *)
(* do and wherever the call fails or is killed (ChangesOnlyNamed).         *)
THEOREM FilesChangeOnlyNamed == Spec => []ChangesOnlyNamed
<1>1. ASSUME SafeInv, AppearInv PROVE ChangesOnlyNamed
  <2>1. ASSUME NEW p \in Paths \ Footprint(call), Untouched(p) PROVE Kept(p)
    <3>1. SameAt(before, disk, p) /\ Exists(before, p)
      BY <1>1, <2>1 DEF SafeInv, SurviveInv, Untouched
    <3> QED BY <3>1 DEF SameAt, Kept
  <2>2. NothingElseAppears
    BY <1>1 DEF AppearInv, Named, NothingElseAppears, OK
  <2> QED BY <2>1, <2>2 DEF ChangesOnlyNamed, UntouchedSurvive
<1> QED BY <1>1, AppearAlways, PTL

(* The system calls after which a call can succeed. *)
LEMMA OnlyThenOK ==
  ASSUME SafeInv, Work \/ Break, pc' = "idle", OK'
  PROVE \/ pc \in {"write content", "copy content", "make leaf", "stat leaf"}
        \/ pc \in {"remove", "remove all", "rename"}
        \/ ReadFile /\ pc = "read file" /\ call.op = "read"
        \/ ListEntry /\ pc = "list entry" /\ call.op = "list"
        \/ pc = "stat source" /\ call.op = "stat"
        \/ pc = "create path" /\ call.op = "mkdir"
<1>0. Flow /\ ControlInv
  BY WorkFlow DEF SafeInv
<1>1. /\ \A c : Fail(c) => result'.code = c
      /\ \A l, s : Goto(l, s) => pc' = l
      /\ result'.code \in {"ok", "existed"}
  BY DEF Fail, Return, Goto, OK
<1>2. /\ ~Fail(Internal) /\ ~Fail("already_exists") /\ ~Fail("invalid_path")
      /\ ~Fail("unsupported_path_type") /\ ~Fail("limit_exceeded")
      /\ \A p \in Paths : ~Fail(Missing(disk, p))
  BY <1>1, CodeType DEF Internal, NotFound
<1>3. call.path \in Paths /\ call.target \in Paths /\ ToCreate \in Paths
  BY <1>0, PathsOfCall
<1>4. ~ResolveExisting
  BY <1>1, <1>2, <1>3 DEF ResolveExisting, AfterResolve
<1>5. ~CopyStatTarget /\ ~OpenSource
  BY <1>1, <1>2, <1>3 DEF CopyStatTarget, OpenSource
<1>6. ~OpenTarget
  BY <1>1, <1>2, <1>3 DEF OpenTarget, CreateTarget, OpenExisting, AfterOpen
<1>7. ~StatParents
  BY <1>1, <1>2, <1>3 DEF StatParents
<1>8. ~ReadNames /\ ~WalkRoot
  BY <1>1, <1>2, <1>3 DEF ReadNames, WalkRoot
<1>9. ~Walk
  <2>1. CASE seen.todo = << >>
    BY <1>1, <2>1 DEF Walk
  <2>2. CASE seen.todo # << >>
    <3>1. Head(seen.todo).path \in Paths
      BY <1>0, <2>2, HeadType DEF ControlInv, SeenType
    <3> QED BY <1>1, <1>2, <2>2, <3>1 DEF Walk
  <2> QED BY <2>1, <2>2
<1>10. ~MakeParent
  <2> SUFFICES ASSUME MakeParent PROVE FALSE
    OBVIOUS
  <2>1. seen.todo # << >> /\ seen.todo \in Seq(EntryType)
    BY <1>0 DEF MakeParent, ControlInv, Fits, SeenType
  <2>2. Head(seen.todo).path \in Paths
    BY <2>1, HeadType
  <2> QED BY <1>1, <1>2, <2>2 DEF MakeParent
<1>11. ~MoveStatTarget /\ ~MoveCompare /\ ~MovePolicy /\ ~RevalidateSource /\ ~RevalidateTarget /\ ~RenameLooks
  BY <1>1, <1>2, <1>3
     DEF MoveStatTarget, MoveCompare, MovePolicy, RevalidateSource, RevalidateTarget, RenameLooks
<1>12. ResolveForCreate => call.op = "mkdir"
  BY <1>1, <1>2, <1>3 DEF ResolveForCreate, AfterResolveForCreate
<1>13. StatSource => call.op = "stat"
  BY <1>1, <1>2, <1>3 DEF StatSource, WriteAfterStat, NeedsSource, DeleteAfterStat, CopyAfterStat,
       MoveAfterStat, ReadAfterStat, StatOnly
<1>14. (pc = "read file" => call.op = "read") /\ (pc = "list entry" => call.op = "list")
  BY <1>0 DEF ControlInv, Fits
<1> QED BY <1>0, <1>4, <1>5, <1>6, <1>7, <1>8, <1>9, <1>10, <1>11, <1>12, <1>13, <1>14 DEF Flow

-----------------------------------------------------------------------------
(* A typed error means that nothing was changed. *)
TypedInv ==
  (/\ pc = "idle" /\ ~OK /\ result.code # Internal
   /\ call.op # "mkdir" /\ ~(call.op = "delete" /\ call.flag)) => ~changed

(* A step that changes the disk and returns succeeds or is interrupted by  *)
(* a fault.                                                                *)
LEMMA TypedByWork == ASSUME SafeInv, Work \/ Break PROVE TypedInv'
<1> SUFFICES ASSUME pc' = "idle", ~OK', result'.code # Internal,
                    call'.op # "mkdir", ~(call'.op = "delete" /\ call'.flag), changed'
             PROVE FALSE
  BY DEF TypedInv
<1>0. Flow /\ ControlInv /\ ChangedInv /\ DiskInv /\ HistoryInv
  BY WorkFlow DEF SafeInv
<1>1. /\ \A c : Fail(c) => result'.code = c
      /\ \A l, s : Goto(l, s) => pc' = l
      /\ ~Fail(Internal) /\ ~Succeed /\ result'.code \notin {"ok", "existed"}
  BY DEF Fail, Return, Goto, OK, Succeed
<1>2. call' = call /\ (Keeps \/ Made \/ Truncated \/ Wrote \/ Removed \/ Renamed)
  BY <1>0, WorkEffect DEF LeavesHistory
<1>3. pc \notin {"stat parents", "make parent", "make leaf", "stat leaf", "lstat root of walk", "walk", "remove all"}
  BY <1>0, <1>2 DEF ControlInv, Fits
<1>4. pc # "write content"
  BY <1>0, <1>1 DEF Flow, WriteContent, WriteContentFails
<1>5. pc # "copy content"
  BY <1>0, <1>1 DEF Flow, CopyContent, CopyContentFails
<1>6. ~changed
  <2>1. pc # "idle"
    BY <1>0 DEF Flow
  <2> QED BY <1>0, <1>3, <1>4, <1>5, <2>1 DEF ChangedInv
<1>7. ~Keeps
  BY <1>6 DEF Keeps
<1>8. pc \in {"open target", "remove", "rename"}
  BY <1>2, <1>3, <1>4, <1>5, <1>7 DEF Made, Truncated, Wrote, Removed, Renamed
<1>9. ~Looks
  BY <1>7, LooksKeeps
<1>10. CASE pc = "open target"
  BY <1>0, <1>1, <1>9, <1>10 DEF Flow, OpenTarget, CreateTarget, OpenExisting, AfterOpen
<1>11. CASE pc = "remove"
  BY <1>0, <1>1, <1>9, <1>11 DEF Flow, RemovePath
<1>12. CASE pc = "rename"
  BY <1>0, <1>1, <1>9, <1>12 DEF Flow, MoveRename
<1> QED BY <1>8, <1>10, <1>11, <1>12

(* Preservation by every step. *)
LEMMA TypedStep == ASSUME SafeInv, TypedInv, [Next]_vars PROVE TypedInv'
<1>1. CASE \E c \in CallSet : Begin(c)
  BY <1>1 DEF Begin, TypedInv
<1>2. CASE Others
  <2>1. pc' = pc /\ pc # "idle"
    BY <1>2, OthersEffect DEF SafeInv, Meddles
  <2> QED BY <2>1 DEF TypedInv
<1>3. CASE Done \/ UNCHANGED vars
  BY <1>3 DEF Done, vars, history, TypedInv, OK
<1> QED BY <1>1, <1>2, <1>3, TypedByWork DEF Next

-----------------------------------------------------------------------------
(* A listing: what it has and what it has still to look at.                *)
Remaining == {x.path : x \in Elements(seen.todo)}
(* While it runs: collected and remaining entries are those that are there. *)
ListInv ==
  pc = "list entry" =>
    /\ \A p \in Children(before, call.path) :
         (p \notin touched /\ call.path \notin touched) => p \in seen.names \cup Remaining
    /\ seen.names \cup Remaining \subseteq Children(before, call.path) \cup touched
    /\ Cardinality(seen.names) <= MaxListEntries
(* When it has succeeded: the names returned are those that were there. *)
Listing ==
  (pc = "idle" /\ call.op = "list" /\ OK) =>
    /\ \A p \in Children(before, call.path) :
         (p \notin touched /\ call.path \notin touched) => p \in result.names
    /\ \A p \in result.names :
         p \in Children(before, call.path) \/ p \in touched
    /\ Cardinality(result.names) <= MaxListEntries

(* Preservation by the steps of the server: reading the names, then each   *)
(* entry.                                                                  *)
LEMMA ListByWork == ASSUME SafeInv, FreshInv, ListInv, Work \/ Break PROVE ListInv' /\ Listing'
<1>0. Flow /\ ControlInv /\ ChangedInv /\ DiskInv /\ HistoryInv /\ UnchangedInv
  BY WorkFlow DEF SafeInv
<1>1. /\ \A c : Fail(c) => pc' = "idle"
      /\ \A l, s : Goto(l, s) => seen' = s /\ pc' = l
      /\ call' = call /\ before' = before /\ touched' = touched
      /\ call.path \in Paths
      /\ seen.todo \in Seq(EntryType) /\ seen.names \in SUBSET Paths
  BY <1>0, WorkEffect, PathsOfCall DEF Fail, Return, Goto, LeavesHistory, ControlInv, SeenType
<1>2. CASE pc' = "list entry" /\ pc = "read names"
  <2>1. ReadNames
    BY <1>0, <1>2 DEF Flow
  <2>2. call.op = "list" /\ seen' = [seen EXCEPT !.todo = Snapshot(call.path)]
    <3>1. ~(pc' = "idle") /\ pc' # "remove"
      BY <1>2
    <3>2. call.op # "delete"
      BY <1>1, <2>1, <3>1 DEF ReadNames
    <3> QED BY <1>0, <1>1, <1>2, <2>1, <3>1, <3>2 DEF ReadNames, ControlInv, Fits
  <2>3. seen.names = {}
    BY <1>2, <2>2, UnseenFresh DEF FreshInv
  <2>4. seen'.names = {} /\ seen'.todo = Snapshot(call.path)
    BY <1>0, <2>2, <2>3 DEF ControlInv, SeenType
  <2>5. /\ Elements(Snapshot(call.path)) = {Listed(c) : c \in Children(disk, call.path)}
        /\ Children(disk, call.path) \subseteq Paths
    BY <1>0, <1>1, SnapshotMeans DEF DiskInv
  <2>6. Remaining' = Children(disk, call.path)
    <3>1. Remaining' = {x.path : x \in Elements(Snapshot(call.path))}
      BY <2>4 DEF Remaining
    <3>2. \A c : Listed(c).path = c
      BY DEF Listed
    <3> QED BY <2>5, <3>1, <3>2
  <2>7. \A p \in Paths \ touched : SameAt(before, disk, p)
    BY <1>0, <1>2 DEF ChangedInv, UnchangedInv
  <2>8. ASSUME NEW p \in Paths, p \notin touched
        PROVE p \in Children(before, call.path) <=> p \in Children(disk, call.path)
    BY <2>7, <2>8 DEF SameAt, Children, Exists, Below
  <2>9. Children(before, call.path) \subseteq Paths
    BY DEF Children, Below
  <2>10. Cardinality({}) = 0 /\ MaxListEntries \in Nat
    BY FS_EmptySet, LimitsAssumption
  <2>11. Listing'
    BY <1>2 DEF Listing
  <2>12. seen'.names \cup Remaining' = Children(disk, call.path)
    BY <2>4, <2>6
  <2>13. Cardinality(seen'.names) <= MaxListEntries
    BY <2>4, <2>10
  <2>14. Children(disk, call.path) \subseteq Paths
    BY <2>5
  <2>15. ListInv'
    BY <1>1, <2>8, <2>9, <2>12, <2>13, <2>14 DEF ListInv
  <2> QED BY <2>11, <2>15
<1>3. CASE pc' = "list entry" /\ pc = "list entry"
  <2>1. ListEntry
    BY <1>0, <1>3 DEF Flow
  <2>2. seen.todo # << >>
    BY <1>3, <2>1 DEF ListEntry, Return
  <2> DEFINE p == Head(seen.todo).path
  <2>3. /\ ~(Cardinality(seen.names) >= MaxListEntries)
        /\ seen' = [seen EXCEPT !.todo = Tail(@), !.names = @ \cup {p}]
    <3>1. ~(pc' = "idle")
      BY <1>3
    <3> QED BY <1>1, <2>1, <2>2, <3>1 DEF ListEntry
  <2>4. seen'.names = seen.names \cup {p} /\ seen'.todo = Tail(seen.todo)
    BY <1>0, <2>3 DEF ControlInv, SeenType
  <2>5. Elements(seen.todo) = {Head(seen.todo)} \cup Elements(Tail(seen.todo))
    BY <1>1, <2>2, ElementsOfTail
  <2>6. Remaining' = {x.path : x \in Elements(Tail(seen.todo))}
    BY <2>4 DEF Remaining
  <2>7. seen'.names \cup Remaining' = seen.names \cup Remaining
    BY <2>4, <2>5, <2>6 DEF Remaining
  <2>8. Cardinality(seen'.names) <= MaxListEntries
    <3>1. IsFiniteSet(seen.names) /\ Cardinality(seen.names) \in Nat /\ MaxListEntries \in Nat
      BY <1>1, DiskAssumption, FS_Subset, FS_CardinalityType, LimitsAssumption
    <3>2. Cardinality(seen'.names) = IF p \in seen.names THEN Cardinality(seen.names) ELSE Cardinality(seen.names) + 1
      BY <2>4, <3>1, FS_AddElement
    <3> QED BY <2>3, <3>1, <3>2
  <2> QED BY <1>1, <1>3, <2>7, <2>8 DEF ListInv, Listing
<1>4. CASE pc' = "idle"
  <2> SUFFICES ASSUME call.op = "list", OK' PROVE Listing'
    BY <1>1, <1>4 DEF ListInv, Listing
  <2>1. ListEntry /\ pc = "list entry"
    <3>1. pc \notin {"write content", "copy content", "make leaf", "stat leaf", "remove", "remove all", "rename"}
      BY <1>0 DEF ControlInv, Fits
    <3> QED BY <1>4, <3>1, OnlyThenOK
  <2>2. Return("ok", 0, seen.names) /\ seen.todo = << >>
    <3>1. ASSUME Fail("limit_exceeded") PROVE FALSE
      BY <3>1 DEF Fail, Return, OK
    <3>2. ASSUME seen.todo # << >>, Fail(Missing(disk, Head(seen.todo).path)) PROVE FALSE
      <4>1. Head(seen.todo).path \in Paths
        BY <1>1, <3>2, HeadType
      <4>2. result'.code \in {NotFound, Internal}
        BY <3>2, <4>1, CodeType DEF Fail, Return
      <4> QED BY <4>2 DEF OK, NotFound, Internal
    <3>3. ~Goto("list entry", [seen EXCEPT !.todo = Tail(@), !.names = @ \cup {Head(seen.todo).path}])
      BY <1>4 DEF Goto
    <3> QED BY <2>1, <3>1, <3>2, <3>3 DEF ListEntry
  <2>3. result'.names = seen.names
    BY <2>2 DEF Return
  <2>4. Remaining = {}
    BY <2>2, ElementsOfNone DEF Remaining
  <2> QED BY <1>1, <2>1, <2>3, <2>4 DEF ListInv, Listing
<1>5. pc' = "list entry" => pc \in {"read names", "list entry"}
  BY <1>0 DEF Flow
<1> QED BY <1>2, <1>3, <1>4, <1>5 DEF ListInv, Listing

(* Preservation by every step. *)
LEMMA ListStep == ASSUME SafeInv, FreshInv, ListInv, Listing, [Next]_vars PROVE ListInv' /\ Listing'
<1>1. CASE \E c \in CallSet : Begin(c)
  <2>1. pc' \in {"create path", "existing path"}
    BY <1>1 DEF Begin, First
  <2> QED BY <2>1 DEF ListInv, Listing
<1>2. CASE Others
  <2>1. PICK ps \in SUBSET Paths : Meddles(ps)
    BY <1>2, OthersEffect DEF SafeInv
  <2>2. /\ pc' = pc /\ pc # "idle" /\ call' = call /\ seen' = seen /\ before' = before
        /\ touched' = touched \cup ps
    BY <2>1 DEF Meddles
  <2>3. Remaining' = Remaining
    BY <2>2 DEF Remaining
  <2> QED BY <2>2, <2>3 DEF ListInv, Listing
<1>3. CASE Done \/ UNCHANGED vars
  BY <1>3 DEF Done, vars, history, ListInv, Listing, Remaining, OK
<1> QED BY <1>1, <1>2, <1>3, ListByWork DEF Next

(* What a caller is told is true: after a typed error nothing has changed, *)
(* and a listing has all that was there throughout and nothing that never  *)
(* was.                                                                    *)
THEOREM FilesReportTrue == Spec => []ReportsTrue
<1> DEFINE I == SafeInv /\ FreshInv /\ TypedInv /\ ListInv /\ Listing
<1>1. Init => I
  <2> SUFFICES ASSUME Init PROVE I
    OBVIOUS
  <2>1. FreshInv /\ ListInv
    BY DEF Init, FreshInv, ListInv
  <2>2. TypedInv
    BY DEF Init, TypedInv
  <2>3. Listing
    BY DEF Init, Listing, OK
  <2> QED BY <2>1, <2>2, <2>3, SafeInit
<1>2. I /\ [Next]_vars => I'
  BY SafeStep, FreshStep, TypedStep, ListStep
<1>3. I => ReportsTrue
  BY DEF TypedInv, Listing, ReportsTrue, TypedErrorsChangeNothing, ListingTrue, Idle
<1> QED BY <1>1, <1>2, <1>3, PTL DEF Spec

(* What is known of the sizes while nobody else touches the files. *)
InputFits ==
  disk.tree[call.path] = seen.input /\ disk.size[seen.input] <= MaxCopyBytes
(* The size that was looked at is still that of the file that will be read. *)
LimitInv ==
  /\ (pc = "read file" /\ call.path \notin since) => Source.size <= call.size
  /\ (pc \in {"stat target", "open source"} /\ call.op = "copy" /\ call.path \notin since) =>
       Source.size <= MaxCopyBytes
  /\ (pc = "open target" /\ call.op = "copy" /\ call.path \notin since) => InputFits
  /\ (pc = "copy content" /\ {call.path, call.target} \cap since = {}) =>
       InputFits /\ disk.tree[call.target] = seen.file /\ disk.size[seen.file] = 0

(* What the last call has returned or produced keeps to its limit. *)
Limited ==
  (pc = "idle" /\ OK /\ {call.path, call.target} \cap since = {}) =>
    /\ call.op = "read" => result.got <= call.size
    /\ call.op = "copy" => Stat(disk, call.target).size <= MaxCopyBytes

(* Arithmetic of the limits. *)
LEMMA NotOver == \A a, b \in Nat : ~(a > b) => a <= b
  OBVIOUS

(* Sizes are natural numbers. *)
LEMMA SizeNat == Sizes \subseteq Nat
  BY DiskAssumption DEF Sizes

(* Arithmetic of the limits. *)
LEMMA ZeroLeast == \A m \in Nat : 0 <= m
  OBVIOUS

(* A file that has just been made is empty, the others are as they were. *)
LEMMA CreateSizes ==
  ASSUME NEW d \in Disks, NEW p \in Paths, NEW i \in Inodes
  PROVE /\ Create(d, p, i, FALSE).tree[p] = i /\ Create(d, p, i, FALSE).size[i] = 0
        /\ \A j \in Inodes : j # i => Create(d, p, i, FALSE).size[j] = d.size[j]
<1>1. d.tree \in [Paths -> Inodes \cup {0}] /\ d.size \in [Inodes -> Sizes]
  BY DiskParts
<1>2. /\ Create(d, p, i, FALSE).tree = [d.tree EXCEPT ![p] = i]
      /\ Create(d, p, i, FALSE).size = [d.size EXCEPT ![i] = 0]
  BY DiskParts DEF Create, Disks
<1> QED BY <1>1, <1>2

(* The size of the source is one. *)
LEMMA SourceNat == ASSUME ControlInv, DiskInv PROVE Source.size \in Nat
<1>1. Source.size \in Sizes
  BY PathsOfCall, StatType DEF Source, DiskInv
<1> QED BY <1>1, SizeNat

(* The size of the source is looked at, and the source is opened. *)
LEMMA LimitByLook ==
  ASSUME SafeInv, LimitInv, Work \/ Break, pc' # "copy content"
  PROVE LimitInv'
<1>0. Flow /\ ControlInv /\ DiskInv /\ call' = call
  BY WorkFlow, WorkEffect DEF SafeInv, LeavesHistory
<1>1. /\ \A c : Fail(c) => pc' = "idle"
      /\ \A l, s : Goto(l, s) => seen' = s /\ pc' = l
      /\ call.path \in Paths /\ seen \in SeenType
  BY <1>0, PathsOfCall DEF Fail, Return, Goto, ControlInv
<1>2. CASE pc' = "read file"
  <2>1. StatSource /\ pc' # "idle"
    BY <1>0, <1>2 DEF Flow
  <2>2. ReadAfterStat /\ disk' = disk
    <3>0. /\ \A c : ~Fail(c)
          /\ \A l \in {"open target", "remove", "lstat root of walk", "read names", "stat target"} :
               \A t : ~Goto(l, t)
      BY <1>2 DEF Fail, Return, Goto
    <3>1. ~WriteAfterStat /\ ~NeedsSource /\ ~DeleteAfterStat
      BY <3>0 DEF WriteAfterStat, NeedsSource, DeleteAfterStat
    <3>2. ~CopyAfterStat /\ ~MoveAfterStat /\ ~StatOnly
      BY <1>2, <3>0 DEF CopyAfterStat, MoveAfterStat, StatOnly, Return
    <3> QED BY <2>1, <3>1, <3>2 DEF StatSource, LooksAnew
  <2>3. ~(Source.size > call.size)
    BY <1>1, <2>1, <2>2 DEF ReadAfterStat
  <2>4. Source.size \in Nat /\ call.size \in Nat
    BY <1>0, SourceNat, PathsOfCall
  <2>5. Source' = Source
    BY <1>0, <2>2 DEF Source
  <2>6. Source.size <= call.size
    BY <2>3, <2>4, NotOver
  <2>7. Source'.size <= call'.size
    BY <1>0, <2>5, <2>6
  <2> QED BY <1>2, <2>7 DEF LimitInv
<1>3. CASE pc' = "stat target" /\ call.op = "copy"
  <2>1. StatSource /\ pc' # "idle"
    BY <1>0, <1>3 DEF Flow
  <2>2. CopyAfterStat /\ disk' = disk
    BY <1>1, <1>3, <2>1 DEF StatSource, WriteAfterStat, NeedsSource, DeleteAfterStat, MoveAfterStat,
         ReadAfterStat, StatOnly, Return, LooksAnew
  <2>3. ~(Source.size > MaxCopyBytes)
    BY <1>1, <2>1, <2>2 DEF CopyAfterStat
  <2>4. Source.size \in Nat /\ MaxCopyBytes \in Nat
    BY <1>0, SourceNat, LimitsAssumption
  <2>5. Source' = Source
    BY <1>0, <2>2 DEF Source
  <2>6. Source.size <= MaxCopyBytes
    BY <2>3, <2>4, NotOver
  <2>7. Source'.size <= MaxCopyBytes
    BY <2>5, <2>6
  <2> QED BY <1>3, <2>7 DEF LimitInv
<1>4. CASE pc' = "open source"
  <2>1. CopyStatTarget /\ pc = "stat target" /\ call.op = "copy"
    BY <1>0, <1>4 DEF Flow
  <2>2. disk' = disk /\ since' = since
    BY <2>1 DEF CopyStatTarget, Looks, history
  <2>3. Source' = Source
    BY <1>0, <2>2 DEF Source
  <2>4. call.path \notin since => Source.size <= MaxCopyBytes
    BY <2>1 DEF LimitInv
  <2>5. call'.path \notin since' => Source'.size <= MaxCopyBytes
    BY <1>0, <2>2, <2>3, <2>4
  <2> QED BY <1>4, <2>5 DEF LimitInv
<1>5. CASE pc' = "open target" /\ call.op = "copy"
  <2>1. pc' # "idle" /\ pc' # "stat target"
    BY <1>5
  <2>2. ~StatSource
    BY <1>1, <1>5, <2>1 DEF StatSource, WriteAfterStat, NeedsSource, DeleteAfterStat, CopyAfterStat,
         MoveAfterStat, ReadAfterStat, StatOnly, Return
  <2>3. OpenSource /\ pc = "open source"
    BY <1>0, <1>5, <2>2 DEF Flow
  <2>4. Exists(disk, call.path) /\ seen' = [seen EXCEPT !.input = Source.ino]
    BY <1>1, <2>1, <2>3 DEF OpenSource
  <2>5. disk' = disk /\ since' = since
    BY <2>3 DEF OpenSource, Looks, history
  <2>6. seen'.input = disk.tree[call.path] /\ Source.size = disk.size[disk.tree[call.path]]
    BY <1>0, <1>1, <2>4, StatType DEF Source, DiskInv, SeenType
  <2>7. call.path \notin since => Source.size <= MaxCopyBytes
    BY <1>5, <2>3 DEF LimitInv
  <2>8. call'.path \notin since' => InputFits'
    BY <1>0, <2>5, <2>6, <2>7 DEF InputFits
  <2> QED BY <1>5, <2>8 DEF LimitInv
<1>6. CASE /\ pc' \notin {"read file", "open source"}
           /\ ~(pc' \in {"stat target", "open target"} /\ call.op = "copy")
  BY <1>0, <1>6 DEF LimitInv
<1> QED BY <1>2, <1>3, <1>4, <1>5, <1>6

(* The target of a copy is opened: a new file, or one that is cut off. *)
LEMMA LimitByOpen ==
  ASSUME SafeInv, LimitInv, Work \/ Break, pc' = "copy content"
  PROVE LimitInv'
<1>0. Flow /\ ControlInv /\ DiskInv /\ call' = call
  BY WorkFlow, WorkEffect DEF SafeInv, LeavesHistory
<1>1. OpenTarget /\ pc = "open target"
  BY <1>0 DEF Flow
<1>2. call.op = "copy" /\ ToCreate = call.target
  <2>1. call'.op = "copy"
    BY <1>0, SafeByWork DEF SafeInv, ControlInv, Fits
  <2> QED BY <1>0, <2>1 DEF ToCreate
<1>3. /\ call.path \in Paths /\ call.target \in Paths /\ seen \in SeenType
      /\ seen.input \in Inodes /\ seen.input # 0
  BY <1>0, <1>1, <1>2, PathsOfCall DEF ControlInv, Fits, SeenType
<1>4. ASSUME NEW i, Goto(AfterOpen, IsOpened(i)) PROVE seen'.file = i /\ seen'.input = seen.input
  BY <1>3, <1>4 DEF Goto, IsOpened, SeenType
<1>5. call.path \notin since => InputFits
  BY <1>1, <1>2 DEF LimitInv
<1>6. MaxCopyBytes \in Nat
  BY LimitsAssumption
<1> SUFFICES ASSUME call.path \notin since'
             PROVE /\ disk'.tree[call.path] = seen'.input /\ disk'.size[seen'.input] <= MaxCopyBytes
                   /\ disk'.tree[call.target] = seen'.file /\ disk'.size[seen'.file] = 0
  BY <1>0 DEF LimitInv, InputFits
<1>7. CASE CreateTarget
  <2> DEFINE i == FreeInode(disk, Open)
  <2>1. i \in Inodes /\ \A s \in Paths : disk.tree[s] # i
    BY <1>0, <1>2, <1>3, <1>7, FreeInodeFound DEF CreateTarget, CanCreate, Open, DiskInv
  <2>2. /\ disk' = Create(disk, call.target, i, FALSE) /\ CanCreate(disk, call.target)
        /\ since' = since /\ Goto(AfterOpen, IsOpened(i))
    BY <1>2, <1>7 DEF CreateTarget, Sets
  <2> HIDE DEF i
  <2> DEFINE e == Create(disk, call.target, i, FALSE)
  <2>3. /\ \A r \in Paths : r # call.target => SameAt(disk, disk', r)
        /\ disk'.tree[call.target] = i /\ disk'.size[i] = 0
        /\ \A j \in Inodes : j # i => disk'.size[j] = disk.size[j]
    <3>1. /\ \A r \in Paths : r # call.target => SameAt(disk, e, r)
          /\ e.tree[call.target] = i /\ e.size[i] = 0
          /\ \A j \in Inodes : j # i => e.size[j] = disk.size[j]
      <4>1. \A r \in Paths : r # call.target => SameAt(disk, e, r)
        BY <1>0, <1>3, <2>1, <2>2, CreateKeeps DEF DiskInv
      <4>2. /\ e.tree[call.target] = i /\ e.size[i] = 0
            /\ \A j \in Inodes : j # i => e.size[j] = disk.size[j]
        <5>1. disk \in Disks /\ call.target \in Paths /\ i \in Inodes
          BY <1>0, <1>3, <2>1 DEF DiskInv
        <5> QED BY ONLY ZenonT(60), <5>1, CreateSizes
      <4> QED BY <4>1, <4>2
    <3>2. disk' = e
      BY <2>2
    <3> HIDE DEF e
    <3> QED BY <3>1, <3>2
  <2>4. InputFits
    BY <1>5, <2>2
  <2>5. seen.input # i /\ call.path # call.target
    BY <1>3, <2>1, <2>2, <2>4 DEF InputFits, CanCreate, Exists
  <2>6. disk'.tree[call.path] = disk.tree[call.path]
    BY <1>3, <2>3, <2>5 DEF SameAt
  <2> QED BY <1>3, <1>4, <2>2, <2>3, <2>4, <2>5, <2>6 DEF InputFits
<1>8. CASE OpenExisting
  <2>1. /\ IsFile(disk, call.target) /\ since' = since
        /\ disk' = Store(disk, Target.ino, 0) /\ Goto(AfterOpen, IsOpened(Target.ino))
    <3>0. ~(pc' = "idle")
      OBVIOUS
    <3> QED BY <1>2, <1>8, <3>0 DEF OpenExisting, Sets, Fail, Return
  <2>2. Target.ino = disk.tree[call.target] /\ Target.ino \in Inodes /\ 0 \in Sizes
    BY ZenonT(60), <1>0, <1>2, <1>3, <2>1, StatType, UnseenType, DiskParts DEF Target, DiskInv, IsFile, Exists
  <2>3. /\ Store(disk, Target.ino, 0).tree = disk.tree /\ Store(disk, Target.ino, 0).size[Target.ino] = 0
        /\ \A j \in Inodes : j # Target.ino => Store(disk, Target.ino, 0).size[j] = disk.size[j]
    BY <1>0, <2>2, StoreKeeps DEF DiskInv
  <2>4. InputFits
    BY <1>5, <2>1
  <2>5. seen'.file = Target.ino /\ seen'.input = seen.input
    BY <1>4, <2>1
  <2>6. disk'.tree = disk.tree /\ disk'.size[Target.ino] = 0
        /\ \A j \in Inodes : j # Target.ino => disk'.size[j] = disk.size[j]
    BY <2>1, <2>3
  <2>7. disk'.size[seen.input] <= MaxCopyBytes
    <3>1. CASE seen.input = Target.ino
      <4>1. disk'.size[seen.input] = 0
        BY <2>6, <3>1
      <4>2. 0 <= MaxCopyBytes
        BY <1>6, ZeroLeast
      <4> QED BY <4>1, <4>2
    <3>2. CASE seen.input # Target.ino
      BY <1>3, <2>4, <2>6, <3>2 DEF InputFits
    <3> QED BY <3>1, <3>2
  <2> QED BY <2>2, <2>4, <2>5, <2>6, <2>7 DEF InputFits
<1>9. CASE Fail(Missing(disk, ToCreate))
  BY <1>9 DEF Fail, Return
<1> QED BY <1>1, <1>7, <1>8, <1>9 DEF OpenTarget

(* Changes to other files do not matter. *)
LEMMA LimitByOthers == ASSUME SafeInv, LimitInv, Others PROVE LimitInv'
<1>0. ControlInv /\ DiskInv /\ DiskInv'
  BY SafeByOthers DEF SafeInv
<1>1. PICK ps \in SUBSET Paths : Meddles(ps)
  BY <1>0, OthersEffect DEF SafeInv
<1>2. /\ pc' = pc /\ call' = call /\ seen' = seen /\ since' = since \cup ps
      /\ \A r \in Paths \ ps : SameAt(disk, disk', r)
      /\ call.path \in Paths /\ call.target \in Paths
  BY <1>0, <1>1, PathsOfCall DEF Meddles
<1>3. ASSUME call.path \notin since' PROVE Source' = Source /\ call.path \notin since
  <2>1. SameAt(disk, disk', call.path) /\ call.path \notin since
    BY <1>2, <1>3
  <2>2. Stat(disk', call.path) = Stat(disk, call.path)
    BY <1>0, <1>2, <2>1, SameStat DEF DiskInv
  <2> QED BY <1>2, <2>1, <2>2 DEF Source
<1>4. ASSUME NEW p \in {call.path, call.target}, p \notin since', NEW i, i # 0, disk.tree[p] = i
      PROVE disk'.tree[p] = i /\ disk'.size[i] = disk.size[i]
  <2>1. SameAt(disk, disk', p)
    BY <1>2, <1>4
  <2> QED BY <1>4, <2>1 DEF SameAt, Exists
<1>5. (pc' = "read file" /\ call'.path \notin since') => Source'.size <= call'.size
  BY <1>2, <1>3 DEF LimitInv
<1>6. (pc' \in {"stat target", "open source"} /\ call'.op = "copy" /\ call'.path \notin since') =>
        Source'.size <= MaxCopyBytes
  BY <1>2, <1>3 DEF LimitInv
<1>7. (pc \in {"open target", "copy content"} /\ call.op = "copy") => seen.input # 0
  BY <1>0 DEF ControlInv, Fits
<1>8. (pc' = "open target" /\ call'.op = "copy" /\ call'.path \notin since') => InputFits'
  BY <1>2, <1>3, <1>4, <1>7 DEF LimitInv, InputFits
<1>9. (pc' = "copy content" /\ {call'.path, call'.target} \cap since' = {}) =>
        InputFits' /\ disk'.tree[call'.target] = seen'.file /\ disk'.size[seen'.file] = 0
  <2> SUFFICES ASSUME pc = "copy content", {call.path, call.target} \cap since' = {}
               PROVE InputFits' /\ disk'.tree[call.target] = seen.file /\ disk'.size[seen.file] = 0
    BY <1>2
  <2>1. call.op = "copy" /\ seen.input # 0 /\ seen.file # 0
    BY <1>0 DEF ControlInv, Fits
  <2>2. InputFits /\ disk.tree[call.target] = seen.file /\ disk.size[seen.file] = 0
    BY <1>2 DEF LimitInv
  <2>3. call.path \notin since' /\ call.target \notin since'
    OBVIOUS
  <2> QED BY <1>2, <1>4, <2>1, <2>2, <2>3 DEF InputFits
<1> QED BY <1>5, <1>6, <1>8, <1>9 DEF LimitInv

(* Preservation by every step. *)
LEMMA LimitStep == ASSUME SafeInv, LimitInv, [Next]_vars PROVE LimitInv'
<1>1. CASE \E c \in CallSet : Begin(c)
  <2>1. pc' \in {"create path", "existing path"}
    BY <1>1 DEF Begin, First
  <2> QED BY <2>1 DEF LimitInv
<1>2. CASE Done \/ UNCHANGED vars
  BY <1>2 DEF Done, vars, history, LimitInv, InputFits, Source
<1> QED BY <1>1, <1>2, LimitByLook, LimitByOpen, LimitByOthers DEF Next

(* The bytes are read, or copied. *)
LEMMA LimitedByWork == ASSUME SafeInv, LimitInv, Work \/ Break PROVE Limited'
<1>0. Flow /\ ControlInv /\ DiskInv /\ call' = call
  BY WorkFlow, WorkEffect DEF SafeInv, LeavesHistory
<1> SUFFICES ASSUME pc' = "idle", OK', {call.path, call.target} \cap since' = {}
             PROVE /\ call.op = "read" => result'.got <= call.size
                   /\ call.op = "copy" => Stat(disk', call.target).size <= MaxCopyBytes
  BY <1>0 DEF Limited
<1>1. \A c : Fail(c) => result'.code = c
  BY DEF Fail, Return
<1>2. ~Fail(Internal) /\ \A p \in Paths : ~Fail(Missing(disk, p))
  BY <1>1, CodeType DEF Internal, NotFound, OK
<1>3. call.path \in Paths /\ call.target \in Paths
  BY <1>0, PathsOfCall
<1>4. CASE call.op = "read"
  <2>1. ReadFile /\ pc = "read file"
    <3>1. pc \notin {"write content", "copy content", "make leaf", "stat leaf", "remove", "remove all", "rename"}
      BY <1>0, <1>4 DEF ControlInv, Fits
    <3> QED BY <1>4, <3>1, OnlyThenOK
  <2>2. Return("ok", Source.size, {}) /\ since' = since
    BY <1>2, <1>3, <2>1 DEF ReadFile, Looks, history
  <2>3. result'.got = Source.size
    BY <2>2 DEF Return
  <2>4. Source.size <= call.size
    BY <2>1, <2>2 DEF LimitInv
  <2> QED BY <1>4, <2>3, <2>4
<1>5. CASE call.op = "copy"
  <2>1. pc = "copy content"
    <3>1. pc \notin {"write content", "make leaf", "stat leaf", "remove", "remove all", "rename", "read file",
                     "list entry"}
      BY <1>0, <1>5 DEF ControlInv, Fits
    <3> QED BY <1>5, <3>1, OnlyThenOK
  <2>2. CopyContent
    BY <1>0, <1>2, <2>1 DEF Flow, CopyContentFails
  <2> DEFINE n == Min({MaxSize, Max({disk.size[seen.file], seen.offset + disk.size[seen.input]})})
  <2>3. disk' = Store(disk, seen.file, n) /\ since' = since
    BY <1>2, <2>2 DEF CopyContent, Sets, Written
  <2>4. InputFits /\ disk.tree[call.target] = seen.file /\ disk.size[seen.file] = 0
    BY <2>1, <2>3 DEF LimitInv
  <2>5. seen.input \in Inodes /\ seen.file \in Inodes /\ seen.offset = 0 /\ seen.file # 0
    BY <1>0, <1>5, <2>1 DEF ControlInv, Fits, SeenType
  <2>6. disk.size[seen.input] \in Sizes /\ disk.size[seen.file] \in Sizes
    BY <1>0, <2>5, DiskParts DEF DiskInv
  <2>7. disk.size[seen.input] \in Nat /\ seen.offset + disk.size[seen.input] = disk.size[seen.input]
    BY <2>5, <2>6, DiskAssumption DEF Sizes
  <2>8. n \in Sizes /\ \A m \in Nat : disk.size[seen.file] <= m /\ seen.offset + disk.size[seen.input] <= m => n <= m
    BY <2>6, <2>7, WrittenSize
  <2> HIDE DEF n
  <2>9. n <= MaxCopyBytes
    <3>1. MaxCopyBytes \in Nat /\ 0 <= MaxCopyBytes
      BY LimitsAssumption
    <3> QED BY <2>4, <2>7, <2>8, <3>1 DEF InputFits
  <2>10. disk'.tree = disk.tree /\ disk'.size[seen.file] = n /\ disk' \in Disks
    BY <1>0, <2>3, <2>5, <2>8, StoreKeeps DEF DiskInv
  <2>11. Exists(disk', call.target) /\ disk'.tree[call.target] = seen.file
    BY <2>4, <2>5, <2>10 DEF Exists
  <2>12. Stat(disk', call.target).size = n
    BY <1>3, <2>10, <2>11, StatType
  <2> QED BY <1>5, <2>9, <2>12
<1> QED BY <1>4, <1>5

(* Preservation by every step. *)
LEMMA LimitedStep == ASSUME SafeInv, LimitInv, Limited, [Next]_vars PROVE Limited'
<1>1. CASE \E c \in CallSet : Begin(c)
  <2>1. pc' \in {"create path", "existing path"}
    BY <1>1 DEF Begin, First
  <2> QED BY <2>1 DEF Limited
<1>2. CASE Others
  <2>1. pc' = pc /\ pc # "idle"
    BY <1>2, OthersEffect DEF SafeInv, Meddles
  <2> QED BY <2>1 DEF Limited
<1>3. CASE Done \/ UNCHANGED vars
  BY <1>3 DEF Done, vars, history, Limited, OK
<1> QED BY <1>1, <1>2, <1>3, LimitedByWork DEF Next

(* What a recursive Delete may take away, and what of it the walk has      *)
(* still to come to.                                                       *)
AtStake == {p \in Below(call.path) \ {call.path} : Untouched(p)}
(* What the walk has still to come to is below an entry in its list. *)
Reached == {p \in AtStake : \E x \in Elements(seen.todo) : IsPrefix(x.path, p)}
(* What it no longer has to come to is counted. *)
Counted ==
  /\ Cardinality(AtStake \ Reached) <= seen.count /\ seen.count <= MaxDeleteEntries
  /\ \A x \in Elements(seen.todo) : ~x.dir => \A p \in AtStake : IsPrefix(x.path, p) => p = x.path
(* The walk counts all that is at stake before anything is removed. *)
WalkInv ==
  /\ pc = "walk" => Counted
  /\ (call.op = "delete" /\ call.flag /\ (pc = "remove all" \/ changed)) =>
       Cardinality(AtStake) <= MaxDeleteEntries

(* What is at stake is finite. *)
LEMMA StakeFinite ==
  /\ IsFiniteSet(AtStake) /\ Cardinality(AtStake) \in Nat /\ AtStake \subseteq Paths
  /\ \A S \in SUBSET AtStake : IsFiniteSet(S) /\ Cardinality(S) \in Nat
<1>1. AtStake \subseteq Paths
  BY DEF AtStake, Below
<1> QED BY <1>1, DiskAssumption, FS_Subset, FS_CardinalityType

(* Before the call changes anything, all of it stands. *)
LEMMA StakeStands ==
  ASSUME SafeInv, ~changed, NEW p \in AtStake
  PROVE /\ p \in Paths /\ IsPrefix(call.path, p) /\ p # call.path /\ Exists(disk, p)
        /\ \A q \in Paths : IsPrefix(q, p) /\ q # p => IsDir(disk, q)
<1>1. p \in Paths /\ IsPrefix(call.path, p) /\ p # call.path /\ Untouched(p)
  BY DEF AtStake, Below
<1>2. SameAt(before, disk, p) /\ Exists(before, p)
  BY <1>1 DEF SafeInv, UnchangedInv, Untouched
<1>3. Exists(disk, p)
  BY <1>2 DEF SameAt, Exists
<1>4. \A q \in Above(p) : IsDir(disk, q)
  BY <1>1, <1>3 DEF SafeInv, DiskInv, WellFormed
<1> QED BY <1>1, <1>3, <1>4 DEF Above, IsStrictPrefix

(* What is listed of a directory leads to everything at stake below it.    *)
LEMMA ListedLeads ==
  ASSUME SafeInv, ~changed, NEW e \in Paths
  PROVE /\ \A p \in AtStake : IsPrefix(e, p) /\ p # e =>
             \E x \in Elements(Snapshot(e)) : IsPrefix(x.path, p)
        /\ \A x \in Elements(Snapshot(e)) : ~x.dir =>
             \A p \in AtStake : IsPrefix(x.path, p) => p = x.path
<1>1. /\ Elements(Snapshot(e)) = {Listed(c) : c \in Children(disk, e)}
      /\ Children(disk, e) \subseteq Paths
  BY SnapshotMeans DEF SafeInv, DiskInv
<1>2. \A c : Listed(c).path = c /\ Listed(c).dir = IsDir(disk, c)
  BY DEF Listed
<1>3. ASSUME NEW p \in AtStake, IsPrefix(e, p), p # e
      PROVE \E x \in Elements(Snapshot(e)) : IsPrefix(x.path, p)
  <2>1. p \in Paths /\ Exists(disk, p) /\ \A q \in Paths : IsPrefix(q, p) /\ q # p => IsDir(disk, q)
    BY StakeStands
  <2>2. PICK c \in Paths : IsPrefix(e, c) /\ Len(c) = Len(e) + 1 /\ IsPrefix(c, p) /\ c # e
    BY <1>3, <2>1, NextBelow
  <2>3. Exists(disk, c)
    <3>1. CASE c = p
      BY <2>1, <3>1
    <3>2. CASE c # p
      BY <2>1, <2>2, <3>2, DiskParts DEF SafeInv, DiskInv
    <3> QED BY <3>1, <3>2
  <2>4. c \in Children(disk, e)
    BY <2>2, <2>3 DEF Children, Below
  <2> QED BY <1>1, <1>2, <2>2, <2>4
<1>4. ASSUME NEW x \in Elements(Snapshot(e)), ~x.dir, NEW p \in AtStake, IsPrefix(x.path, p)
      PROVE p = x.path
  <2>1. PICK c \in Children(disk, e) : x = Listed(c)
    BY <1>1
  <2>2. x.path = c /\ x.dir = IsDir(disk, c) /\ c \in Paths
    BY <1>1, <1>2, <2>1
  <2> QED BY <1>4, <2>2, StakeStands
<1> QED BY <1>3, <1>4

(* The walk starts. *)
LEMMA WalkStarts == ASSUME SafeInv, FreshInv, WalkRoot, pc' = "walk" PROVE Counted'
<1>0. pc = "lstat root of walk" /\ call.path \in Paths /\ seen \in SeenType
  BY PathsOfCall DEF WalkRoot, SafeInv, ControlInv
<1>1. ~changed
  BY <1>0 DEF SafeInv, ChangedInv
<1>2. seen' = [seen EXCEPT !.todo = <<Listed(call.path)>>] /\ Looks
  <2>1. pc' # "idle"
    OBVIOUS
  <2> QED BY <2>1 DEF WalkRoot, Fail, Return, Goto
<1>3. seen'.count = 0 /\ seen'.todo = <<Listed(call.path)>>
  BY <1>0, <1>2 DEF SeenType, FreshInv
<1>4. Elements(seen'.todo) = {Listed(call.path)}
  BY <1>0, <1>3, ElementsOfOne, ListedType
<1>5. Listed(call.path).path = call.path /\ Listed(call.path).dir = IsDir(disk, call.path)
  BY DEF Listed
<1>6. AtStake' = AtStake
  BY <1>2 DEF AtStake, Untouched, Looks, history, Exists
<1>7. AtStake' \ Reached' = {}
  <2>1. \A p \in AtStake : IsPrefix(call.path, p)
    BY DEF AtStake, Below
  <2> QED BY <1>4, <1>5, <1>6, <2>1 DEF Reached
<1>8. Cardinality({}) = 0 /\ MaxDeleteEntries \in Nat
  BY FS_EmptySet, LimitsAssumption
<1>9. ASSUME ~IsDir(disk, call.path), NEW p \in AtStake PROVE FALSE
  BY <1>0, <1>1, <1>9, StakeStands
<1>10. Cardinality(AtStake' \ Reached') <= seen'.count /\ seen'.count <= MaxDeleteEntries
  <2>1. 0 <= MaxDeleteEntries
    BY <1>8, ZeroLeast
  <2> QED BY <1>3, <1>7, <1>8, <2>1
<1>11. \A x \in Elements(seen'.todo) : ~x.dir => \A p \in AtStake' : IsPrefix(x.path, p) => p = x.path
  BY <1>4, <1>5, <1>6, <1>9
<1> QED BY <1>10, <1>11 DEF Counted

(* Arithmetic of the limits. *)
LEMMA NotMore == \A a, b, c \in Nat : a <= b /\ b <= c => a <= c
  OBVIOUS

(* The walk comes to the next entry. *)
LEMMA WalkGoesOn ==
  ASSUME SafeInv, pc = "walk", Counted, seen.todo # << >>, ~changed,
         NEW more \in Seq(EntryType), NEW n \in Nat,
         LET e == Head(seen.todo)
         IN /\ n = (IF e.path = call.path THEN 0 ELSE seen.count + 1)
            /\ \/ ~e.dir /\ more = << >>
               \/ more = Snapshot(e.path),
         n <= MaxDeleteEntries,
         seen' = [seen EXCEPT !.todo = more \o Tail(@), !.count = n],
         AtStake' = AtStake
  PROVE Counted'
<1> DEFINE e == Head(seen.todo)
<1>0. /\ seen.todo \in Seq(EntryType) /\ seen.count \in Nat /\ seen \in SeenType
      /\ call.path \in Paths
  BY PathsOfCall DEF SafeInv, ControlInv, SeenType
<1>1. e \in EntryType /\ e.path \in Paths /\ Tail(seen.todo) \in Seq(EntryType)
  BY <1>0, HeadType
<1>2. Elements(seen.todo) = {e} \cup Elements(Tail(seen.todo))
  BY <1>0, ElementsOfTail
<1>3. seen'.todo = more \o Tail(seen.todo) /\ seen'.count = n
  BY <1>0 DEF SeenType
<1>4. Elements(seen'.todo) = Elements(more) \cup Elements(Tail(seen.todo))
  BY <1>1, <1>3, ElementsOfConcat
<1>5. n = (IF e.path = call.path THEN 0 ELSE seen.count + 1)
  OBVIOUS
<1>6. (~e.dir /\ more = << >>) \/ more = Snapshot(e.path)
  OBVIOUS
<1>7. \A p \in AtStake : IsPrefix(call.path, p) /\ p # call.path
  BY DEF AtStake, Below
<1> HIDE DEF e
<1>8. ASSUME NEW p \in AtStake, IsPrefix(e.path, p), p # e.path
      PROVE \E x \in Elements(more) : IsPrefix(x.path, p)
  <2>1. ~(~e.dir)
    BY <1>2, <1>8 DEF Counted
  <2>2. more = Snapshot(e.path)
    BY <1>6, <2>1
  <2> QED BY <1>1, <1>8, <2>2, ListedLeads
<1>9. ASSUME NEW x \in Elements(more), ~x.dir, NEW p \in AtStake, IsPrefix(x.path, p)
      PROVE p = x.path
  <2>1. more = Snapshot(e.path)
    BY <1>6, ElementsOfNone
  <2> QED BY <1>1, <1>9, <2>1, ListedLeads
<1>10. \A x \in Elements(seen'.todo) : ~x.dir => \A p \in AtStake' : IsPrefix(x.path, p) => p = x.path
  BY <1>2, <1>4, <1>9 DEF Counted
<1>11. AtStake' \ Reached' \subseteq (AtStake \ Reached) \cup {e.path}
  <2> SUFFICES ASSUME NEW p \in AtStake, p \notin Reached', p # e.path
               PROVE p \notin Reached
    OBVIOUS
  <2>1. \A x \in Elements(seen'.todo) : ~IsPrefix(x.path, p)
    BY DEF Reached
  <2>2. ~IsPrefix(e.path, p)
    BY <1>4, <1>8, <2>1
  <2>3. \A x \in Elements(seen.todo) : ~IsPrefix(x.path, p)
    BY <1>2, <1>4, <2>1, <2>2
  <2> QED BY <2>3 DEF Reached
<1>12. Cardinality(AtStake' \ Reached') <= n
  <2>1. CASE e.path = call.path
    <3>1. AtStake' \ Reached' = {}
      <4>1. \A p \in AtStake : p \in Reached
        BY <1>2, <1>7, <2>1 DEF Reached
      <4>2. \A p \in AtStake : p # e.path
        BY <1>7, <2>1
      <4> QED BY <1>11, <4>1, <4>2
    <3>2. n = 0 /\ Cardinality({}) = 0
      BY <1>5, <2>1, FS_EmptySet
    <3>3. Cardinality(AtStake' \ Reached') = 0
      BY <3>1, <3>2
    <3> QED BY ONLY <3>2, <3>3, ZeroLeast
  <2>2. CASE e.path # call.path
    <3> DEFINE S == AtStake \ Reached
               T == AtStake' \ Reached'
    <3>1. IsFiniteSet(S) /\ Cardinality(S) \in Nat
      BY StakeFinite
    <3>2. /\ IsFiniteSet(S \cup {e.path}) /\ Cardinality(S \cup {e.path}) \in Nat
          /\ Cardinality(S \cup {e.path}) <= Cardinality(S) + 1
      <4>1. /\ IsFiniteSet(S \cup {e.path})
            /\ Cardinality(S \cup {e.path}) =
                 IF e.path \in S THEN Cardinality(S) ELSE Cardinality(S) + 1
        BY <3>1, FS_AddElement
      <4> HIDE DEF S
      <4> QED BY <3>1, <4>1
    <3>3. T \subseteq S \cup {e.path}
      BY <1>11
    <3> HIDE DEF S, T
    <3>4. Cardinality(T) <= Cardinality(S \cup {e.path}) /\ Cardinality(T) \in Nat
      BY <3>2, <3>3, FS_Subset, FS_CardinalityType
    <3>5. Cardinality(S) <= seen.count
      BY DEF Counted, S
    <3>6. Cardinality(S \cup {e.path}) <= seen.count + 1
      <4>1. Cardinality(S) + 1 \in Nat /\ seen.count + 1 \in Nat
        BY <1>0, <3>1
      <4> QED BY <1>0, <3>1, <3>2, <3>5
    <3>7. Cardinality(T) <= seen.count + 1
      <4>1. seen.count + 1 \in Nat
        BY <1>0
      <4> QED BY <3>2, <3>4, <3>6, <4>1, NotMore
    <3>8. n = seen.count + 1
      BY <1>5, <2>2
    <3> QED BY <3>7, <3>8 DEF T
  <2> QED BY <2>1, <2>2
<1>13. Cardinality(AtStake' \ Reached') <= seen'.count /\ seen'.count <= MaxDeleteEntries
  BY <1>3, <1>12
<1> QED BY <1>10, <1>13 DEF Counted
(* Preservation by the steps of the server: the walk and the removal. *)
LEMMA WalkByWork == ASSUME SafeInv, FreshInv, WalkInv, Work \/ Break PROVE WalkInv'
<1>0. Flow /\ ControlInv /\ ControlInv'
  BY WorkFlow, SafeByWork DEF SafeInv
<1>1. /\ call' = call /\ before' = before /\ touched' = touched
      /\ changed' = changed \/ Removed \/ pc \in {"open target", "make parent", "make leaf",
                                                 "write content", "copy content", "rename"}
  BY WorkEffect DEF SafeInv, LeavesHistory, Keeps, Made, Truncated, Wrote, Renamed
<1>2. AtStake' = AtStake
  BY <1>1 DEF AtStake, Untouched, Exists
<1>3. CASE pc' = "walk" /\ pc = "walk"
  <2>1. Walk /\ ~changed
    BY <1>0, <1>3 DEF Flow, SafeInv, ChangedInv
  <2>2. seen.todo # << >>
    BY <1>3, <2>1 DEF Walk, Goto
  <2> DEFINE e == Head(seen.todo)
             n == IF e.path = call.path THEN 0 ELSE seen.count + 1
  <2>3. n \in Nat /\ e.path \in Paths
    BY <1>0, <2>2, HeadType DEF ControlInv, SeenType
  <2>4. pc' # "idle"
    BY <1>3
  <2>5. ~(n > MaxDeleteEntries)
    BY <2>1, <2>2, <2>4 DEF Walk, OverDeleteLimit, Fail, Return
  <2>6. \/ ~e.dir /\ seen' = [seen EXCEPT !.todo = << >> \o Tail(@), !.count = n]
        \/ seen' = [seen EXCEPT !.todo = Snapshot(e.path) \o Tail(@), !.count = n]
    BY <2>1, <2>2, <2>4, <2>5 DEF Walk, OverDeleteLimit, Fail, Return, Goto
  <2>7. << >> \in Seq(EntryType) /\ Snapshot(e.path) \in Seq(EntryType)
    BY <2>3, ElementsOfNone, SnapshotMeans DEF SafeInv, DiskInv
  <2>8. n <= MaxDeleteEntries
    BY <2>3, <2>5, NotOver, LimitsAssumption
  <2>9. Counted
    BY <1>3 DEF WalkInv
  <2>10. CASE ~e.dir /\ seen' = [seen EXCEPT !.todo = << >> \o Tail(@), !.count = n]
    <3>1. Counted'
      BY <1>2, <1>3, <2>1, <2>2, <2>3, <2>7, <2>8, <2>9, <2>10, WalkGoesOn
    <3> QED BY <1>3, <2>1, <3>1, <1>1 DEF WalkInv, Removed
  <2>11. CASE seen' = [seen EXCEPT !.todo = Snapshot(e.path) \o Tail(@), !.count = n]
    <3>1. Counted'
      BY <1>2, <1>3, <2>1, <2>2, <2>3, <2>7, <2>8, <2>9, <2>11, WalkGoesOn
    <3> QED BY <1>3, <2>1, <3>1, <1>1 DEF WalkInv, Removed
  <2> QED BY <2>6, <2>10, <2>11
<1>4. CASE pc' = "walk" /\ pc = "lstat root of walk"
  <2>1. Counted'
    BY <1>0, <1>4, WalkStarts DEF Flow
  <2>2. ~changed'
    BY <1>1, <1>4 DEF SafeInv, ChangedInv, Removed
  <2> QED BY <1>4, <2>1, <2>2 DEF WalkInv
<1>5. pc' = "walk" => pc \in {"walk", "lstat root of walk"}
  BY <1>0 DEF Flow
<1>6. CASE pc' = "remove all" /\ pc = "walk"
  <2>1. Walk /\ Counted
    BY <1>0, <1>6 DEF Flow, WalkInv
  <2>2. seen.todo = << >>
    BY <1>6, <2>1 DEF Walk, Goto, Fail, Return
  <2>3. AtStake \ Reached = AtStake
    BY <2>2, ElementsOfNone DEF Reached
  <2>4. Cardinality(AtStake) <= seen.count /\ seen.count <= MaxDeleteEntries
    BY <2>1, <2>3 DEF Counted
  <2>5. Cardinality(AtStake) \in Nat /\ seen.count \in Nat /\ MaxDeleteEntries \in Nat
    BY <1>0, StakeFinite, LimitsAssumption DEF ControlInv, SeenType
  <2>6. Cardinality(AtStake) <= MaxDeleteEntries
    BY <2>4, <2>5, NotMore
  <2> QED BY <1>2, <1>6, <2>6 DEF WalkInv
<1>7. CASE pc = "remove"
  <2>1. RemovePath /\ pc' = "idle" /\ ~changed /\ call.path \in Paths
    BY <1>0, <1>7, PathsOfCall DEF Flow, SafeInv, ChangedInv
  <2>2. CASE Looks
    BY <2>1, <2>2 DEF Looks, history, WalkInv
  <2>3. CASE IsFile(disk, call.path) \/ IsEmptyDir(disk, call.path)
    <3>1. \A r \in Paths : IsPrefix(call.path, r) /\ r # call.path => ~Exists(disk, r)
      BY <2>1, <2>3, EmptyMeans DEF SafeInv, DiskInv
    <3>2. AtStake = {}
      BY <2>1, <3>1, StakeStands
    <3>3. Cardinality(AtStake') <= MaxDeleteEntries
      BY <1>2, <3>2, FS_EmptySet, LimitsAssumption, ZeroLeast
    <3> QED BY <2>1, <3>3 DEF WalkInv
  <2> QED BY <2>1, <2>2, <2>3 DEF RemovePath
<1>8. CASE /\ pc' # "walk" /\ ~(pc' = "remove all" /\ pc = "walk") /\ pc # "remove"
  <2>1. pc' = "remove all" => pc = "remove all"
    BY <1>0, <1>8 DEF Flow
  <2>2. call.op = "delete" => pc \notin {"open target", "make parent", "make leaf",
                                       "write content", "copy content", "rename"}
    BY <1>0 DEF ControlInv, Fits
  <2>3. Removed => pc = "remove all"
    BY <1>8 DEF Removed
  <2>4. (call.op = "delete" /\ (pc' = "remove all" \/ changed')) => pc = "remove all" \/ changed
    BY <1>1, <2>1, <2>2, <2>3
  <2> QED BY <1>1, <1>2, <1>8, <2>4 DEF WalkInv
<1> QED BY <1>3, <1>4, <1>5, <1>6, <1>7, <1>8

(* Others only take from what is at stake. *)
LEMMA WalkByOthers == ASSUME SafeInv, WalkInv, Others PROVE WalkInv'
<1>1. PICK ps \in SUBSET Paths : Meddles(ps)
  BY OthersEffect DEF SafeInv
<1>2. /\ pc' = pc /\ call' = call /\ seen' = seen /\ before' = before /\ changed' = changed
      /\ touched' = touched \cup ps
  BY <1>1 DEF Meddles
<1>3. AtStake' \subseteq AtStake
  BY <1>2 DEF AtStake, Untouched, Exists
<1>4. AtStake' \ Reached' \subseteq AtStake \ Reached
  BY <1>2, <1>3 DEF Reached
<1>5. /\ Cardinality(AtStake') <= Cardinality(AtStake)
      /\ Cardinality(AtStake') \in Nat /\ Cardinality(AtStake) \in Nat
  BY <1>3, StakeFinite, FS_Subset, FS_CardinalityType
<1>6. IsFiniteSet(AtStake \ Reached) /\ Cardinality(AtStake \ Reached) \in Nat
  BY StakeFinite
<1>7. /\ Cardinality(AtStake' \ Reached') <= Cardinality(AtStake \ Reached)
      /\ Cardinality(AtStake' \ Reached') \in Nat
  BY <1>4, <1>6, FS_Subset, FS_CardinalityType
<1>8. seen.count \in Nat /\ MaxDeleteEntries \in Nat
  BY LimitsAssumption DEF SafeInv, ControlInv, SeenType
<1>9. Counted => Counted'
  <2> SUFFICES ASSUME Counted PROVE Counted'
    OBVIOUS
  <2>1. Cardinality(AtStake' \ Reached') <= seen.count
    BY <1>6, <1>7, <1>8, NotMore DEF Counted
  <2> QED BY <1>2, <1>3, <2>1 DEF Counted
<1>10. Cardinality(AtStake) <= MaxDeleteEntries => Cardinality(AtStake') <= MaxDeleteEntries
  BY <1>5, <1>8, NotMore
<1> QED BY <1>2, <1>9, <1>10 DEF WalkInv

(* Preservation by every step. *)
LEMMA WalkStep == ASSUME SafeInv, FreshInv, WalkInv, [Next]_vars PROVE WalkInv'
<1>1. CASE \E c \in CallSet : Begin(c)
  <2>1. pc' \in {"create path", "existing path"} /\ changed' = FALSE
    BY <1>1 DEF Begin, First
  <2> QED BY <2>1 DEF WalkInv
<1>2. CASE Done \/ UNCHANGED vars
  <2>1. /\ pc' = pc /\ call' = call /\ seen' = seen /\ before' = before /\ touched' = touched
        /\ changed' = changed
    BY <1>2 DEF Done, vars, history
  <2>2. AtStake' = AtStake
    BY <2>1 DEF AtStake, Untouched, Exists
  <2>3. Reached' = Reached
    BY <2>1, <2>2 DEF Reached
  <2>4. Counted => Counted'
    BY <2>1, <2>2, <2>3 DEF Counted
  <2> QED BY <2>1, <2>2, <2>4 DEF WalkInv
<1> QED BY <1>1, <1>2, WalkByWork, WalkByOthers DEF Next

(* A Delete takes away no more than it has counted. *)
LEMMA DeleteBounded == ASSUME SafeInv, WalkInv PROVE DeleteWithinLimit
<1> DEFINE Gone == {p \in Below(call.path) \ {call.path} : Untouched(p) /\ ~Exists(disk, p)}
<1> SUFFICES ASSUME call.op = "delete" PROVE Cardinality(Gone) <= MaxDeleteEntries
  BY DEF DeleteWithinLimit
<1>1. MaxDeleteEntries \in Nat /\ 0 <= MaxDeleteEntries /\ Cardinality({}) = 0
  BY LimitsAssumption, ZeroLeast, FS_EmptySet
<1>2. \A p \in Gone : p \in Paths /\ p # call.path /\ Untouched(p) /\ ~Exists(disk, p)
  BY DEF Below
<1>3. \A p : SameAt(before, disk, p) /\ Untouched(p) => Exists(disk, p)
  BY DEF SameAt, Untouched, Exists
<1>4. CASE ~changed
  <2>1. Gone = {}
    BY <1>2, <1>3, <1>4 DEF SafeInv, UnchangedInv, Untouched
  <2> QED BY <1>1, <2>1
<1>5. CASE ~call.flag
  <2>1. Footprint(call) = {call.path}
    BY <1>5 DEF Footprint
  <2>2. Gone = {}
    BY <1>2, <1>3, <2>1 DEF SafeInv, SurviveInv
  <2> QED BY <1>1, <2>2
<1>6. CASE changed /\ call.flag
  <2>1. Cardinality(AtStake) <= MaxDeleteEntries
    BY <1>6 DEF WalkInv
  <2>2. Gone \subseteq AtStake
    BY DEF AtStake
  <2> HIDE DEF Gone
  <2>3. Cardinality(Gone) <= Cardinality(AtStake) /\ Cardinality(Gone) \in Nat
    BY <2>2, StakeFinite, FS_Subset
  <2> QED BY <1>1, <2>1, <2>3, StakeFinite, NotMore
<1> QED BY <1>4, <1>5, <1>6

(* The limits bound what a call does: the bytes read and copied as long as *)
(* nobody changes the files after the look at their size; and of the       *)
(* entries that were there when a recursive deletion began and that nobody *)
(* else has touched, it takes away no more than it may.                    *)
THEOREM FilesRespectLimits == Spec => []LimitsRespected
<1> DEFINE I == SafeInv /\ FreshInv /\ LimitInv /\ Limited /\ WalkInv
<1>1. Init => I
  <2> SUFFICES ASSUME Init PROVE I
    OBVIOUS
  <2>1. FreshInv /\ LimitInv
    BY DEF Init, FreshInv, LimitInv
  <2>2. WalkInv
    BY DEF Init, WalkInv
  <2>3. Limited
    BY DEF Init, Limited, OK
  <2> QED BY <2>1, <2>2, <2>3, SafeInit
<1>2. I /\ [Next]_vars => I'
  BY SafeStep, FreshStep, LimitStep, LimitedStep, WalkStep
<1>3. I => LimitsRespected
  BY DeleteBounded DEF Limited, LimitsRespected, LimitsHold, Idle
<1> QED BY <1>1, <1>2, <1>3, PTL DEF Spec

-----------------------------------------------------------------------------
(* Acting at once.  What a view says of a disk.                            *)
LEMMA ViewMeans ==
  ASSUME NEW d \in Disks, NEW p \in Paths
  PROVE /\ View(d)[p] = Nothing <=> ~Exists(d, p)
        /\ View(d)[p] = Directory <=> IsDir(d, p)
        /\ AsFile(View(d)[p]) <=> IsFile(d, p)
        /\ IsFile(d, p) => d.size[d.tree[p]] \in Sizes /\ View(d)[p] = File(d.size[d.tree[p]])
        /\ View(d)[p] \in Int
<1>1. d.tree[p] \in Inodes \cup {0} /\ (IsDir(d, p) => Exists(d, p)) /\ d.size \in [Inodes -> Sizes]
  BY DiskParts
<1>2. Exists(d, p) => d.size[d.tree[p]] \in Sizes
  BY <1>1 DEF Exists
<1>3. Sizes \subseteq Nat
  BY DiskAssumption DEF Sizes
<1>4. View(d)[p] = IF ~Exists(d, p) THEN 0
                   ELSE IF IsDir(d, p) THEN 1 ELSE d.size[d.tree[p]] + 2
  BY DEF View, Nothing, Directory, File
<1>5. CASE ~Exists(d, p)
  BY <1>1, <1>4, <1>5 DEF IsFile, Nothing, Directory, AsFile, File
<1>6. CASE IsDir(d, p)
  BY <1>1, <1>4, <1>6 DEF IsFile, Nothing, Directory, AsFile, File
<1>7. CASE IsFile(d, p)
  <2>1. View(d)[p] = d.size[d.tree[p]] + 2 /\ d.size[d.tree[p]] \in Nat /\ Exists(d, p) /\ ~IsDir(d, p)
    BY <1>2, <1>3, <1>4, <1>7 DEF IsFile
  <2>2. d.size[d.tree[p]] + 2 \in Int /\ d.size[d.tree[p]] + 2 >= 2
        /\ d.size[d.tree[p]] + 2 # 0 /\ d.size[d.tree[p]] + 2 # 1
    BY <2>1
  <2> QED BY <1>2, <1>7, <2>1, <2>2 DEF Nothing, Directory, AsFile, File
<1> QED BY <1>1, <1>5, <1>6, <1>7 DEF IsFile

(* Views are functions on the paths.                                       *)
LEMMA ViewType ==
  ASSUME NEW d \in Disks
  PROVE View(d) \in Views /\ View(d) = [p \in Paths |-> View(d)[p]]
<1>1. View(d) = [p \in Paths |-> View(d)[p]]
  BY DEF View
<1>2. ASSUME NEW p \in Paths
      PROVE View(d)[p] \in {Nothing, Directory} \cup {File(n) : n \in Sizes}
  <2>1. IsFile(d, p) \/ IsDir(d, p) \/ ~Exists(d, p)
    BY DEF IsFile
  <2> QED BY <2>1, ViewMeans
<1> QED BY <1>1, <1>2 DEF Views

(* Two views that agree on every path are the same.                        *)
LEMMA SameViews ==
  ASSUME NEW d \in Disks, NEW v, v = [p \in Paths |-> v[p]],
         \A p \in Paths : View(d)[p] = v[p]
  PROVE View(d) = v
<1>1. View(d) = [p \in Paths |-> View(d)[p]]
  BY ViewType
<1>2. [p \in Paths |-> View(d)[p]] = [p \in Paths |-> v[p]]
  OBVIOUS
<1> QED BY <1>1, <1>2

(* What has not changed looks the same. *)
LEMMA SameLooksSame ==
  ASSUME NEW d \in Disks, NEW e \in Disks, NEW p \in Paths, SameAt(d, e, p)
  PROVE View(e)[p] = View(d)[p]
<1>1. (Exists(e, p) <=> Exists(d, p)) /\ (IsDir(e, p) <=> IsDir(d, p)) /\ e.tree[p] = d.tree[p]
      /\ (Exists(d, p) => e.size[d.tree[p]] = d.size[d.tree[p]])
  BY DEF SameAt, Exists
<1> QED BY <1>1 DEF View

(* Where a file can be put, in terms of the disk. *)
PutOn(d, p, force) ==
  /\ p # Root /\ IsDir(d, Front(p))
  /\ ~Exists(d, p) \/ (force /\ IsFile(d, p))

(* What is inside a directory. *)
InsideOf(d, p) == {q \in Paths : IsPrefix(p, q) /\ q # p /\ Exists(d, q)}

(* The contract's view of a disk in terms of the disk.                     *)
LEMMA ContractMeans ==
  ASSUME NEW d \in Disks, NEW p \in Paths
  PROVE /\ \A force : CanPut(View(d), p, force) <=> PutOn(d, p, force)
        /\ Inside(View(d), p) = InsideOf(d, p)
        /\ Entries(View(d), p) = Children(d, p)
        /\ IsFiniteSet(Inside(View(d), p)) /\ Cardinality(Inside(View(d), p)) \in Nat
        /\ IsFiniteSet(Children(d, p)) /\ Children(d, p) \subseteq Inside(View(d), p)
<1>1. Front(p) \in Paths
  BY FrontPath
<1>2. ASSUME NEW force PROVE CanPut(View(d), p, force) <=> PutOn(d, p, force)
  BY <1>1, ViewMeans DEF CanPut, PutOn
<1>3. Inside(View(d), p) = InsideOf(d, p)
  BY ViewMeans DEF Inside, InsideOf, Below
<1>4. ASSUME NEW q \in Paths, Len(q) = Len(p) + 1 PROVE q # p
  BY <1>4, PathType
<1>5. Entries(View(d), p) = Children(d, p)
  BY <1>3, <1>4 DEF Entries, InsideOf, Children, Below
<1>6. InsideOf(d, p) \subseteq Paths /\ Children(d, p) \subseteq InsideOf(d, p)
  BY <1>4 DEF InsideOf, Children, Below
<1>7. IsFiniteSet(InsideOf(d, p)) /\ IsFiniteSet(Children(d, p))
  BY <1>6, DiskAssumption, FS_Subset
<1> QED BY <1>2, <1>3, <1>5, <1>6, <1>7, FS_CardinalityType

(* When a call is permitted, in terms of the disk.                         *)
LEMMA PermittedMeans ==
  ASSUME NEW d \in Disks, NEW c \in CallSet
  PROVE LET may == Permitted(View(d), c)
        IN /\ c.op = "write" => (may <=> c.size <= MaxWriteBytes /\ PutOn(d, c.path, c.flag))
           /\ c.op = "mkdir" =>
                (may <=> IsDir(d, Root) /\ \A q \in Above(c.path) \cup {c.path} : ~IsFile(d, q))
           /\ c.op = "delete" =>
                (may <=> /\ Exists(d, c.path)
                         /\ Cardinality(Inside(View(d), c.path)) <= (IF c.flag THEN MaxDeleteEntries ELSE 0))
           /\ c.op = "copy" =>
                (may <=> /\ IsFile(d, c.path) /\ Stat(d, c.path).size <= MaxCopyBytes
                         /\ PutOn(d, c.target, c.flag))
           /\ c.op = "move" =>
                (may <=> /\ Exists(d, c.path) /\ ~IsPrefix(c.path, c.target)
                         /\ PutOn(d, c.target, c.flag /\ ~IsDir(d, c.path)))
           /\ c.op = "read" => (may <=> c.size # 0 /\ IsFile(d, c.path) /\ Stat(d, c.path).size <= c.size)
           /\ c.op = "list" =>
                (may <=> IsDir(d, c.path) /\ Cardinality(Children(d, c.path)) <= MaxListEntries)
           /\ c.op = "stat" => (may <=> Exists(d, c.path))
<1> DEFINE may == Permitted(View(d), c)
<1>1. c.path \in Paths /\ c.target \in Paths /\ Root \in Paths /\ c.size \in Nat /\ MaxCopyBytes \in Nat
      /\ Above(c.path) \subseteq Paths
  BY CallType, DiskAssumption, LimitsAssumption DEF Root, Above
<1>2. ASSUME NEW n \in Nat, IsFile(d, c.path)
      PROVE View(d)[c.path] <= File(n) <=> Stat(d, c.path).size <= n
  <2>1. View(d)[c.path] = File(Stat(d, c.path).size) /\ Stat(d, c.path).size \in Nat
    BY <1>1, <1>2, ViewMeans, StatType, SizeNat, ZenonT(60) DEF IsFile
  <2> QED BY <1>2, <2>1 DEF File
<1>3. c.op = "write" => (may <=> c.size <= MaxWriteBytes /\ PutOn(d, c.path, c.flag))
  BY <1>1, ContractMeans DEF Permitted
<1>4. c.op = "mkdir" =>
        (may <=> IsDir(d, Root) /\ \A q \in Above(c.path) \cup {c.path} : ~IsFile(d, q))
  BY <1>1, ViewMeans DEF Permitted
<1>5. c.op = "delete" =>
        (may <=> /\ Exists(d, c.path)
                 /\ Cardinality(Inside(View(d), c.path)) <= (IF c.flag THEN MaxDeleteEntries ELSE 0))
  BY <1>1, ViewMeans DEF Permitted
<1>6. c.op = "copy" =>
        (may <=> /\ IsFile(d, c.path) /\ Stat(d, c.path).size <= MaxCopyBytes
                 /\ PutOn(d, c.target, c.flag))
  BY <1>1, <1>2, ContractMeans, ViewMeans DEF Permitted
<1>7. c.op = "move" =>
        (may <=> /\ Exists(d, c.path) /\ ~IsPrefix(c.path, c.target)
                 /\ PutOn(d, c.target, c.flag /\ ~IsDir(d, c.path)))
  <2>1. CanPut(View(d), c.target, c.flag /\ View(d)[c.path] # Directory)
        <=> PutOn(d, c.target, c.flag /\ ~IsDir(d, c.path))
    <3>1. PutOn(d, c.target, c.flag /\ View(d)[c.path] # Directory)
          <=> PutOn(d, c.target, c.flag /\ ~IsDir(d, c.path))
      BY <1>1, ViewMeans DEF PutOn
    <3> QED BY <1>1, <3>1, ContractMeans
  <2>2. c.target \notin Below(c.path) <=> ~IsPrefix(c.path, c.target)
    BY <1>1 DEF Below
  <2>3. View(d)[c.path] # Nothing <=> Exists(d, c.path)
    BY <1>1, ViewMeans
  <2> QED BY <2>1, <2>2, <2>3 DEF Permitted
<1>8. c.op = "read" => (may <=> c.size # 0 /\ IsFile(d, c.path) /\ Stat(d, c.path).size <= c.size)
  BY <1>1, <1>2, ViewMeans DEF Permitted
<1>9. c.op = "list" =>
        (may <=> IsDir(d, c.path) /\ Cardinality(Children(d, c.path)) <= MaxListEntries)
  BY <1>1, ContractMeans, ViewMeans DEF Permitted
<1>10. c.op = "stat" => (may <=> Exists(d, c.path))
  BY <1>1, ViewMeans DEF Permitted
<1> QED BY <1>3, <1>4, <1>5, <1>6, <1>7, <1>8, <1>9, <1>10

(* Why a file cannot be put at a path, and why one can.                    *)
LEMMA PutMeans ==
  ASSUME NEW d \in Disks, WellFormed(d), ~IsFile(d, Root), NEW p \in Paths
  PROVE /\ Missing(d, p) = Internal => \A force : ~PutOn(d, p, force)
        /\ ~Exists(d, p) /\ ~CanCreate(d, p) => \A force : ~PutOn(d, p, force)
        /\ ~Exists(d, Root) => \A force : ~PutOn(d, p, force)
        /\ CanCreate(d, p) => \A force : PutOn(d, p, force)
        /\ IsFile(d, p) => p # Root /\ IsDir(d, Front(p))
<1>1. Root \in Paths /\ Front(p) \in Paths
  BY FrontPath, DiskAssumption DEF Root
<1>2. Missing(d, p) = Internal => \E q \in Above(p) : IsFile(d, q)
  BY DEF Missing, Internal, NotFound
<1>3. ASSUME NEW q \in Above(p), IsFile(d, q) PROVE ~IsDir(d, Front(p))
  <2>1. q \in Paths /\ IsPrefix(q, p) /\ q # p
    BY DEF Above, IsStrictPrefix
  <2>2. IsPrefix(q, Front(p))
    BY <2>1, FrontPath
  <2>3. CASE q = Front(p)
    BY <1>3, <2>3 DEF IsFile
  <2>4. CASE q # Front(p)
    <3>1. ~Exists(d, Front(p))
      BY <1>1, <1>3, <2>1, <2>2, <2>4, NothingBelow DEF IsFile
    <3> QED BY <1>1, <3>1, DiskParts
  <2> QED BY <2>3, <2>4
<1>4. ~Exists(d, Root) => ~IsDir(d, Front(p))
  BY <1>1, EmptyMeans, PrefixOrder, DiskParts
<1>5. IsFile(d, p) => p # Root /\ IsDir(d, Front(p))
  <2> SUFFICES ASSUME IsFile(d, p) PROVE p # Root /\ IsDir(d, Front(p))
    OBVIOUS
  <2>1. p # Root
    OBVIOUS
  <2>2. Front(p) \in Above(p)
    BY <1>1, <2>1, FrontPath DEF Above, IsStrictPrefix
  <2> QED BY <2>1, <2>2 DEF IsFile, WellFormed
<1> QED BY <1>2, <1>3, <1>4, <1>5 DEF PutOn, CanCreate
(* Nobody in between, no fault. *)
Alone == touched = {} /\ ~faulted

(* The tree a call leaves that is permitted: the contract's, but a file    *)
(* copied onto itself has been emptied.                                    *)
SelfCopy(c) == c.op = "copy" /\ c.path = c.target
Left(v, c) == IF SelfCopy(c) THEN [v EXCEPT ![c.path] = File(0)] ELSE Effect(v, c)

(* What a call that is over has come to. *)
Outcome ==
  /\ OK <=> Permitted(View(before), call)
  /\ View(disk) = IF OK THEN Left(View(before), call) ELSE View(before)

(* What a call under way knows, by operation. *)
KnowsWrite ==
  call.op = "write" /\ pc \in {"stat source", "open target"} => call.size <= MaxWriteBytes

KnowsOpen ==
  pc \in {"write content", "copy content"} =>
    /\ Permitted(View(before), call)
    /\ IsFile(disk, ToCreate) /\ disk.tree[ToCreate] = seen.file /\ disk.size[seen.file] = 0
    /\ \A r \in Paths \ {ToCreate} : View(disk)[r] = View(before)[r]
    /\ call.op = "copy" => IsFile(disk, call.path) /\ disk.tree[call.path] = seen.input

KnowsCopy ==
  call.op = "copy" =>
    /\ pc \in {"stat target", "open source", "open target"} =>
         IsFile(disk, call.path) /\ Source.size <= MaxCopyBytes
    /\ pc = "open target" => disk.tree[call.path] = seen.input

KnowsRead == pc = "read file" => call.size # 0 /\ IsFile(disk, call.path) /\ Source.size <= call.size

KnowsRemove ==
  /\ pc = "remove" => Exists(disk, call.path) /\ Children(disk, call.path) = {}
  /\ pc = "read names" /\ call.op = "delete" => IsDir(disk, call.path)

(* The entries a walk has still to visit are there, below the path and     *)
(* none below another; those it has counted are below none of them.        *)
Orderly(s) ==
  \A i \in 1..Len(s) :
    /\ Exists(disk, s[i].path) /\ IsPrefix(call.path, s[i].path)
    /\ s[i].dir <=> IsDir(disk, s[i].path)
    /\ \A j \in 1..Len(s) : IsPrefix(s[i].path, s[j].path) => i = j
Passed(s) ==
  {p \in Inside(View(disk), call.path) : \A x \in Elements(s) : ~IsPrefix(x.path, p)}
KnowsWalk ==
  /\ pc = "walk" =>
       /\ Exists(disk, call.path) /\ Orderly(seen.todo)
       /\ seen.count <= Cardinality(Passed(seen.todo))
  /\ pc = "remove all" =>
       /\ Permitted(View(before), call) /\ Exists(disk, call.path)
       /\ \A r \in Paths : \/ View(disk)[r] = View(before)[r]
                           \/ IsPrefix(call.path, r) /\ View(disk)[r] = Nothing

(* The entries a listing has still to look at are there, each of them once *)
(* and not among those it has.                                             *)
Unlisted(s, names) ==
  \A i \in 1..Len(s) :
    /\ Exists(disk, s[i].path) /\ s[i].path \notin names
    /\ \A j \in 1..Len(s) : s[i].path = s[j].path => i = j
KnowsList ==
  pc = "list entry" => IsDir(disk, call.path) /\ Unlisted(seen.todo, seen.names)

(* The parents of a new directory that have still to be looked at or made, *)
(* from the highest to the lowest; those above all of them are there.      *)
Parents(s) ==
  \A i \in 1..Len(s) :
    s[i].path \in Above(call.path) /\ Len(s[i].path) = Len(call.path) - 1 - Len(s) + i
Ready(d, s) == \A q \in Above(call.path) : Len(q) < Len(call.path) - Len(s) => IsDir(d, q)
Making ==
  /\ call.path # Root /\ View(before)[Root] = Directory
  /\ \A q \in Above(call.path) : ~AsFile(View(before)[q])
  /\ \A r \in Paths : \/ View(disk)[r] = View(before)[r]
                      \/ r \in Above(call.path) /\ View(disk)[r] = Directory
KnowsMkdir ==
  pc \in {"stat parents", "make parent", "make leaf", "stat leaf"} =>
    /\ Making /\ Parents(seen.todo)
    /\ pc = "stat parents" => \A x \in Elements(seen.todo) : ~Exists(disk, x.path)
    /\ pc # "stat parents" => Ready(disk, seen.todo)
    /\ pc \in {"make leaf", "stat leaf"} => seen.todo = << >>
    /\ pc = "stat leaf" => Exists(disk, call.path)

KnowsMove ==
  call.op = "move" =>
    /\ pc = "stat source" => call.path # call.target
    /\ pc \in {"stat target", "compare", "same volume"} \cup Decided =>
         /\ Exists(disk, call.path) /\ call.path # call.target
         /\ seen.src = Source
    /\ pc \in {"compare", "same volume"} \cup Decided => seen.dst = Target
    /\ pc \in {"same volume"} \cup Decided => ~IsPrefix(call.path, call.target)
    /\ pc \in Decided => (Exists(disk, call.target) =>
         call.flag /\ IsFile(disk, call.path) /\ IsFile(disk, call.target))

Knows ==
  /\ KnowsWrite /\ KnowsOpen /\ KnowsCopy /\ KnowsRead /\ KnowsRemove /\ KnowsWalk
  /\ KnowsList /\ KnowsMkdir /\ KnowsMove

(* The same of a call that is over. *)
Goes == Knows /\ (pc = "idle" => Outcome)

(* The inductive invariant. *)
AtOnceInv ==
  /\ ~IsFile(disk, Root)
  /\ pc # "idle" \/ OK => calls > 0
  /\ faulted => pc = "idle" /\ ~OK
  /\ (Alone /\ calls > 0) => Goes

(* A repeated call starts from the tree that it has left itself. *)
AgainInv ==
  again => \E d \in Disks : /\ WellFormed(d) /\ Permitted(View(d), call)
                          /\ View(before) = Left(View(d), call)

(* A call that goes on alone, and how it stands with the disk. *)
Going == SafeInv /\ FreshInv /\ ListInv /\ WalkInv /\ AtOnceInv /\ Alone /\ Work

(* Where nothing has been changed yet. *)
Looking ==
  pc \notin {"idle", "write content", "copy content", "remove all",
             "make parent", "make leaf", "stat leaf"}

(* What every step can rely on. *)
LEMMA GoingFacts ==
  ASSUME Going
  PROVE /\ Flow /\ ControlInv /\ DiskInv /\ HistoryInv /\ ~IsFile(disk, Root) /\ Knows
        /\ disk \in Disks /\ WellFormed(disk) /\ before \in Disks /\ WellFormed(before)
        /\ call' = call /\ before' = before
        /\ call \in CallSet /\ call.path \in Paths /\ call.target \in Paths /\ ToCreate \in Paths
        /\ call.op \in Ops /\ Root \in Paths
        /\ Looking => View(before) = View(disk)
<1>1. Flow /\ ControlInv /\ DiskInv /\ HistoryInv /\ ~IsFile(disk, Root)
  BY WorkFlow DEF Going, SafeInv, AtOnceInv
<1>2. call' = call /\ before' = before
  BY <1>1, WorkEffect DEF Going, LeavesHistory
<1>3. /\ call \in CallSet /\ call.path \in Paths /\ call.target \in Paths /\ ToCreate \in Paths
      /\ call.op \in Ops /\ Root \in Paths
  BY <1>1, PathsOfCall, DiskAssumption DEF Root
<1>4. Knows
  <2>1. pc # "idle"
    BY <1>1 DEF Flow
  <2> QED BY <2>1 DEF Going, AtOnceInv, Goes
<1>5. disk \in Disks /\ WellFormed(disk) /\ before \in Disks /\ WellFormed(before)
  BY <1>1 DEF DiskInv, HistoryInv
<1>6. ASSUME Looking PROVE View(before) = View(disk)
  <2>1. ~changed
    BY <1>6 DEF Going, SafeInv, ChangedInv, Looking
  <2>2. \A p \in Paths : SameAt(before, disk, p)
    BY <2>1 DEF Going, Alone, SafeInv, UnchangedInv
  <2>3. \A p \in Paths : View(before)[p] = View(disk)[p]
    BY <1>5, <2>2, SameLooksSame
  <2> QED BY <1>5, <2>3, SameViews, ViewType
<1> QED BY <1>1, <1>2, <1>3, <1>4, <1>5, <1>6

(* What there is to know after a step. *)
LEMMA KnowsParts ==
  /\ pc' \in {"existing path", "create path", "lstat root of walk", "idle"} => Knows'
  /\ pc' = "read names" /\ KnowsRemove' => Knows'
  /\ pc' = "stat source" /\ KnowsWrite' /\ KnowsMove' => Knows'
  /\ pc' = "open target" /\ KnowsWrite' /\ KnowsCopy' => Knows'
  /\ pc' = "stat target" /\ KnowsCopy' /\ KnowsMove' => Knows'
  /\ pc' = "open source" /\ KnowsCopy' => Knows'
  /\ pc' \in {"write content", "copy content"} /\ KnowsOpen' => Knows'
  /\ pc' = "read file" /\ KnowsRead' => Knows'
  /\ pc' = "remove" /\ KnowsRemove' => Knows'
  /\ pc' \in {"walk", "remove all"} /\ KnowsWalk' => Knows'
  /\ pc' = "list entry" /\ KnowsList' => Knows'
  /\ pc' \in {"stat parents", "make parent", "make leaf", "stat leaf"} /\ KnowsMkdir' => Knows'
  /\ pc' \in {"compare", "same volume"} \cup Decided /\ KnowsMove' => Knows'
<1>1. pc' \notin {"stat source", "open target"} => KnowsWrite'
  BY DEF KnowsWrite
<1>2. pc' \notin {"write content", "copy content"} => KnowsOpen'
  BY DEF KnowsOpen
<1>3. pc' \notin {"stat target", "open source", "open target"} => KnowsCopy'
  BY DEF KnowsCopy
<1>4. pc' # "read file" => KnowsRead'
  BY DEF KnowsRead
<1>5. pc' \notin {"remove", "read names"} => KnowsRemove'
  BY DEF KnowsRemove
<1>6. pc' \notin {"walk", "remove all"} => KnowsWalk'
  BY DEF KnowsWalk
<1>7. pc' # "list entry" => KnowsList'
  BY DEF KnowsList
<1>8. pc' \notin {"stat parents", "make parent", "make leaf", "stat leaf"} => KnowsMkdir'
  BY DEF KnowsMkdir
<1>9. pc' \notin {"stat source", "stat target", "compare", "same volume"} \cup Decided => KnowsMove'
  BY DEF KnowsMove
<1> QED BY <1>1, <1>2, <1>3, <1>4, <1>5, <1>6, <1>7, <1>8, <1>9 DEF Knows, Decided

(* A call that goes on knows what it has to know. *)
LEMMA Onward == ASSUME Knows', pc' # "idle" PROVE Goes'
  BY DEF Goes

(* A call that is refused leaves the tree alone. *)
LEMMA Refused ==
  ASSUME Going, NEW code, code \notin {"ok", "existed"}, Fail(code), disk' = disk,
         View(before) = View(disk), ~Permitted(View(before), call)
  PROVE Goes'
<1>1. pc' = "idle" /\ result'.code = code /\ call' = call /\ before' = before
  BY GoingFacts DEF Fail, Return
<1>2. ~OK'
  BY <1>1 DEF OK
<1>3. Outcome'
  BY <1>1, <1>2 DEF Outcome
<1> QED BY <1>1, <1>3, KnowsParts DEF Goes

(* The refusals by what the path is. *)
LEMMA Codings ==
  /\ Internal \notin {"ok", "existed"}
  /\ \A p : Missing(disk, p) \notin {"ok", "existed"}
  BY DEF Missing, Internal, NotFound

(* A call that succeeds leaves the tree that the contract promises. *)
LEMMA Granted ==
  ASSUME Going, NEW code \in {"ok", "existed"}, NEW got, NEW names, Return(code, got, names),
         disk' \in Disks, Permitted(View(before), call),
         \A p \in Paths : View(disk')[p] = Left(View(before), call)[p]
  PROVE Goes'
<1>1. pc' = "idle" /\ result'.code = code /\ call' = call /\ before' = before /\ before \in Disks
  BY GoingFacts DEF Return
<1>2. OK'
  BY <1>1 DEF OK
<1>3. Left(View(before), call) = [p \in Paths |-> Left(View(before), call)[p]]
  <2>1. View(before) = [p \in Paths |-> View(before)[p]]
    BY <1>1, ViewType
  <2>2. CASE SelfCopy(call)
    <3>1. [View(before) EXCEPT ![call.path] = File(0)] =
            [p \in Paths |-> [View(before) EXCEPT ![call.path] = File(0)][p]]
      BY <2>1
    <3> QED BY <2>2, <3>1 DEF Left
  <2>3. CASE ~SelfCopy(call)
    BY <2>3 DEF Left, Effect
  <2> QED BY <2>2, <2>3
<1>4. View(disk') = Left(View(before), call)
  BY <1>3, SameViews
<1>5. Outcome'
  BY <1>1, <1>2, <1>4 DEF Outcome
<1> QED BY <1>1, <1>5, KnowsParts DEF Goes

(* The tree that is left, by operation. *)
LEMMA LeftMeans ==
  ASSUME NEW v, v = [p \in Paths |-> v[p]], NEW c \in CallSet, NEW p \in Paths
  PROVE /\ c.op \in {"read", "list", "stat"} => Left(v, c)[p] = v[p]
        /\ c.op = "write" => Left(v, c)[p] = IF p = c.path THEN File(c.size) ELSE v[p]
        /\ c.op = "mkdir" =>
             Left(v, c)[p] = IF p = c.path \/ p \in Above(c.path) THEN Directory ELSE v[p]
        /\ c.op = "delete" => Left(v, c)[p] = IF IsPrefix(c.path, p) THEN Nothing ELSE v[p]
        /\ c.op = "copy" =>
             Left(v, c)[p] = IF p # c.target THEN v[p]
                             ELSE IF c.path = c.target THEN File(0) ELSE v[c.path]
        /\ c.op = "move" =>
             Left(v, c)[p] = IF IsPrefix(c.target, p)
                             THEN (IF Moved(c.target, c.path, p) \in Paths
                                   THEN v[Moved(c.target, c.path, p)] ELSE Nothing)
                             ELSE IF IsPrefix(c.path, p) THEN Nothing ELSE v[p]
<1>1. c.path \in Paths /\ c.target \in Paths
  BY CallType
<1>2. c.op # "copy" => Left(v, c)[p] = Effect(v, c)[p]
  BY DEF Left, SelfCopy
<1>3. c.op \in {"read", "list", "stat"} => Left(v, c)[p] = v[p]
  BY <1>2 DEF Effect
<1>4. c.op = "write" => Left(v, c)[p] = IF p = c.path THEN File(c.size) ELSE v[p]
  BY <1>2 DEF Effect
<1>5. c.op = "mkdir" =>
        Left(v, c)[p] = IF p = c.path \/ p \in Above(c.path) THEN Directory ELSE v[p]
  <2>1. c.path \in Below(p) <=> p = c.path \/ p \in Above(c.path)
    BY <1>1, PrefixOrder DEF Below, Above, IsStrictPrefix
  <2> QED BY <1>2, <2>1 DEF Effect
<1>6. c.op = "delete" => Left(v, c)[p] = IF IsPrefix(c.path, p) THEN Nothing ELSE v[p]
  BY <1>2 DEF Effect, Below
<1>7. c.op = "copy" =>
        Left(v, c)[p] = IF p # c.target THEN v[p]
                        ELSE IF c.path = c.target THEN File(0) ELSE v[c.path]
  <2>1. c.op = "copy" /\ c.path = c.target => Left(v, c)[p] = IF p = c.path THEN File(0) ELSE v[p]
    BY <1>1 DEF Left, SelfCopy
  <2>2. c.op = "copy" /\ c.path # c.target => Left(v, c)[p] = IF p = c.target THEN v[c.path] ELSE v[p]
    BY DEF Left, SelfCopy, Effect
  <2> QED BY <2>1, <2>2
<1>8. c.op = "move" =>
        Left(v, c)[p] = IF IsPrefix(c.target, p)
                        THEN (IF Moved(c.target, c.path, p) \in Paths
                              THEN v[Moved(c.target, c.path, p)] ELSE Nothing)
                        ELSE IF IsPrefix(c.path, p) THEN Nothing ELSE v[p]
  BY <1>2 DEF Effect, Below, Origin, Moved
<1> QED BY <1>3, <1>4, <1>5, <1>6, <1>7, <1>8

(* Step by step: the path guard.                                           *)
LEMMA GoesByResolveExisting == ASSUME Going, ResolveExisting PROVE Goes'
<1>0. /\ disk' = disk /\ call.op \in Ops /\ call.path \in Paths /\ call.target \in Paths
      /\ pc = "existing path" /\ ControlInv /\ call \in CallSet /\ disk \in Disks
  BY GoingFacts DEF ResolveExisting, Looks
<1>1. View(before) = View(disk)
  BY <1>0, GoingFacts DEF Looking
<1>2. CASE Exists(disk, call.path)
  <2>1. pc' = AfterResolve(call)
    BY <1>2 DEF ResolveExisting, Goto
  <2>2. pc' \in {"create path", "read names"} \/ (pc' = "stat source" /\ call.op \notin {"write", "move"})
    BY <1>0, <2>1 DEF AfterResolve, ControlInv, Fits
  <2>3. call' = call
    BY GoingFacts
  <2>4. pc' = "stat source" => KnowsWrite' /\ KnowsMove'
    BY <2>2, <2>3 DEF KnowsWrite, KnowsMove
  <2>5. pc' = "read names" => KnowsRemove'
    <3>1. pc' = "read names" => call.op # "delete"
      BY <2>1 DEF AfterResolve
    <3> QED BY <2>3, <3>1 DEF KnowsRemove
  <2> QED BY <2>2, <2>4, <2>5, KnowsParts, Onward
<1>3. CASE ~Exists(disk, call.path)
  <2>1. Fail(Missing(disk, call.path))
    BY <1>3 DEF ResolveExisting
  <2>2. ~Permitted(View(disk), call)
    <3>1. call.op \in {"delete", "copy", "move", "read", "list", "stat"}
      BY <1>0 DEF ControlInv, Fits, Ops
    <3>2. ~IsFile(disk, call.path) /\ ~IsDir(disk, call.path)
      BY <1>0, <1>3, DiskParts DEF IsFile
    <3> QED BY <1>0, <1>3, <3>1, <3>2, PermittedMeans
  <2> QED BY <1>0, <1>1, <2>1, <2>2, Codings, Refused
<1> QED BY <1>2, <1>3

(* Nothing is permitted where the new path cannot be made. *)
LEMMA NoWay ==
  ASSUME Going, Looking, call.op \in {"write", "mkdir", "copy", "move"},
         Missing(disk, ToCreate) = Internal \/ ~Exists(disk, Root)
  PROVE ~Permitted(View(disk), call)
<1>0. /\ disk \in Disks /\ WellFormed(disk) /\ call \in CallSet /\ ToCreate \in Paths
      /\ ~IsFile(disk, Root) /\ Root \in Paths
  BY GoingFacts
<1>1. \A force : ~PutOn(disk, ToCreate, force)
  BY <1>0, PutMeans
<1>2. CASE call.op = "mkdir"
  <2>1. ToCreate = call.path
    BY <1>2 DEF ToCreate
  <2>2. ~IsDir(disk, Root) \/ \E q \in Above(call.path) : IsFile(disk, q)
    BY <1>0, <2>1, DiskParts DEF Missing, Internal, NotFound
  <2> QED BY <1>0, <1>2, <2>2, PermittedMeans
<1>3. CASE call.op = "write"
  BY <1>0, <1>1, <1>3, PermittedMeans DEF ToCreate
<1>4. CASE call.op = "copy"
  BY <1>0, <1>1, <1>4, PermittedMeans DEF ToCreate
<1>5. CASE call.op = "move"
  BY <1>0, <1>1, <1>5, PermittedMeans DEF ToCreate
<1> QED BY <1>2, <1>3, <1>4, <1>5

(* Where a new path may be made. *)
LEMMA GoesByResolveForCreate == ASSUME Going, ResolveForCreate PROVE Goes'
<1>0. /\ disk' = disk /\ call.op \in {"write", "mkdir", "copy", "move"}
      /\ call.path \in Paths /\ call.target \in Paths /\ call' = call /\ before' = before
      /\ pc = "create path" /\ ControlInv /\ call \in CallSet /\ disk \in Disks /\ WellFormed(disk)
      /\ ~IsFile(disk, Root) /\ Root \in Paths /\ call.size \in Nat /\ seen = Unseen
  <2>1. disk' = disk /\ pc = "create path"
    BY DEF ResolveForCreate, Looks
  <2>2. call.op \in {"write", "mkdir", "copy", "move"} /\ seen = Unseen
    BY <2>1, GoingFacts DEF ControlInv, Fits, Going, FreshInv
  <2> QED BY <2>1, <2>2, GoingFacts, PathsOfCall
<1>1. View(before) = View(disk) /\ Looking
  BY <1>0, GoingFacts DEF Looking
<1>2. CASE Fail(Internal) /\ Missing(disk, ToCreate) = Internal
  BY <1>0, <1>1, <1>2, NoWay, Codings, Refused
<1>3. CASE Fail("invalid_path") /\ ~Exists(disk, Root)
  BY <1>0, <1>1, <1>3, NoWay, Refused
<1>4. CASE AfterResolveForCreate /\ Exists(disk, Root) /\ Missing(disk, ToCreate) # Internal
  <2>0. IsDir(disk, Root)
    BY <1>0, <1>4 DEF IsFile
  <2>1. CASE call.op = "write"
    <3>1. CASE call.size > MaxWriteBytes /\ Fail("limit_exceeded")
      <4>0. call.size > MaxWriteBytes /\ call.size \in Nat /\ MaxWriteBytes \in Nat
        BY <1>0, <3>1, LimitsAssumption
      <4>1. ~(call.size <= MaxWriteBytes)
        BY <4>0
      <4>2. ~Permitted(View(disk), call)
        BY <1>0, <2>1, <4>1, PermittedMeans
      <4> QED BY <1>0, <1>1, <3>1, <4>2, Refused
    <3>2. CASE call.size <= MaxWriteBytes /\ Goto("stat source", seen)
      <4>1. pc' = "stat source" /\ KnowsWrite' /\ KnowsMove'
        BY <1>0, <2>1, <3>2 DEF Goto, KnowsWrite, KnowsMove
      <4> QED BY <4>1, KnowsParts, Onward
    <3> QED BY <1>4, <2>1, <3>1, <3>2 DEF AfterResolveForCreate
  <2>2. CASE call.op = "mkdir" /\ call.path = Root
    <3>1. Return("existed", 0, {})
      BY <1>4, <2>2 DEF AfterResolveForCreate, Fail
    <3>2. Above(call.path) = {}
      BY <1>0, <2>2, PrefixOrder DEF Above, IsStrictPrefix
    <3>3. Permitted(View(before), call)
      BY <1>0, <1>1, <2>0, <2>2, <3>2, PermittedMeans
    <3>4. ASSUME NEW p \in Paths PROVE View(disk')[p] = Left(View(before), call)[p]
      <4>1. View(before) = [r \in Paths |-> View(before)[r]] /\ View(disk)[Root] = Directory
        BY <1>0, <1>1, <2>0, ViewMeans, ViewType
      <4>2. Left(View(before), call)[p] =
              IF p = call.path \/ p \in Above(call.path) THEN Directory ELSE View(before)[p]
        BY <1>0, <2>2, <4>1, LeftMeans, ZenonT(60)
      <4> QED BY <1>0, <1>1, <2>2, <3>2, <4>1, <4>2
    <3> QED BY <1>0, <3>1, <3>3, <3>4, Granted
  <2>3. CASE call.op = "mkdir" /\ call.path # Root
    <3>1. Goto("stat parents", seen)
      BY <1>4, <2>3 DEF AfterResolveForCreate
    <3>2. pc' = "stat parents" /\ seen' = seen /\ seen.todo = << >>
      BY <1>0, <3>1 DEF Goto, Unseen
    <3>3. \A q \in Above(call.path) : ~IsFile(disk, q)
      <4>1. ToCreate = call.path
        BY <2>3 DEF ToCreate
      <4> QED BY <1>4, <4>1 DEF Missing
    <3>4. \A q \in Above(call.path) : ~AsFile(View(before)[q])
      BY <1>0, <1>1, <3>3, ViewMeans DEF Above
    <3>5. View(before)[Root] = Directory
      BY <1>0, <1>1, <2>0, ViewMeans
    <3>6. Parents(<< >>)' /\ Elements(<< >>) = {}
      <4>1. Len(<< >>) = 0 /\ 1..0 = {}
        OBVIOUS
      <4> QED BY <4>1, ElementsOfNone DEF Parents
    <3>7. Making'
      BY <1>0, <1>1, <2>3, <3>4, <3>5 DEF Making
    <3>8. KnowsMkdir'
      <4>1. Parents(seen.todo)'
        BY <3>2, <3>6 DEF Parents
      <4> QED BY <3>2, <3>6, <3>7, <4>1 DEF KnowsMkdir
    <3> QED BY <3>2, <3>8, KnowsParts, Onward
  <2>4. CASE call.op = "copy"
    <3>1. pc' = "stat source" /\ KnowsWrite' /\ KnowsMove'
      BY <1>0, <1>4, <2>4 DEF AfterResolveForCreate, Goto, KnowsWrite, KnowsMove
    <3> QED BY <3>1, KnowsParts, Onward
  <2>5. CASE call.op = "move" /\ call.path = call.target
    <3>1. Fail("invalid_path")
      BY <1>4, <2>5 DEF AfterResolveForCreate
    <3>2. IsPrefix(call.path, call.target)
      BY <1>0, <2>5, PrefixOrder
    <3>3. ~Permitted(View(disk), call)
      BY <1>0, <2>5, <3>2, PermittedMeans
    <3> QED BY <1>0, <1>1, <3>1, <3>3, Refused
  <2>6. CASE call.op = "move" /\ call.path # call.target
    <3>0. pc' = "stat source"
      BY <1>4, <2>6 DEF AfterResolveForCreate, Goto
    <3>1. KnowsWrite' /\ KnowsMove'
      BY <1>0, <2>6, <3>0 DEF KnowsWrite, KnowsMove, Decided
    <3> QED BY <3>0, <3>1, KnowsParts, Onward
  <2> QED BY <1>0, <2>1, <2>2, <2>3, <2>4, <2>5, <2>6
<1> QED
  <2>1. Exists(disk, ToCreate) => Missing(disk, ToCreate) # Internal /\ Exists(disk, Root)
    <3>1. ToCreate \in Paths
      BY GoingFacts
    <3>2. Exists(disk, ToCreate) => \A q \in Above(ToCreate) : IsDir(disk, q)
      BY <1>0, <3>1 DEF WellFormed
    <3>3. Exists(disk, ToCreate) => Exists(disk, Root)
      BY <1>0, <3>1, EmptyMeans, PrefixOrder
    <3>4. Exists(disk, ToCreate) => Missing(disk, ToCreate) # Internal
      BY <3>2 DEF Missing, IsFile, Internal, NotFound
    <3> QED BY <3>3, <3>4
  <2> QED BY <1>2, <1>3, <1>4, <2>1 DEF ResolveForCreate

(* The first look at the path. *)
LEMMA GoesByStatSource == ASSUME Going, StatSource PROVE Goes'
<1>0. /\ disk' = disk /\ call.op \in Ops /\ call' = call /\ before' = before
      /\ call.path \in Paths /\ call.target \in Paths /\ pc = "stat source"
      /\ ControlInv /\ call \in CallSet /\ disk \in Disks /\ WellFormed(disk)
      /\ ~IsFile(disk, Root) /\ seen = Unseen /\ call.size \in Nat /\ Knows
  <2>1. disk' = disk /\ pc = "stat source"
    BY DEF StatSource, LooksAnew
  <2>2. seen = Unseen
    BY <2>1 DEF Going, FreshInv
  <2> QED BY <2>1, <2>2, GoingFacts, PathsOfCall
<1>1. View(before) = View(disk)
  BY <1>0, GoingFacts DEF Looking
<1>2. /\ Source.dir <=> IsDir(disk, call.path)
      /\ Exists(disk, call.path) => (IsFile(disk, call.path) <=> ~Source.dir)
      /\ IsDir(disk, call.path) => Exists(disk, call.path)
      /\ Source = Stat(disk, call.path) /\ Source \in Stats /\ Source.size \in Nat
      /\ Source' = Source
  BY <1>0, StatType, SourceNat, DiskParts, GoingFacts DEF Source, IsFile
<1>3. call.op \notin {"mkdir", "list"}
  BY <1>0 DEF ControlInv, Fits
<1>4. seen \in SeenType /\ SawSource = [seen EXCEPT !.src = Source]
  BY <1>0, UnseenType DEF SawSource
<1>5. CASE WriteAfterStat
  <2>1. call.op = "write" /\ ToCreate = call.path
    BY <1>5 DEF WriteAfterStat, ToCreate
  <2>2. Permitted(View(disk), call) <=>
          call.size <= MaxWriteBytes /\ PutOn(disk, call.path, call.flag)
    BY <1>0, <2>1, PermittedMeans
  <2>3. CASE Source.dir
    <3>1. Fail("unsupported_path_type") /\ ~PutOn(disk, call.path, call.flag)
      BY <1>2, <1>5, <2>3 DEF WriteAfterStat, PutOn, IsFile
    <3> QED BY <1>0, <1>1, <2>2, <3>1, Refused
  <2>4. CASE ~Source.dir /\ Exists(disk, call.path) /\ ~call.flag
    <3>1. Fail("already_exists") /\ ~PutOn(disk, call.path, call.flag)
      BY <1>5, <2>4 DEF WriteAfterStat, PutOn
    <3> QED BY <1>0, <1>1, <2>2, <3>1, Refused
  <2>5. CASE ~Source.dir /\ ~Exists(disk, call.path) /\ Missing(disk, call.path) = Internal
    <3>1. Fail(Internal) /\ ~PutOn(disk, call.path, call.flag)
      BY <1>0, <1>5, <2>5, PutMeans DEF WriteAfterStat
    <3> QED BY <1>0, <1>1, <2>2, <3>1, Codings, Refused
  <2>6. CASE Goto("open target", SawSource)
    <3>1. pc' = "open target"
      BY <2>6 DEF Goto
    <3>2. KnowsWrite' /\ KnowsCopy'
      BY <1>0, <2>1, <3>1 DEF Knows, KnowsWrite, KnowsCopy
    <3> QED BY <3>1, <3>2, KnowsParts, Onward
  <2> QED BY <1>5, <2>3, <2>4, <2>5, <2>6 DEF WriteAfterStat
<1>6. CASE NeedsSource
  <2>1. ~Exists(disk, call.path) /\ Fail(Missing(disk, call.path))
        /\ call.op \in {"delete", "copy", "move", "read", "stat"}
    BY <1>0, <1>3, <1>6 DEF NeedsSource, Ops
  <2>2. ~Permitted(View(disk), call)
    BY <1>0, <2>1, PermittedMeans DEF IsFile
  <2> QED BY <1>0, <1>1, <2>1, <2>2, Codings, Refused
<1>7. CASE DeleteAfterStat
  <2>1. call.op = "delete" /\ Exists(disk, call.path)
    BY <1>7 DEF DeleteAfterStat
  <2>2. CASE ~Source.dir
    <3>1. pc' = "remove"
      BY <1>7, <2>2 DEF DeleteAfterStat, Goto
    <3>2. IsFile(disk, call.path)
      BY <1>2, <2>1, <2>2
    <3>3. Children(disk, call.path) = {}
      <4>1. \A r \in Paths : IsPrefix(call.path, r) /\ r # call.path => ~Exists(disk, r)
        BY <1>0, <3>2, EmptyMeans
      <4>2. ASSUME NEW r \in Paths, Len(r) = Len(call.path) + 1 PROVE r # call.path
        <5>1. Len(call.path) \in Nat
          BY <1>0, PathType
        <5> QED BY <4>2, <5>1
      <4> QED BY <4>1, <4>2 DEF Children, Below
    <3>4. KnowsRemove'
      BY <1>0, <2>1, <3>1, <3>3 DEF KnowsRemove
    <3> QED BY <3>1, <3>4, KnowsParts, Onward
  <2>3. CASE Source.dir
    <3>1. pc' \in {"lstat root of walk", "read names"}
      BY <1>7, <2>3 DEF DeleteAfterStat, Goto
    <3>2. IsDir(disk, call.path)
      BY <1>2, <2>3
    <3>3. KnowsRemove'
      BY <1>0, <3>1, <3>2 DEF KnowsRemove
    <3> QED BY <3>1, <3>3, KnowsParts, Onward
  <2> QED BY <2>2, <2>3
<1>8. CASE CopyAfterStat
  <2>1. call.op = "copy" /\ Exists(disk, call.path)
    BY <1>8 DEF CopyAfterStat
  <2>2. Permitted(View(disk), call) =>
          IsFile(disk, call.path) /\ Source.size <= MaxCopyBytes
    BY <1>0, <1>2, <2>1, PermittedMeans
  <2>3. CASE Source.dir
    <3>1. Fail("unsupported_path_type") /\ ~IsFile(disk, call.path)
      BY <1>2, <1>8, <2>3 DEF CopyAfterStat, IsFile
    <3> QED BY <1>0, <1>1, <2>2, <3>1, Refused
  <2>4. CASE ~Source.dir /\ Source.size > MaxCopyBytes
    <3>1. Fail("limit_exceeded")
      BY <1>8, <2>4 DEF CopyAfterStat
    <3>2. ~(Source.size <= MaxCopyBytes)
      BY <1>2, <2>4, LimitsAssumption
    <3> QED BY <1>0, <1>1, <2>2, <3>1, <3>2, Refused
  <2>5. CASE ~Source.dir /\ ~(Source.size > MaxCopyBytes)
    <3>1. pc' = "stat target"
      BY <1>8, <2>5 DEF CopyAfterStat, Goto
    <3>2. IsFile(disk, call.path) /\ Source.size <= MaxCopyBytes
      BY <1>2, <2>1, <2>5, NotOver, LimitsAssumption
    <3>3. KnowsCopy'
      BY <1>0, <1>2, <3>1, <3>2 DEF KnowsCopy
    <3>4. KnowsMove'
      BY <1>0, <2>1 DEF KnowsMove
    <3> QED BY <3>1, <3>3, <3>4, KnowsParts, Onward
  <2> QED BY <2>3, <2>4, <2>5
<1>9. CASE MoveAfterStat
  <2>1. call.op = "move" /\ Exists(disk, call.path) /\ pc' = "stat target" /\ seen' = SawSource
    BY <1>9 DEF MoveAfterStat, Goto
  <2>2. call.path # call.target
    BY <1>0, <2>1 DEF Knows, KnowsMove
  <2>3. seen'.src = Source'
    BY <1>2, <1>4, <2>1 DEF SeenType
  <2>4. KnowsMove'
    BY <1>0, <2>1, <2>2, <2>3 DEF KnowsMove, Decided
  <2>5. KnowsCopy'
    BY <1>0, <2>1 DEF KnowsCopy
  <2> QED BY <2>1, <2>4, <2>5, KnowsParts, Onward
<1>10. CASE ReadAfterStat
  <2>1. call.op = "read" /\ Exists(disk, call.path)
    BY <1>10 DEF ReadAfterStat
  <2>2. Permitted(View(disk), call) <=> call.size # 0 /\ IsFile(disk, call.path) /\ Source.size <= call.size
    BY <1>0, <1>2, <2>1, PermittedMeans
  <2>3. CASE Source.dir
    <3>1. Fail("unsupported_path_type") /\ ~IsFile(disk, call.path)
      BY <1>2, <1>10, <2>3 DEF ReadAfterStat, IsFile
    <3> QED BY <1>0, <1>1, <2>2, <3>1, Refused
  <2>4. CASE ~Source.dir /\ (call.size = 0 \/ Source.size > call.size)
    <3>1. Fail("limit_exceeded")
      BY <1>10, <2>4 DEF ReadAfterStat
    <3>2. call.size = 0 \/ ~(Source.size <= call.size)
      <4>1. call.size = 0 \/ Source.size > call.size
        BY <2>4
      <4>2. Source.size \in Nat /\ call.size \in Nat
        BY <1>0, <1>2
      <4> QED BY <4>1, <4>2
    <3> QED BY <1>0, <1>1, <2>2, <3>1, <3>2, Refused
  <2>5. CASE ~Source.dir /\ call.size # 0 /\ ~(Source.size > call.size)
    <3>1. pc' = "read file"
      BY <1>10, <2>5 DEF ReadAfterStat, Goto
    <3>2. call.size # 0 /\ IsFile(disk, call.path) /\ Source.size <= call.size
      BY <1>0, <1>2, <2>1, <2>5, NotOver
    <3>3. KnowsRead'
      BY <1>0, <1>2, <3>2 DEF KnowsRead
    <3> QED BY <3>1, <3>3, KnowsParts, Onward
  <2> QED BY <2>3, <2>4, <2>5
<1>11. CASE StatOnly
  <2>1. call.op = "stat" /\ Exists(disk, call.path) /\ Return("ok", Source.size, {})
    BY <1>11 DEF StatOnly
  <2>2. Permitted(View(before), call)
    BY <1>0, <1>1, <2>1, PermittedMeans
  <2>3. \A p \in Paths : View(disk')[p] = Left(View(before), call)[p]
    <3>1. View(before) = [r \in Paths |-> View(before)[r]] /\ call.op = "stat"
      BY <1>0, <1>1, <2>1, ViewType
    <3>2. \A p \in Paths : Left(View(before), call)[p] = View(before)[p]
      BY <1>0, <3>1, LeftMeans
    <3> QED BY <1>0, <1>1, <3>2
  <2> QED BY <1>0, <2>1, <2>2, <2>3, Granted
<1> QED BY <1>5, <1>6, <1>7, <1>8, <1>9, <1>10, <1>11 DEF StatSource

(* The look at the target of a copy. *)
LEMMA GoesByCopyStatTarget == ASSUME Going, CopyStatTarget PROVE Goes'
<1>0. /\ disk' = disk /\ call' = call /\ before' = before
      /\ call.path \in Paths /\ call.target \in Paths /\ pc = "stat target" /\ call.op = "copy"
      /\ call \in CallSet /\ disk \in Disks /\ WellFormed(disk)
      /\ ~IsFile(disk, Root) /\ Knows /\ ToCreate = call.target
  BY GoingFacts DEF CopyStatTarget, Looks, ToCreate
<1>1. View(before) = View(disk)
  BY <1>0, GoingFacts DEF Looking
<1>2. Permitted(View(disk), call) => PutOn(disk, call.target, call.flag)
  BY <1>0, PermittedMeans
<1>3. Target.dir <=> IsDir(disk, call.target)
  BY <1>0, StatType DEF Target
<1>4. CASE Fail("already_exists") /\ Exists(disk, call.target) /\ ~call.flag
  <2>1. ~Permitted(View(disk), call)
    BY <1>2, <1>4 DEF PutOn
  <2> QED BY <1>0, <1>1, <1>4, <2>1, Refused
<1>5. CASE Fail("unsupported_path_type") /\ Target.dir
  <2>1. ~Permitted(View(disk), call)
    BY <1>0, <1>2, <1>3, <1>5, DiskParts DEF PutOn, IsFile
  <2> QED BY <1>0, <1>1, <1>5, <2>1, Refused
<1>6. CASE Fail(Internal) /\ Missing(disk, call.target) = Internal
  <2>1. ~Permitted(View(disk), call)
    BY <1>0, <1>2, <1>6, PutMeans
  <2> QED BY <1>0, <1>1, <1>6, <2>1, Codings, Refused
<1>7. CASE Goto("open source", seen)
  <2>1. pc' = "open source"
    BY <1>7 DEF Goto
  <2>2. IsFile(disk, call.path) /\ Source.size <= MaxCopyBytes /\ Source' = Source
    BY <1>0 DEF Knows, KnowsCopy, Source
  <2>3. KnowsCopy'
    BY <1>0, <2>1, <2>2 DEF KnowsCopy
  <2> QED BY <2>1, <2>3, KnowsParts, Onward
<1> QED BY <1>4, <1>5, <1>6, <1>7 DEF CopyStatTarget

(* The source of a copy is opened. *)
LEMMA GoesByOpenSource == ASSUME Going, OpenSource PROVE Goes'
<1>0. /\ disk' = disk /\ call' = call /\ pc = "open source" /\ Knows
      /\ ControlInv /\ disk \in Disks /\ call.path \in Paths
  BY GoingFacts DEF OpenSource, Looks
<1>1. call.op = "copy" /\ seen \in SeenType
  BY <1>0 DEF ControlInv, Fits
<1>2. IsFile(disk, call.path) /\ Source.size <= MaxCopyBytes /\ Source' = Source
  BY <1>0, <1>1 DEF Knows, KnowsCopy, Source
<1>3. pc' = "open target" /\ seen' = [seen EXCEPT !.input = Source.ino]
  BY <1>2 DEF OpenSource, Goto, IsFile
<1>4. seen'.input = disk.tree[call.path]
  BY <1>0, <1>1, <1>3, StatType DEF SeenType, Source
<1>5. KnowsCopy'
  BY <1>0, <1>2, <1>3, <1>4 DEF KnowsCopy
<1>6. KnowsWrite'
  BY <1>0, <1>1 DEF KnowsWrite
<1> QED BY <1>3, <1>5, <1>6, KnowsParts, Onward

(* What a call that may be permitted still has to find out when it opens   *)
(* its target.                                                             *)
LEMMA OpenPermitted ==
  ASSUME Going, pc = "open target"
  PROVE /\ call.op \in {"write", "copy"}
        /\ Permitted(View(disk), call) <=> PutOn(disk, ToCreate, call.flag)
<1>0. /\ call \in CallSet /\ disk \in Disks /\ Knows /\ ControlInv
  BY GoingFacts
<1>1. call.op \in {"write", "copy"}
  BY <1>0 DEF ControlInv, Fits
<1>2. CASE call.op = "write"
  <2>1. call.size <= MaxWriteBytes /\ ToCreate = call.path
    BY <1>0, <1>2 DEF Knows, KnowsWrite, ToCreate
  <2> QED BY <1>0, <1>1, <1>2, <2>1, PermittedMeans
<1>3. CASE call.op = "copy"
  <2>1. IsFile(disk, call.path) /\ Source.size <= MaxCopyBytes /\ ToCreate = call.target
        /\ Source = Stat(disk, call.path)
    BY <1>0, <1>3 DEF Knows, KnowsCopy, ToCreate, Source
  <2> QED BY <1>0, <1>1, <1>3, <2>1, PermittedMeans
<1> QED BY <1>1, <1>2, <1>3

(* An open target is an empty file, and nothing else has changed.          *)
LEMMA OpenedKnows ==
  ASSUME Going, pc = "open target", NEW i \in Inodes, Goto(AfterOpen, IsOpened(i)),
         PutOn(disk, ToCreate, call.flag),
         disk' \in Disks, IsFile(disk', ToCreate), disk'.tree[ToCreate] = i, disk'.size[i] = 0,
         \A r \in Paths \ {ToCreate} : SameAt(disk, disk', r),
         IsFile(disk, ToCreate) => disk.tree[ToCreate] = i
  PROVE Goes'
<1>0. /\ call' = call /\ before' = before /\ call \in CallSet /\ disk \in Disks /\ Knows
      /\ ControlInv /\ call.path \in Paths /\ ToCreate \in Paths /\ View(before) = View(disk)
      /\ call.op \in {"write", "copy"}
  BY GoingFacts, OpenPermitted DEF Looking
<1>1. ToCreate' = ToCreate
  BY <1>0 DEF ToCreate
<1>2. /\ pc' \in {"write content", "copy content"} /\ seen'.file = i /\ seen'.input = seen.input
  <2>1. seen \in SeenType /\ seen' = [seen EXCEPT !.file = i] /\ pc' = AfterOpen
    BY <1>0 DEF Goto, IsOpened, ControlInv
  <2> QED BY <2>1 DEF AfterOpen, SeenType
<1>3. ASSUME NEW r \in Paths \ {ToCreate} PROVE View(disk')[r] = View(before)[r]
  <2>1. View(disk')[r] = View(disk)[r]
    BY <1>0, SameLooksSame
  <2> QED BY <1>0, <2>1
<1>4. call.op = "copy" => IsFile(disk', call.path) /\ disk'.tree[call.path] = seen.input
  <2> SUFFICES ASSUME call.op = "copy"
               PROVE IsFile(disk', call.path) /\ disk'.tree[call.path] = seen.input
    OBVIOUS
  <2>1. IsFile(disk, call.path) /\ disk.tree[call.path] = seen.input
    BY <1>0 DEF Knows, KnowsCopy
  <2>2. CASE call.path # ToCreate
    <3>1. SameAt(disk, disk', call.path)
      BY <1>0, <2>2
    <3> QED BY <2>1, <3>1 DEF SameAt, IsFile, Exists
  <2>3. CASE call.path = ToCreate
    BY <2>1, <2>3
  <2> QED BY <2>2, <2>3
<1>5. Permitted(View(before), call)
  BY <1>0, OpenPermitted
<1>6. KnowsOpen'
  BY <1>0, <1>1, <1>2, <1>3, <1>4, <1>5 DEF KnowsOpen
<1> QED BY <1>2, <1>6, KnowsParts, Onward

(* A target is made or emptied. *)
LEMMA GoesByOpenTarget == ASSUME Going, OpenTarget PROVE Goes'
<1>0. /\ call' = call /\ before' = before /\ pc = "open target" /\ disk \in Disks
      /\ WellFormed(disk) /\ ~IsFile(disk, Root) /\ ToCreate \in Paths /\ ControlInv
  BY GoingFacts DEF OpenTarget
<1>1. View(before) = View(disk) /\ call.op \in {"write", "copy"}
      /\ (Permitted(View(disk), call) <=> PutOn(disk, ToCreate, call.flag))
  BY <1>0, GoingFacts, OpenPermitted DEF Looking
<1>2. CASE CreateTarget
  <2> DEFINE i == FreeInode(disk, Open)
  <2>1. CanCreate(disk, ToCreate) /\ disk' = Create(disk, ToCreate, i, FALSE)
        /\ Goto(AfterOpen, IsOpened(i))
    BY <1>2 DEF CreateTarget, Sets
  <2>2. ~Exists(disk, ToCreate)
    BY <2>1 DEF CanCreate
  <2>3. i \in Inodes /\ \A r \in Paths : disk.tree[r] # i
    BY <1>0, <2>2, FreeInodeFound DEF Open
  <2> HIDE DEF i
  <2>4. /\ disk' \in Disks /\ disk'.tree[ToCreate] = i /\ ~IsDir(disk', ToCreate)
        /\ disk'.size[i] = 0 /\ \A r \in Paths \ {ToCreate} : SameAt(disk, disk', r)
    BY <1>0, <2>1, <2>3, CreateKeeps, ZenonT(60)
  <2>5. IsFile(disk', ToCreate)
    BY <2>3, <2>4, InodeFacts DEF IsFile, Exists
  <2>6. PutOn(disk, ToCreate, call.flag) /\ ~IsFile(disk, ToCreate)
    BY <1>0, <2>1, <2>2, PutMeans DEF IsFile
  <2> QED BY <1>0, <2>1, <2>3, <2>4, <2>5, <2>6, OpenedKnows
<1>3. CASE OpenExisting
  <2>1. CASE ~call.flag /\ Exists(disk, ToCreate) /\ Fail("already_exists") /\ Looks
    <3>1. ~Permitted(View(disk), call) /\ disk' = disk
      BY <1>1, <2>1 DEF PutOn, Looks
    <3> QED BY <1>1, <2>1, <3>1, Refused
  <2>2. CASE call.flag /\ IsDir(disk, ToCreate) /\ Fail(Internal) /\ Looks
    <3>1. ~Permitted(View(disk), call) /\ disk' = disk
      BY <1>0, <1>1, <2>2, DiskParts DEF PutOn, Looks, IsFile
    <3> QED BY <1>1, <2>2, <3>1, Codings, Refused
  <2>3. CASE /\ call.flag /\ IsFile(disk, ToCreate)
             /\ Sets(Store(disk, Target.ino, 0)) /\ Goto(AfterOpen, IsOpened(Target.ino))
    <3>1. Target.ino = disk.tree[ToCreate] /\ Target.ino \in Inodes /\ 0 \in Sizes
      <4>1. Target.ino = disk.tree[ToCreate] /\ Target.ino \in Inodes \cup {0}
        BY <1>0, StatType DEF Target
      <4> QED BY <2>3, <4>1, UnseenType DEF IsFile, Exists
    <3>2. disk' = Store(disk, Target.ino, 0)
      BY <2>3 DEF Sets
    <3>3. /\ disk' \in Disks /\ disk'.tree = disk.tree /\ disk'.dirs = disk.dirs
          /\ disk'.size[Target.ino] = 0
          /\ \A r \in Paths : disk.tree[r] # Target.ino => SameAt(disk, disk', r)
      BY <1>0, <3>1, <3>2, StoreKeeps
    <3>4. IsFile(disk', ToCreate)
      BY <2>3, <3>3 DEF IsFile, Exists, IsDir
    <3>5. ASSUME NEW r \in Paths \ {ToCreate} PROVE SameAt(disk, disk', r)
      <4>1. disk.tree[r] # Target.ino
        BY <1>0, <2>3, <3>1, OneLink DEF IsFile
      <4> QED BY <3>3, <4>1
    <3>6. PutOn(disk, ToCreate, call.flag)
      BY <1>0, <2>3, PutMeans DEF PutOn
    <3> QED BY <1>0, <2>3, <3>1, <3>3, <3>4, <3>5, <3>6, OpenedKnows
  <2> QED BY <1>3, <2>1, <2>2, <2>3 DEF OpenExisting
<1>4. CASE ~Exists(disk, ToCreate) /\ ~CanCreate(disk, ToCreate) /\ Fail(Missing(disk, ToCreate)) /\ Looks
  <2>1. ~Permitted(View(disk), call) /\ disk' = disk
    BY <1>0, <1>1, <1>4, PutMeans DEF Looks
  <2> QED BY <1>1, <1>4, <2>1, Codings, Refused
<1> QED BY <1>2, <1>3, <1>4 DEF OpenTarget

(* How long a file is that was empty before it was written. *)
LEMMA WrittenFromStart == ASSUME NEW n \in Sizes PROVE Min({MaxSize, Max({0, n})}) = n
<1> DEFINE top == Max({0, n})
           low == Min({MaxSize, n})
<1>1. n \in Nat /\ n <= MaxSize /\ MaxSize \in Nat
  BY DiskAssumption DEF Sizes
<1>2. top \in {0, n} /\ \A y \in {0, n} : top >= y
  <2>1. n \in {0, n} /\ \A y \in {0, n} : n >= y
    BY <1>1
  <2>2. \E x \in {0, n} : \A y \in {0, n} : x >= y
    BY <2>1
  <2> QED BY <2>2 DEF Max
<1> HIDE DEF top
<1>3. top = n
  BY <1>1, <1>2
<1>4. low \in {MaxSize, n} /\ \A y \in {MaxSize, n} : low <= y
  <2>1. n \in {MaxSize, n} /\ \A y \in {MaxSize, n} : n <= y
    BY <1>1
  <2>2. \E x \in {MaxSize, n} : \A y \in {MaxSize, n} : x <= y
    BY <2>1
  <2> QED BY <2>2 DEF Min
<1> HIDE DEF low
<1>5. low = n
  BY <1>1, <1>4
<1> QED BY <1>3, <1>5 DEF top, low

(* A target is open. *)
Writing == pc \in {"write content", "copy content"}

(* What is written to an empty file is all that it then holds. *)
LEMMA WrittenAll ==
  ASSUME Going, Writing, NEW n \in Sizes, disk' = Written(n)
  PROVE /\ disk' \in Disks /\ IsFile(disk', ToCreate) /\ disk'.size[disk'.tree[ToCreate]] = n
        /\ \A r \in Paths \ {ToCreate} : View(disk')[r] = View(before)[r]
<1>0. /\ disk \in Disks /\ WellFormed(disk) /\ ToCreate \in Paths /\ ControlInv /\ Knows
  BY GoingFacts
<1>1. /\ IsFile(disk, ToCreate) /\ disk.tree[ToCreate] = seen.file /\ disk.size[seen.file] = 0
      /\ \A r \in Paths \ {ToCreate} : View(disk)[r] = View(before)[r]
  BY <1>0 DEF Knows, KnowsOpen, Writing
<1>2. seen.file \in Inodes /\ seen.offset = 0
  <2>1. seen.file \in Inodes \cup {0} /\ seen.offset \in {0}
    BY <1>0 DEF ControlInv, SeenType
  <2> QED BY <1>1, <2>1 DEF IsFile, Exists
<1>3. Min({MaxSize, Max({disk.size[seen.file], seen.offset + n})}) = n
  <2>1. n \in Nat
    BY SizeNat
  <2>2. 0 + n = n
    BY <2>1
  <2> QED BY <1>1, <1>2, <2>2, WrittenFromStart
<1>4. disk' = Store(disk, seen.file, n)
  BY <1>3 DEF Written
<1>5. /\ disk' \in Disks /\ disk'.tree = disk.tree /\ disk'.dirs = disk.dirs
      /\ disk'.size[seen.file] = n
      /\ \A r \in Paths : disk.tree[r] # seen.file => SameAt(disk, disk', r)
  BY <1>0, <1>2, <1>4, StoreKeeps
<1>6. ASSUME NEW r \in Paths \ {ToCreate} PROVE View(disk')[r] = View(before)[r]
  <2>1. disk.tree[r] # seen.file
    BY <1>0, <1>1, OneLink DEF IsFile
  <2>2. SameAt(disk, disk', r)
    BY <1>5, <2>1
  <2> QED BY <1>0, <1>1, <1>5, <2>2, SameLooksSame
<1>7. IsFile(disk', ToCreate)
  BY <1>1, <1>5 DEF IsFile, Exists, IsDir
<1> QED BY <1>1, <1>5, <1>6, <1>7

(* The content of a new file is written. *)
LEMMA GoesByWriteContent == ASSUME Going, WriteContent PROVE Goes'
<1>0. /\ pc = "write content" /\ disk' = Written(call.size) /\ Return("ok", 0, {})
  BY DEF WriteContent, Sets, Succeed
<1>1. /\ call.op = "write" /\ call.size \in Sizes /\ call \in CallSet /\ before \in Disks
      /\ ToCreate = call.path /\ call.path \in Paths /\ Permitted(View(before), call)
  <2>1. call.op = "write" /\ call.size \in Sizes
    BY <1>0, GoingFacts, PathsOfCall DEF ControlInv, Fits
  <2> QED BY <1>0, <2>1, GoingFacts DEF Knows, KnowsOpen, ToCreate
<1>2. /\ disk' \in Disks /\ IsFile(disk', call.path) /\ disk'.size[disk'.tree[call.path]] = call.size
      /\ \A r \in Paths \ {call.path} : View(disk')[r] = View(before)[r]
  BY <1>0, <1>1, WrittenAll DEF Writing
<1>3. View(disk')[call.path] = File(call.size)
  BY <1>1, <1>2, ViewMeans
<1>4. ASSUME NEW p \in Paths PROVE View(disk')[p] = Left(View(before), call)[p]
  <2>1. View(before) = [r \in Paths |-> View(before)[r]]
    BY <1>1, ViewType
  <2>2. Left(View(before), call)[p] = IF p = call.path THEN File(call.size) ELSE View(before)[p]
    BY <1>1, <2>1, LeftMeans
  <2> QED BY <1>2, <1>3, <2>2
<1> QED BY <1>0, <1>1, <1>2, <1>4, Granted

(* The content of the source is copied. *)
LEMMA GoesByCopyContent == ASSUME Going, CopyContent PROVE Goes'
<1>0. /\ pc = "copy content" /\ disk \in Disks /\ before \in Disks /\ WellFormed(disk)
      /\ call \in CallSet /\ call.path \in Paths /\ call.target \in Paths /\ ControlInv /\ Knows
  BY GoingFacts DEF CopyContent
<1>1. call.op = "copy"
  BY <1>0 DEF ControlInv, Fits
<1>2. /\ Permitted(View(before), call) /\ ToCreate = call.target
      /\ IsFile(disk, call.path) /\ disk.tree[call.path] = seen.input
      /\ disk.tree[call.target] = seen.file /\ disk.size[seen.file] = 0
      /\ \A r \in Paths \ {call.target} : View(disk)[r] = View(before)[r]
  BY <1>0, <1>1 DEF Knows, KnowsOpen, ToCreate
<1>3. disk' = Written(disk.size[seen.input]) /\ Return("ok", 0, {})
  <2>1. seen.input \notin disk.dirs
    BY <1>2 DEF IsFile, IsDir
  <2> QED BY <2>1 DEF CopyContent, Sets, Succeed
<1>4. disk.size[seen.input] \in Sizes /\ View(disk)[call.path] = File(disk.size[seen.input])
  BY <1>0, <1>2, ViewMeans
<1>5. /\ disk' \in Disks /\ IsFile(disk', call.target)
      /\ disk'.size[disk'.tree[call.target]] = disk.size[seen.input]
      /\ \A r \in Paths \ {call.target} : View(disk')[r] = View(before)[r]
  BY <1>0, <1>2, <1>3, <1>4, WrittenAll DEF Writing
<1>6. View(disk')[call.target] = File(disk.size[seen.input])
  BY <1>0, <1>5, ViewMeans, ZenonT(60)
<1>7. File(disk.size[seen.input]) = IF call.path = call.target THEN File(0) ELSE View(before)[call.path]
  BY <1>0, <1>2, <1>4
<1>8. ASSUME NEW p \in Paths PROVE View(disk')[p] = Left(View(before), call)[p]
  <2>1. View(before) = [r \in Paths |-> View(before)[r]]
    BY <1>0, ViewType
  <2>2. Left(View(before), call)[p] =
          IF p # call.target THEN View(before)[p]
          ELSE IF call.path = call.target THEN File(0) ELSE View(before)[call.path]
    BY <1>0, <1>1, <2>1, LeftMeans, ZenonT(60)
  <2> QED BY <1>5, <1>6, <1>7, <2>2
<1> QED BY <1>2, <1>3, <1>5, <1>8, Granted

(* A file is read. *)
LEMMA GoesByReadFile == ASSUME Going, ReadFile PROVE Goes'
<1>0. /\ disk' = disk /\ pc = "read file" /\ disk \in Disks /\ call \in CallSet
      /\ call.path \in Paths /\ ControlInv /\ Knows /\ View(before) = View(disk) /\ before \in Disks
  BY GoingFacts DEF ReadFile, Looks, Looking
<1>1. call.op = "read" /\ call.size # 0 /\ IsFile(disk, call.path) /\ Source.size <= call.size
      /\ Source = Stat(disk, call.path)
  BY <1>0 DEF ControlInv, Fits, Knows, KnowsRead, Source
<1>2. Permitted(View(before), call)
  BY <1>0, <1>1, PermittedMeans
<1>3. ~Source.dir /\ Exists(disk, call.path)
  BY <1>0, <1>1, StatType DEF IsFile
<1>4. Return("ok", Source.size, {})
  BY <1>3 DEF ReadFile
<1>5. \A p \in Paths : View(disk')[p] = Left(View(before), call)[p]
  <2>1. View(before) = [r \in Paths |-> View(before)[r]]
    BY <1>0, ViewType
  <2>2. \A p \in Paths : Left(View(before), call)[p] = View(before)[p]
    BY <1>0, <1>1, <2>1, LeftMeans
  <2> QED BY <1>0, <2>2
<1> QED BY <1>0, <1>2, <1>4, <1>5, Granted

(* Sequences of entries: os.ReadDir names every entry once.                *)
LEMMA SnapshotOnce ==
  ASSUME disk \in Disks, NEW p \in Paths
  PROVE \A i, j \in 1..Len(Snapshot(p)) :
          /\ Snapshot(p)[i] = Listed(Snapshot(p)[i].path)
          /\ Snapshot(p)[i].path \in Children(disk, p)
          /\ Snapshot(p)[i].path = Snapshot(p)[j].path => i = j
<1> DEFINE S == Children(disk, p)
           names == SetToSeq(S)
<1>1. S \in SUBSET Paths /\ IsFiniteSet(S)
  BY SnapshotMeans
<1> HIDE DEF S
<1>2. Cardinality(S) \in Nat /\ ExistsBijection(1..Cardinality(S), S)
  BY <1>1, FS_CardinalityType
<1>3. PICK f : f \in Bijection(1..Cardinality(S), S)
  BY <1>2 DEF ExistsBijection
<1>4. f \in [1..Cardinality(S) -> S] /\ IsInjective(f)
  BY <1>3 DEF Bijection, Injection
<1>5. names \in [1..Cardinality(S) -> S] /\ IsInjective(names)
  BY <1>4 DEF SetToSeq
<1> HIDE DEF names
<1>6. Len(names) = Cardinality(S)
  BY <1>2, <1>5
<1>7. \A i, j \in 1..Cardinality(S) : names[i] = names[j] => i = j
  BY <1>5 DEF IsInjective
<1> DEFINE T == [i \in 1..Len(names) |-> Listed(names[i])]
<1>8. Snapshot(p) = T
  BY DEF Snapshot, names, S
<1>9. Len(T) = Cardinality(S) /\ \A i \in 1..Cardinality(S) : T[i] = Listed(names[i])
  <2>1. DOMAIN T = 1..Cardinality(S)
    BY <1>6
  <2>2. Len(T) = Cardinality(S)
    BY <1>2, <1>6
  <2> QED BY <1>6, <2>2
<1> HIDE DEF T
<1>10. \A c : Listed(c).path = c
  BY DEF Listed
<1>11. ASSUME NEW i \in 1..Len(T), NEW j \in 1..Len(T)
       PROVE /\ T[i] = Listed(T[i].path) /\ T[i].path \in S
             /\ T[i].path = T[j].path => i = j
  <2>1. i \in 1..Cardinality(S) /\ j \in 1..Cardinality(S)
    BY <1>9
  <2>2. T[i].path = names[i] /\ T[j].path = names[j] /\ T[i] = Listed(names[i])
    BY <1>9, <1>10, <2>1
  <2>3. names[i] \in S
    BY <1>5, <2>1
  <2> QED BY <1>7, <2>1, <2>2, <2>3
<1> QED BY <1>8, <1>11 DEF S

(* What is left of a sequence when its head has been dealt with. *)
LEMMA TailMeans ==
  ASSUME NEW s \in Seq(EntryType), s # << >>
  PROVE /\ Tail(s) \in Seq(EntryType) /\ Len(s) \in Nat /\ Len(Tail(s)) = Len(s) - 1
        /\ Head(s) = s[1] /\ 1 \in 1..Len(s)
        /\ \A i \in 1..Len(Tail(s)) : i + 1 \in 1..Len(s) /\ i + 1 # 1 /\ Tail(s)[i] = s[i + 1]
        /\ \A i \in 1..Len(s) : s[i] \in EntryType
<1>1. /\ Len(s) \in Nat /\ Len(s) # 0 /\ Tail(s) \in Seq(EntryType) /\ Len(Tail(s)) = Len(s) - 1
      /\ Head(s) = s[1]
  BY EmptySeq
<1>2. \A i \in 1..(Len(s) - 1) : Tail(s)[i] = s[i + 1]
  BY <1>1, HeadTailProperties
<1>3. \A i \in 1..(Len(s) - 1) : i + 1 \in 1..Len(s) /\ i + 1 # 1
  BY <1>1
<1>4. \A i \in 1..Len(s) : s[i] \in EntryType
  BY <1>1, ElementOfSeq
<1> QED BY <1>1, <1>2, <1>3, <1>4

(* An entry of the tail is another one than the head, and orderly. *)
LEMMA OrderlyTail ==
  ASSUME NEW s \in Seq(EntryType), s # << >>, Orderly(s)
  PROVE /\ Orderly(Tail(s))
        /\ Exists(disk, Head(s).path) /\ IsPrefix(call.path, Head(s).path)
        /\ Head(s).dir <=> IsDir(disk, Head(s).path)
        /\ \A i \in 1..Len(Tail(s)) :
             ~IsPrefix(Head(s).path, Tail(s)[i].path) /\ ~IsPrefix(Tail(s)[i].path, Head(s).path)
<1> DEFINE t == Tail(s)
<1>1. /\ t \in Seq(EntryType) /\ Len(s) \in Nat /\ Len(t) = Len(s) - 1 /\ Head(s) = s[1]
      /\ 1 \in 1..Len(s)
      /\ \A i \in 1..Len(t) : i + 1 \in 1..Len(s) /\ i + 1 # 1 /\ t[i] = s[i + 1]
  BY TailMeans
<1> HIDE DEF t
<1>2. ASSUME NEW i \in 1..Len(t)
      PROVE /\ Exists(disk, t[i].path) /\ IsPrefix(call.path, t[i].path)
            /\ t[i].dir <=> IsDir(disk, t[i].path)
            /\ ~IsPrefix(s[1].path, t[i].path) /\ ~IsPrefix(t[i].path, s[1].path)
  <2>1. i + 1 \in 1..Len(s) /\ i + 1 # 1 /\ t[i] = s[i + 1]
    BY <1>1
  <2> QED BY <1>1, <2>1 DEF Orderly
<1>3. ASSUME NEW i \in 1..Len(t), NEW j \in 1..Len(t), IsPrefix(t[i].path, t[j].path)
      PROVE i = j
  <2>1. /\ i + 1 \in 1..Len(s) /\ t[i] = s[i + 1]
        /\ j + 1 \in 1..Len(s) /\ t[j] = s[j + 1]
    BY <1>1
  <2>2. i + 1 = j + 1
    BY <1>3, <2>1 DEF Orderly
  <2> QED BY <2>2
<1>4. Orderly(t)
  BY <1>2, <1>3 DEF Orderly
<1>5. /\ Exists(disk, s[1].path) /\ IsPrefix(call.path, s[1].path)
      /\ s[1].dir <=> IsDir(disk, s[1].path)
  BY <1>1 DEF Orderly
<1> QED BY <1>1, <1>2, <1>4, <1>5 DEF t

(* Two orderly sequences together, when nothing of one is below or above   *)
(* anything of the other.                                                  *)
LEMMA OrderlyConcat ==
  ASSUME NEW s \in Seq(EntryType), NEW t \in Seq(EntryType), Orderly(s), Orderly(t),
         \A i \in 1..Len(s), j \in 1..Len(t) :
           ~IsPrefix(s[i].path, t[j].path) /\ ~IsPrefix(t[j].path, s[i].path)
  PROVE Orderly(s \o t)
<1>1. /\ s \o t \in Seq(EntryType) /\ Len(s \o t) = Len(s) + Len(t)
      /\ Len(s) \in Nat /\ Len(t) \in Nat
      /\ \A i \in 1..(Len(s) + Len(t)) : (s \o t)[i] = IF i <= Len(s) THEN s[i] ELSE t[i - Len(s)]
  BY ConcatProperties, LenProperties
<1> DEFINE c == s \o t
<1> HIDE DEF c
<1>2. /\ Len(c) = Len(s) + Len(t)
      /\ \A i \in 1..(Len(s) + Len(t)) : c[i] = IF i <= Len(s) THEN s[i] ELSE t[i - Len(s)]
  BY <1>1 DEF c
<1>3. ASSUME NEW i \in 1..Len(c)
      PROVE \/ i \in 1..Len(s) /\ c[i] = s[i]
            \/ i - Len(s) \in 1..Len(t) /\ c[i] = t[i - Len(s)] /\ i \in Int
  BY <1>1, <1>2
<1>4. ASSUME NEW i \in 1..Len(c)
      PROVE Exists(disk, c[i].path) /\ IsPrefix(call.path, c[i].path)
            /\ (c[i].dir <=> IsDir(disk, c[i].path))
  BY <1>3 DEF Orderly
<1>5. ASSUME NEW i \in 1..Len(c), NEW j \in 1..Len(c), IsPrefix(c[i].path, c[j].path)
      PROVE i = j
  <2>1. CASE i \in 1..Len(s) /\ c[i] = s[i] /\ j \in 1..Len(s) /\ c[j] = s[j]
    BY <1>5, <2>1 DEF Orderly
  <2>2. CASE i \in 1..Len(s) /\ c[i] = s[i] /\ j - Len(s) \in 1..Len(t) /\ c[j] = t[j - Len(s)]
    BY <1>5, <2>2
  <2>3. CASE i - Len(s) \in 1..Len(t) /\ c[i] = t[i - Len(s)] /\ j \in 1..Len(s) /\ c[j] = s[j]
    BY <1>5, <2>3
  <2>4. CASE /\ i - Len(s) \in 1..Len(t) /\ c[i] = t[i - Len(s)]
             /\ j - Len(s) \in 1..Len(t) /\ c[j] = t[j - Len(s)]
    <3>1. i - Len(s) = j - Len(s)
      BY <1>5, <2>4 DEF Orderly
    <3> QED BY <1>1, <1>2, <3>1
  <2> QED BY <1>3, <2>1, <2>2, <2>3, <2>4
<1>6. Orderly(c)
  BY <1>4, <1>5 DEF Orderly
<1> QED BY <1>6 DEF c

(* What a directory holds is orderly. *)
LEMMA OrderlySnapshot ==
  ASSUME disk \in Disks, call.path \in Paths, NEW e \in Paths, IsPrefix(call.path, e)
  PROVE /\ Orderly(Snapshot(e))
        /\ \A i \in 1..Len(Snapshot(e)) :
             /\ Snapshot(e)[i].path \in Paths /\ IsPrefix(e, Snapshot(e)[i].path)
             /\ Snapshot(e)[i].path # e
<1> DEFINE T == Snapshot(e)
<1>1. ASSUME NEW i \in 1..Len(T), NEW j \in 1..Len(T)
      PROVE /\ T[i] = Listed(T[i].path) /\ T[i].path \in Children(disk, e)
            /\ T[i].path = T[j].path => i = j
  BY SnapshotOnce
<1> HIDE DEF T
<1>2. ASSUME NEW i \in 1..Len(T)
      PROVE /\ T[i].path \in Paths /\ IsPrefix(e, T[i].path) /\ T[i].path # e
            /\ Exists(disk, T[i].path) /\ (T[i].dir <=> IsDir(disk, T[i].path))
            /\ Len(T[i].path) = Len(e) + 1 /\ IsPrefix(call.path, T[i].path)
  <2>1. T[i].path \in Children(disk, e) /\ T[i] = Listed(T[i].path)
    BY <1>1
  <2>2. /\ T[i].path \in Paths /\ IsPrefix(e, T[i].path) /\ Len(T[i].path) = Len(e) + 1
        /\ Exists(disk, T[i].path)
    BY <2>1 DEF Children, Below
  <2>3. Listed(T[i].path).dir = IsDir(disk, T[i].path)
    BY DEF Listed
  <2>4. T[i].path # e
    <3>1. Len(e) \in Nat
      BY PathType
    <3> QED BY <2>2, <3>1
  <2>5. IsPrefix(call.path, T[i].path)
    BY <2>2, PrefixOrder
  <2> QED BY <2>1, <2>2, <2>3, <2>4, <2>5
<1>3. ASSUME NEW i \in 1..Len(T), NEW j \in 1..Len(T), IsPrefix(T[i].path, T[j].path)
      PROVE i = j
  <2>1. T[i].path = T[j].path
    BY <1>2, <1>3, PrefixOrder
  <2> QED BY <1>1, <2>1
<1>4. Orderly(T)
  BY <1>2, <1>3 DEF Orderly
<1> QED BY <1>2, <1>4 DEF T

(* What has been passed is counted by a number. *)
LEMMA PassedFinite ==
  ASSUME disk \in Disks, call.path \in Paths, NEW s
  PROVE /\ IsFiniteSet(Passed(s)) /\ Cardinality(Passed(s)) \in Nat
        /\ Cardinality(Inside(View(disk), call.path)) \in Nat
        /\ Cardinality(Passed(s)) <= Cardinality(Inside(View(disk), call.path))
<1> DEFINE I == Inside(View(disk), call.path)
<1>1. IsFiniteSet(I) /\ Cardinality(I) \in Nat
  BY ContractMeans
<1>2. Passed(s) \in SUBSET I
  BY DEF Passed
<1> HIDE DEF I
<1>3. IsFiniteSet(Passed(s)) /\ Cardinality(Passed(s)) <= Cardinality(I)
  BY <1>1, <1>2, FS_Subset
<1> QED BY <1>1, <1>3, FS_CardinalityType DEF I

(* A step of the walk counts no entry twice, and none that is not inside.  *)
LEMMA WalkCounts ==
  ASSUME disk \in Disks, call.path \in Paths, NEW s \in Seq(EntryType), s # << >>, Orderly(s),
         NEW more, (~Head(s).dir /\ more = << >>) \/ more = Snapshot(Head(s).path),
         NEW count \in Nat, count <= Cardinality(Passed(s))
  PROVE /\ more \o Tail(s) \in Seq(EntryType) /\ Orderly(more \o Tail(s))
        /\ (IF Head(s).path = call.path THEN 0 ELSE count + 1)
             <= Cardinality(Passed(more \o Tail(s)))
<1> DEFINE e == Head(s).path
           t == Tail(s)
           onward == more \o t
<1>1. /\ e \in Paths /\ t \in Seq(EntryType) /\ Orderly(t) /\ Exists(disk, e) /\ IsPrefix(call.path, e)
      /\ \A i \in 1..Len(t) : t[i] \in EntryType
      /\ \A i \in 1..Len(t) : ~IsPrefix(e, t[i].path) /\ ~IsPrefix(t[i].path, e)
  <2>1. t \in Seq(EntryType) /\ e \in Paths
    BY HeadType
  <2> QED BY <2>1, OrderlyTail, ElementOfSeq
<1>2. Elements(s) = {Head(s)} \cup Elements(t)
  BY ElementsOfTail
<1> HIDE DEF t, e
<1>3. /\ more \in Seq(EntryType) /\ Orderly(more)
      /\ \A i \in 1..Len(more) : more[i].path \in Paths /\ IsPrefix(e, more[i].path) /\ more[i].path # e
  <2>1. CASE more = << >>
    <3>1. Len(more) = 0 /\ 1..0 = {}
      BY <2>1
    <3> QED BY <2>1, <3>1, ElementsOfNone DEF Orderly
  <2>2. CASE more = Snapshot(e)
    BY <1>1, <2>2, SnapshotMeans, OrderlySnapshot
  <2> QED BY <2>1, <2>2 DEF e
<1>4. ASSUME NEW i \in 1..Len(more), NEW j \in 1..Len(t)
      PROVE ~IsPrefix(more[i].path, t[j].path) /\ ~IsPrefix(t[j].path, more[i].path)
  <2>1. t[j].path \in Paths /\ more[i].path \in Paths /\ IsPrefix(e, more[i].path)
        /\ ~IsPrefix(e, t[j].path) /\ ~IsPrefix(t[j].path, e)
    BY <1>1, <1>3 DEF EntryType
  <2> QED BY <1>1, <2>1, PrefixOrder
<1>5. onward \in Seq(EntryType) /\ Elements(onward) = Elements(more) \cup Elements(t)
      /\ Orderly(onward)
  BY <1>1, <1>3, <1>4, ElementsOfConcat, OrderlyConcat
<1> DEFINE before0 == Passed(s)
           after == Passed(onward)
<1>6. IsFiniteSet(before0) /\ Cardinality(before0) \in Nat
      /\ IsFiniteSet(after) /\ Cardinality(after) \in Nat
  BY PassedFinite
<1>7. \A x \in Elements(onward) : x \in Elements(t) \/ (IsPrefix(e, x.path) /\ x.path # e /\ x.path \in Paths)
  BY <1>3, <1>5 DEF Elements
<1>8. before0 \subseteq after
  <2> SUFFICES ASSUME NEW p \in Inside(View(disk), call.path), \A x \in Elements(s) : ~IsPrefix(x.path, p),
                      NEW x \in Elements(onward), IsPrefix(x.path, p)
               PROVE FALSE
    BY DEF Passed
  <2>1. p \in Paths /\ ~IsPrefix(e, p)
    BY <1>2 DEF Inside, Below, e
  <2>2. x \notin Elements(t)
    BY <1>2
  <2> QED BY <1>1, <1>7, <2>1, <2>2, PrefixOrder
<1>9. CASE e = call.path
  <2>1. 0 <= Cardinality(after)
    BY <1>6, ZeroLeast
  <2> QED BY <1>5, <1>9, <2>1 DEF e, t
<1>10. CASE e # call.path
  <2>1. e \in Inside(View(disk), call.path)
    BY <1>1, <1>10, ContractMeans DEF InsideOf
  <2>2. e \notin before0
    <3>1. IsPrefix(e, e) /\ Head(s) \in Elements(s)
      BY <1>1, <1>2, PrefixOrder
    <3> QED BY <3>1 DEF Passed, e
  <2>3. e \in after
    <3>1. ASSUME NEW x \in Elements(onward), IsPrefix(x.path, e) PROVE FALSE
      <4>1. CASE x \in Elements(t)
        BY <1>1, <3>1, <4>1 DEF Elements
      <4>2. CASE IsPrefix(e, x.path) /\ x.path # e /\ x.path \in Paths
        BY <1>1, <3>1, <4>2, PrefixOrder
      <4> QED BY <1>7, <4>1, <4>2
    <3> QED BY <2>1, <3>1 DEF Passed
  <2> HIDE DEF before0, after
  <2>4. Cardinality(before0 \cup {e}) = Cardinality(before0) + 1
    BY <1>6, <2>2, FS_AddElement
  <2>5. Cardinality(before0 \cup {e}) <= Cardinality(after)
    <3>1. before0 \cup {e} \in SUBSET after
      BY <1>8, <2>3
    <3> QED BY <1>6, <3>1, FS_Subset
  <2>6. count <= Cardinality(before0)
    BY DEF before0
  <2>7. count + 1 <= Cardinality(after)
    BY <1>6, <2>4, <2>5, <2>6
  <2> QED BY <1>5, <1>10, <2>7 DEF after, e, t
<1> QED BY <1>9, <1>10

(* The names of a directory are read. *)
LEMMA GoesByReadNames == ASSUME Going, ReadNames PROVE Goes'
<1>0. /\ disk' = disk /\ call' = call /\ pc = "read names" /\ Knows /\ View(before) = View(disk)
      /\ ControlInv /\ disk \in Disks /\ call.path \in Paths /\ call \in CallSet
  BY GoingFacts DEF ReadNames, Looks, Looking
<1>1. call.op = "list" \/ (call.op = "delete" /\ ~call.flag)
  BY <1>0 DEF ControlInv, Fits
<1>2. Source.dir <=> IsDir(disk, call.path)
  BY <1>0, StatType DEF Source
<1>3. CASE call.op = "list"
  <2>1. Permitted(View(disk), call) => IsDir(disk, call.path)
    BY <1>0, <1>3, PermittedMeans
  <2>2. CASE ~Exists(disk, call.path)
    <3>1. ~Permitted(View(disk), call) /\ Fail(Missing(disk, call.path))
      BY <1>0, <2>1, <2>2, DiskParts DEF ReadNames
    <3> QED BY <1>0, <3>1, Codings, Refused
  <2>3. CASE Exists(disk, call.path) /\ ~Source.dir
    <3>1. ~Permitted(View(disk), call) /\ Fail(Internal)
      BY <1>2, <2>1, <2>3 DEF ReadNames
    <3> QED BY <1>0, <3>1, Codings, Refused
  <2>4. CASE Exists(disk, call.path) /\ Source.dir
    <3>1. Goto("list entry", [seen EXCEPT !.todo = Snapshot(call.path)])
      BY <1>3, <2>4 DEF ReadNames
    <3>2. pc' = "list entry" /\ seen' = [seen EXCEPT !.todo = Snapshot(call.path)]
      BY <3>1 DEF Goto
    <3>3. seen = Unseen
      BY <1>0, <1>3 DEF Going, FreshInv
    <3>4. seen'.names = {} /\ seen'.todo = Snapshot(call.path)
      BY <1>0, <3>2, <3>3, UnseenFresh DEF ControlInv, SeenType
    <3>5. Unlisted(Snapshot(call.path), {})
      <4>1. ASSUME NEW i \in 1..Len(Snapshot(call.path)), NEW j \in 1..Len(Snapshot(call.path))
            PROVE /\ Exists(disk, Snapshot(call.path)[i].path)
                  /\ Snapshot(call.path)[i].path = Snapshot(call.path)[j].path => i = j
        BY <1>0, SnapshotOnce DEF Children
      <4> QED BY <4>1 DEF Unlisted
    <3>6. Unlisted(seen.todo, seen.names)'
      BY <1>0, <3>4, <3>5 DEF Unlisted
    <3>7. KnowsList'
      BY <1>0, <1>2, <2>4, <3>6 DEF KnowsList
    <3> QED BY <3>2, <3>7, KnowsParts, Onward
  <2> QED BY <2>2, <2>3, <2>4
<1>4. CASE call.op = "delete"
  <2>1. IsDir(disk, call.path) /\ Exists(disk, call.path) /\ ~call.flag
    BY <1>0, <1>1, <1>4, DiskParts DEF Knows, KnowsRemove
  <2>2. CASE Snapshot(call.path) = << >>
    <3>1. pc' = "remove"
      BY <1>2, <1>4, <2>1, <2>2 DEF ReadNames, Goto
    <3>2. Children(disk, call.path) = {}
      BY <1>0, <2>2, SnapshotMeans
    <3>3. KnowsRemove'
      BY <1>0, <2>1, <3>1, <3>2 DEF KnowsRemove
    <3> QED BY <3>1, <3>3, KnowsParts, Onward
  <2>3. CASE Snapshot(call.path) # << >>
    <3>1. Fail("unsupported_path_type")
      BY <1>2, <1>4, <2>1, <2>3 DEF ReadNames
    <3>2. Children(disk, call.path) # {}
      BY <1>0, <2>3, SnapshotMeans, ElementsOfTail
    <3>3. ~(Cardinality(Inside(View(disk), call.path)) <= 0)
      <4> DEFINE I == Inside(View(disk), call.path)
      <4>1. IsFiniteSet(I) /\ Cardinality(I) \in Nat /\ I # {}
        BY <1>0, <3>2, ContractMeans
      <4> HIDE DEF I
      <4>2. Cardinality(I) # 0
        BY <4>1, FS_EmptySet
      <4>3. ~(Cardinality(I) <= 0)
        BY <4>1, <4>2
      <4> QED BY <4>3 DEF I
    <3>4. ~Permitted(View(disk), call)
      BY <1>0, <1>4, <2>1, <3>3, PermittedMeans
    <3> QED BY <1>0, <3>1, <3>4, Refused
  <2> QED BY <2>2, <2>3
<1> QED BY <1>1, <1>3, <1>4

(* One entry more is one name more. *)
LEMMA OneMore ==
  ASSUME NEW S, IsFiniteSet(S), NEW T \in SUBSET S, NEW x \in S, x \notin T, NEW n \in Nat,
         Cardinality(T) >= n
  PROVE ~(Cardinality(S) <= n)
<1>1. IsFiniteSet(T) /\ Cardinality(T) \in Nat /\ Cardinality(S) \in Nat
  BY FS_Subset, FS_CardinalityType
<1>2. Cardinality(T \cup {x}) = Cardinality(T) + 1 /\ T \cup {x} \in SUBSET S
  BY <1>1, FS_AddElement
<1>3. Cardinality(T \cup {x}) <= Cardinality(S)
  BY <1>2, FS_Subset
<1> QED BY <1>1, <1>2, <1>3

(* What is listed when an entry has been. *)
LEMMA UnlistedTail ==
  ASSUME NEW s \in Seq(EntryType), s # << >>, NEW names, Unlisted(s, names)
  PROVE /\ Unlisted(Tail(s), names \cup {Head(s).path})
        /\ Exists(disk, Head(s).path) /\ Head(s).path \notin names
<1> DEFINE t == Tail(s)
<1>1. /\ t \in Seq(EntryType) /\ Len(s) \in Nat /\ Len(t) = Len(s) - 1 /\ Head(s) = s[1]
      /\ 1 \in 1..Len(s)
      /\ \A i \in 1..Len(t) : i + 1 \in 1..Len(s) /\ i + 1 # 1 /\ t[i] = s[i + 1]
  BY TailMeans
<1> HIDE DEF t
<1>2. ASSUME NEW i \in 1..Len(t)
      PROVE Exists(disk, t[i].path) /\ t[i].path \notin names \cup {s[1].path}
  <2>1. i + 1 \in 1..Len(s) /\ i + 1 # 1 /\ t[i] = s[i + 1]
    BY <1>1
  <2> QED BY <1>1, <2>1 DEF Unlisted
<1>3. ASSUME NEW i \in 1..Len(t), NEW j \in 1..Len(t), t[i].path = t[j].path
      PROVE i = j
  <2>1. /\ i + 1 \in 1..Len(s) /\ t[i] = s[i + 1]
        /\ j + 1 \in 1..Len(s) /\ t[j] = s[j + 1]
    BY <1>1
  <2>2. i + 1 = j + 1
    BY <1>3, <2>1 DEF Unlisted
  <2> QED BY <2>2
<1>4. Unlisted(t, names \cup {s[1].path})
  BY <1>2, <1>3 DEF Unlisted
<1>5. Exists(disk, s[1].path) /\ s[1].path \notin names
  BY <1>1 DEF Unlisted
<1> QED BY <1>1, <1>4, <1>5 DEF t

(* The entries of a listing. *)
LEMMA GoesByListEntry == ASSUME Going, ListEntry PROVE Goes'
<1>0. /\ disk' = disk /\ call' = call /\ pc = "list entry" /\ Knows /\ View(before) = View(disk)
      /\ ControlInv /\ disk \in Disks /\ call.path \in Paths /\ call \in CallSet /\ before \in Disks
      /\ before' = before
  BY GoingFacts DEF ListEntry, Looks, Looking
<1>1. call.op = "list" /\ seen \in SeenType /\ seen.todo \in Seq(EntryType)
  BY <1>0 DEF ControlInv, Fits, SeenType
<1>2. IsDir(disk, call.path) /\ Unlisted(seen.todo, seen.names)
  BY <1>0 DEF Knows, KnowsList
<1>3. Children(before, call.path) = Children(disk, call.path)
  BY <1>0, ContractMeans
<1>4. /\ Children(disk, call.path) \subseteq seen.names \cup Remaining
      /\ seen.names \cup Remaining \subseteq Children(disk, call.path)
      /\ Cardinality(seen.names) <= MaxListEntries
  <2>1. ListInv /\ touched = {}
    BY DEF Going, Alone
  <2> QED BY <1>0, <1>3, <2>1 DEF ListInv
<1>5. Permitted(View(disk), call) <=> Cardinality(Children(disk, call.path)) <= MaxListEntries
  BY <1>0, <1>1, <1>2, PermittedMeans
<1>6. CASE seen.todo = << >>
  <2>1. Return("ok", 0, seen.names)
    BY <1>6 DEF ListEntry
  <2>2. Remaining = {}
    BY <1>6, ElementsOfNone DEF Remaining
  <2>3. Children(disk, call.path) = seen.names
    BY <1>4, <2>2
  <2>4. Permitted(View(before), call)
    BY <1>0, <1>4, <1>5, <2>3
  <2>5. View(before) = [r \in Paths |-> View(before)[r]]
    BY <1>0, ViewType
  <2>6. \A p \in Paths : Left(View(before), call)[p] = View(before)[p]
    BY <1>0, <1>1, <2>5, LeftMeans
  <2>7. \A p \in Paths : View(disk')[p] = Left(View(before), call)[p]
    BY <1>0, <2>6
  <2> QED BY <1>0, <2>1, <2>4, <2>7, Granted
<1>7. CASE seen.todo # << >>
  <2> DEFINE p == Head(seen.todo).path
  <2>1. /\ Unlisted(Tail(seen.todo), seen.names \cup {p})
        /\ Exists(disk, p) /\ p \notin seen.names
    BY <1>1, <1>2, <1>7, UnlistedTail
  <2>2. p \in Remaining
    BY <1>1, <1>7, ElementsOfTail DEF Remaining
  <2> HIDE DEF p
  <2>3. CASE Cardinality(seen.names) >= MaxListEntries
    <3>1. Fail("limit_exceeded")
      BY <1>7, <2>1, <2>3 DEF ListEntry, p
    <3>2. ~(Cardinality(Children(disk, call.path)) <= MaxListEntries)
      <4>1. /\ IsFiniteSet(Children(disk, call.path)) /\ MaxListEntries \in Nat
            /\ seen.names \in SUBSET Children(disk, call.path) /\ p \in Children(disk, call.path)
        BY <1>0, <1>4, <2>2, ContractMeans, LimitsAssumption
      <4> QED BY <2>1, <2>3, <4>1, OneMore
    <3> QED BY <1>0, <1>5, <3>1, <3>2, Refused
  <2>4. CASE ~(Cardinality(seen.names) >= MaxListEntries)
    <3>1. pc' = "list entry" /\ seen' = [seen EXCEPT !.todo = Tail(@), !.names = @ \cup {p}]
      BY <1>7, <2>1, <2>4 DEF ListEntry, Goto, p
    <3>2. seen'.todo = Tail(seen.todo) /\ seen'.names = seen.names \cup {p}
      BY <1>1, <3>1 DEF SeenType
    <3>3. Unlisted(seen.todo, seen.names)'
      BY <1>0, <2>1, <3>2 DEF Unlisted
    <3>4. KnowsList'
      BY <1>0, <1>2, <3>3 DEF KnowsList
    <3> QED BY <3>1, <3>4, KnowsParts, Onward
  <2> QED BY <2>3, <2>4
<1> QED BY <1>6, <1>7

(* What is inside a path that holds nothing. *)
LEMMA NothingInside ==
  ASSUME NEW d \in Disks, NEW p \in Paths, \A r \in Paths : IsPrefix(p, r) /\ r # p => ~Exists(d, r)
  PROVE Cardinality(Inside(View(d), p)) = 0
<1>1. InsideOf(d, p) = {}
  BY DEF InsideOf
<1>2. Inside(View(d), p) = {}
  BY <1>1, ContractMeans
<1> QED BY <1>2, FS_EmptySet

(* What a removal shows. *)
LEMMA UnlinkShows ==
  ASSUME NEW p \in Paths, disk \in Disks, WellFormed(disk), Removable(p), disk' = Unlink(disk, p)
  PROVE /\ disk' \in Disks /\ View(disk')[p] = Nothing
        /\ \A r \in Paths \ {p} : View(disk')[r] = View(disk)[r]
        /\ \A r \in Paths : IsPrefix(p, r) /\ r # p => ~Exists(disk, r)
        /\ \A r \in Paths \ {p} : Exists(disk', r) <=> Exists(disk, r)
<1>1. IsFile(disk, p) \/ IsEmptyDir(disk, p)
  BY DEF Removable
<1>2. /\ disk' \in Disks /\ ~Exists(disk', p)
      /\ \A r \in Paths : r # p => SameAt(disk, disk', r)
  BY <1>1, UnlinkKeeps
<1>3. View(disk')[p] = Nothing
  BY <1>2, ViewMeans
<1>4. ASSUME NEW r \in Paths \ {p} PROVE View(disk')[r] = View(disk)[r] /\ (Exists(disk', r) <=> Exists(disk, r))
  BY <1>2, SameLooksSame DEF SameAt, Exists
<1>5. \A r \in Paths : IsPrefix(p, r) /\ r # p => ~Exists(disk, r)
  BY <1>1, EmptyMeans
<1> QED BY <1>2, <1>3, <1>4, <1>5

(* Everything at and below the path is gone. *)
LEMMA AllGone ==
  ASSUME Going, call.op = "delete", disk' \in Disks, Permitted(View(before), call), Succeed,
         \A r \in Paths : View(disk')[r] = IF IsPrefix(call.path, r) THEN Nothing ELSE View(before)[r]
  PROVE Goes'
<1>0. call \in CallSet /\ before \in Disks
  BY GoingFacts
<1>1. View(before) = [r \in Paths |-> View(before)[r]]
  BY <1>0, ViewType
<1>2. \A p \in Paths : View(disk')[p] = Left(View(before), call)[p]
  BY <1>0, <1>1, LeftMeans
<1>3. Return("ok", 0, {})
  BY DEF Succeed
<1> QED BY <1>2, <1>3, Granted

(* A file or an empty directory is removed. *)
LEMMA GoesByRemovePath == ASSUME Going, RemovePath PROVE Goes'
<1>0. /\ call' = call /\ pc = "remove" /\ Knows /\ View(before) = View(disk) /\ ~IsFile(disk, Root)
      /\ ControlInv /\ disk \in Disks /\ WellFormed(disk) /\ call.path \in Paths /\ call \in CallSet
  BY GoingFacts DEF RemovePath, Looking
<1>1. call.op = "delete" /\ Exists(disk, call.path) /\ Children(disk, call.path) = {}
  BY <1>0 DEF ControlInv, Fits, Knows, KnowsRemove
<1>2. Removable(call.path)
  BY <1>1 DEF Removable, IsEmptyDir, IsFile
<1>3. disk' = Unlink(disk, call.path) /\ Succeed
  BY <1>1 DEF RemovePath, IsEmptyDir, Sets
<1>4. /\ disk' \in Disks /\ View(disk')[call.path] = Nothing
      /\ \A r \in Paths \ {call.path} : View(disk')[r] = View(disk)[r]
      /\ \A r \in Paths : IsPrefix(call.path, r) /\ r # call.path => ~Exists(disk, r)
  BY <1>0, <1>2, <1>3, UnlinkShows
<1>5. Permitted(View(before), call)
  <2>1. Cardinality(Inside(View(disk), call.path)) = 0
    BY <1>0, <1>4, NothingInside
  <2>2. 0 <= MaxDeleteEntries /\ 0 <= 0
    BY LimitsAssumption, ZeroLeast
  <2> QED BY <1>0, <1>1, <2>1, <2>2, PermittedMeans
<1>6. ASSUME NEW r \in Paths
      PROVE View(disk')[r] = IF IsPrefix(call.path, r) THEN Nothing ELSE View(before)[r]
  <2>1. CASE r = call.path
    BY <1>0, <1>4, <2>1, PrefixOrder
  <2>2. CASE r # call.path /\ IsPrefix(call.path, r)
    BY <1>0, <1>4, <2>2, ViewMeans
  <2>3. CASE r # call.path /\ ~IsPrefix(call.path, r)
    BY <1>0, <1>4, <2>3
  <2> QED BY <2>1, <2>2, <2>3
<1> QED BY <1>1, <1>3, <1>4, <1>5, <1>6, AllGone

(* The walk begins with the path itself. *)
LEMMA GoesByWalkRoot == ASSUME Going, WalkRoot PROVE Goes'
<1>0. /\ disk' = disk /\ call' = call /\ pc = "lstat root of walk" /\ Knows /\ View(before) = View(disk)
      /\ ControlInv /\ disk \in Disks /\ call.path \in Paths /\ call \in CallSet
  BY GoingFacts DEF WalkRoot, Looks, Looking
<1>1. call.op = "delete" /\ seen \in SeenType
  BY <1>0 DEF ControlInv, Fits
<1>2. CASE ~Exists(disk, call.path)
  <2>1. ~Permitted(View(disk), call) /\ Fail(Missing(disk, call.path))
    BY <1>0, <1>1, <1>2, PermittedMeans DEF WalkRoot
  <2> QED BY <1>0, <2>1, Codings, Refused
<1>3. CASE Exists(disk, call.path)
  <2> DEFINE s == <<Listed(call.path)>>
  <2>1. pc' = "walk" /\ seen' = [seen EXCEPT !.todo = s]
    BY <1>3 DEF WalkRoot, Goto
  <2>2. seen.count = 0
    BY <1>0 DEF Going, FreshInv
  <2>3. seen'.todo = s /\ seen'.count = 0
    BY <1>1, <2>1, <2>2 DEF SeenType
  <2>4. Listed(call.path) \in EntryType /\ Listed(call.path).path = call.path
        /\ Listed(call.path).dir = IsDir(disk, call.path)
    BY <1>0, ListedType DEF Listed
  <2>5. Len(s) = 1 /\ s[1] = Listed(call.path) /\ \A i \in 1..1 : i = 1
    BY <2>4, ElementsOfOne
  <2> HIDE DEF s
  <2>6. IsPrefix(call.path, call.path)
    BY <1>0, PrefixOrder
  <2>7. Orderly(s)
    BY <1>3, <2>4, <2>5, <2>6 DEF Orderly
  <2>8. 0 <= Cardinality(Passed(s))
    BY <1>0, PassedFinite, ZeroLeast
  <2>9. Orderly(seen.todo)' /\ Passed(seen.todo)' = Passed(s)
    BY <1>0, <2>3, <2>7 DEF Orderly, Passed
  <2>10. KnowsWalk'
    BY <1>0, <1>3, <2>1, <2>3, <2>8, <2>9 DEF KnowsWalk
  <2> QED BY <2>1, <2>10, KnowsParts, Onward
<1> QED BY <1>2, <1>3

(* The walk counts at most what is inside, and at the end all of it.       *)
LEMMA GoesByWalk == ASSUME Going, Walk PROVE Goes'
<1> DEFINE entry == Head(seen.todo)
           n == IF entry.path = call.path THEN 0 ELSE seen.count + 1
<1>0. /\ disk' = disk /\ call' = call /\ before' = before /\ pc = "walk" /\ Knows
      /\ View(before) = View(disk) /\ before \in Disks
      /\ ControlInv /\ disk \in Disks /\ call.path \in Paths /\ call \in CallSet
  BY GoingFacts DEF Walk, Looks, Looking
<1>1. call.op = "delete" /\ call.flag /\ seen \in SeenType /\ seen.todo \in Seq(EntryType)
      /\ seen.count \in Nat
  BY <1>0 DEF ControlInv, Fits, SeenType
<1>2. /\ Exists(disk, call.path) /\ Orderly(seen.todo)
      /\ seen.count <= Cardinality(Passed(seen.todo))
  BY <1>0 DEF Knows, KnowsWalk
<1>3. Permitted(View(disk), call) <=>
        Cardinality(Inside(View(disk), call.path)) <= MaxDeleteEntries
  BY <1>0, <1>1, <1>2, PermittedMeans
<1>4. CASE seen.todo = << >>
  <2>1. pc' = "remove all"
    BY <1>4 DEF Walk, Goto
  <2>2. AtStake = Inside(View(disk), call.path)
    <3>1. AtStake = {p \in Below(call.path) \ {call.path} : Exists(before, p)}
      BY DEF AtStake, Untouched, Going, Alone
    <3>2. \A p \in Below(call.path) : Exists(before, p) <=> View(before)[p] # Nothing
      BY <1>0, ViewMeans DEF Below
    <3>3. Inside(View(before), call.path) = {p \in Below(call.path) \ {call.path} : View(before)[p] # Nothing}
      BY DEF Inside
    <3> QED BY <1>0, <3>1, <3>2, <3>3
  <2>3. Cardinality(AtStake) <= MaxDeleteEntries
    <3>1. Counted
      BY <1>0 DEF Going, WalkInv
    <3>2. Reached = {}
      BY <1>4, ElementsOfNone DEF Reached
    <3>3. AtStake \ Reached = AtStake
      BY <3>2
    <3>4. Cardinality(AtStake) <= seen.count /\ seen.count <= MaxDeleteEntries
      BY <3>1, <3>3 DEF Counted
    <3> QED BY <1>1, <3>4, StakeFinite, NotMore, LimitsAssumption
  <2>4. Permitted(View(before), call)
    BY <1>0, <1>3, <2>2, <2>3
  <2>5. KnowsWalk'
    BY <1>0, <1>2, <2>1, <2>4 DEF KnowsWalk
  <2> QED BY <2>1, <2>5, KnowsParts, Onward
<1>5. CASE seen.todo # << >>
  <2>1. /\ Exists(disk, entry.path) /\ (entry.dir <=> IsDir(disk, entry.path))
        /\ entry.path \in Paths /\ n \in Nat
    BY <1>1, <1>2, <1>5, OrderlyTail, HeadType
  <2>2. ASSUME NEW more, (~entry.dir /\ more = << >>) \/ more = Snapshot(entry.path)
        PROVE /\ Orderly(more \o Tail(seen.todo))
              /\ n <= Cardinality(Passed(more \o Tail(seen.todo)))
    BY <1>0, <1>1, <1>2, <1>5, <2>2, WalkCounts
  <2> HIDE DEF entry, n
  <2>3. CASE OverDeleteLimit(n)
    <3>1. Fail("limit_exceeded")
      BY <1>5, <2>3 DEF Walk, n, entry
    <3>2. PICK more : (~entry.dir /\ more = << >>) \/ more = Snapshot(entry.path)
      OBVIOUS
    <3> DEFINE passed == Cardinality(Passed(more \o Tail(seen.todo)))
               inside == Cardinality(Inside(View(disk), call.path))
    <3>3. n <= passed /\ n > MaxDeleteEntries
      BY <2>2, <2>3, <3>2 DEF OverDeleteLimit
    <3>4. passed \in Nat /\ inside \in Nat /\ passed <= inside /\ MaxDeleteEntries \in Nat
      BY <1>0, PassedFinite, LimitsAssumption
    <3> HIDE DEF passed, inside
    <3>5. ~(inside <= MaxDeleteEntries)
      BY <2>1, <3>3, <3>4
    <3>6. ~Permitted(View(disk), call)
      BY <1>3, <3>5 DEF inside
    <3> QED BY <1>0, <3>1, <3>6, Refused
  <2>4. CASE ~OverDeleteLimit(n)
    <3>1. PICK more :
            /\ (~entry.dir /\ more = << >>) \/ more = Snapshot(entry.path)
            /\ Goto("walk", [seen EXCEPT !.todo = more \o Tail(@), !.count = n])
      <4>1. CASE ~entry.dir
        <5>1. Goto("walk", [seen EXCEPT !.todo = << >> \o Tail(@), !.count = n])
          BY <1>5, <2>4, <4>1 DEF Walk, n, entry
        <5> QED BY <4>1, <5>1
      <4>2. CASE entry.dir
        <5>1. Goto("walk", [seen EXCEPT !.todo = Snapshot(entry.path) \o Tail(@), !.count = n])
          BY <1>5, <2>1, <2>4, <4>2 DEF Walk, n, entry
        <5> QED BY <5>1
      <4> QED BY <4>1, <4>2
    <3>2. pc' = "walk" /\ seen'.todo = more \o Tail(seen.todo) /\ seen'.count = n
      BY <1>1, <3>1 DEF Goto, SeenType
    <3>3. Orderly(seen.todo)' /\ Passed(seen.todo)' = Passed(more \o Tail(seen.todo))
      BY <1>0, <2>2, <3>1, <3>2 DEF Orderly, Passed
    <3>4. KnowsWalk'
      BY <1>0, <1>2, <2>2, <3>1, <3>2, <3>3 DEF KnowsWalk
    <3> QED BY <3>2, <3>4, KnowsParts, Onward
  <2> QED BY <2>3, <2>4
<1> QED BY <1>4, <1>5

(* What the removal of a tree knows while it goes on. *)
LEMMA RemovingKnows ==
  ASSUME Going, pc = "remove all"
  PROVE /\ call.op = "delete" /\ Permitted(View(before), call) /\ Exists(disk, call.path)
        /\ \A r \in Paths : \/ View(disk)[r] = View(before)[r]
                            \/ IsPrefix(call.path, r) /\ View(disk)[r] = Nothing
  BY GoingFacts DEF ControlInv, Fits, Knows, KnowsWalk

(* One entry after the other, and the path itself last. *)
LEMMA GoesByRemoveAllStep == ASSUME Going, RemoveAllStep PROVE Goes'
<1>0. /\ call' = call /\ before' = before /\ pc = "remove all"
      /\ disk \in Disks /\ WellFormed(disk) /\ call.path \in Paths
  BY GoingFacts DEF RemoveAllStep
<1>1. /\ call.op = "delete" /\ Permitted(View(before), call) /\ Exists(disk, call.path)
      /\ \A r \in Paths : \/ View(disk)[r] = View(before)[r]
                          \/ IsPrefix(call.path, r) /\ View(disk)[r] = Nothing
  BY <1>0, RemovingKnows
<1>2. PICK p \in Below(call.path) :
        /\ Removable(p) /\ Sets(Unlink(disk, p))
        /\ IF p = call.path THEN Succeed ELSE Goto("remove all", seen)
  BY DEF RemoveAllStep
<1>3. p \in Paths /\ IsPrefix(call.path, p) /\ disk' = Unlink(disk, p)
  BY <1>2 DEF Below, Sets
<1>4. /\ disk' \in Disks /\ View(disk')[p] = Nothing
      /\ \A r \in Paths \ {p} : View(disk')[r] = View(disk)[r]
      /\ \A r \in Paths : IsPrefix(p, r) /\ r # p => ~Exists(disk, r)
      /\ \A r \in Paths \ {p} : Exists(disk', r) <=> Exists(disk, r)
  BY <1>0, <1>2, <1>3, UnlinkShows
<1>5. CASE p = call.path
  <2>1. Succeed
    BY <1>2, <1>5
  <2>2. ASSUME NEW r \in Paths
        PROVE View(disk')[r] = IF IsPrefix(call.path, r) THEN Nothing ELSE View(before)[r]
    <3>1. CASE r = p
      BY <1>0, <1>4, <1>5, <3>1, PrefixOrder
    <3>2. CASE r # p /\ IsPrefix(call.path, r)
      <4>1. ~Exists(disk, r)
        BY <1>4, <1>5, <3>2
      <4>2. View(disk)[r] = Nothing
        BY <1>0, <4>1, ViewMeans
      <4> QED BY <1>4, <3>2, <4>2
    <3>3. CASE r # p /\ ~IsPrefix(call.path, r)
      BY <1>1, <1>4, <3>3
    <3> QED BY <3>1, <3>2, <3>3
  <2> QED BY <1>1, <1>4, <2>1, <2>2, AllGone
<1>6. CASE p # call.path
  <2>1. pc' = "remove all"
    BY <1>2, <1>6 DEF Goto
  <2>2. Exists(disk', call.path)
    BY <1>0, <1>1, <1>4, <1>6
  <2>3. ASSUME NEW r \in Paths
        PROVE \/ View(disk')[r] = View(before)[r]
              \/ IsPrefix(call.path, r) /\ View(disk')[r] = Nothing
    BY <1>1, <1>3, <1>4
  <2>4. KnowsWalk'
    BY <1>0, <1>1, <2>1, <2>2, <2>3 DEF KnowsWalk
  <2> QED BY <2>1, <2>4, KnowsParts, Onward
<1> QED BY <1>5, <1>6

(* Alone, the removal of a tree always finds the path and something that   *)
(* can be removed.                                                         *)
LEMMA GoesByRemoveAllEnds == ASSUME Going, RemoveAllGone \/ RemoveAllRaced PROVE Goes'
<1>1. pc = "remove all" /\ call.path \in Paths
  BY GoingFacts DEF RemoveAllGone, RemoveAllRaced
<1>2. Exists(disk, call.path)
  BY <1>1, RemovingKnows
<1>3. touched = {}
  BY DEF Going, Alone
<1>4. call.path \in Below(call.path)
  BY <1>1, PrefixOrder DEF Below
<1> QED BY <1>2, <1>3, <1>4 DEF RemoveAllGone, RemoveAllRaced
(* Mkdir: where the search for a parent looks next.                        *)
LEMMA LowestMeans ==
  ASSUME NEW s \in Seq(EntryType), Parents(s), call.path \in Paths, call.path # Root,
         s # << >> => Head(s).path # Root,
         NEW l, l = IF s = << >> THEN Front(call.path) ELSE Front(Head(s).path)
  PROVE l \in Above(call.path) /\ Len(l) = Len(call.path) - 1 - Len(s)
<1>1. CASE s = << >>
  <2>1. l \in Paths /\ IsPrefix(l, call.path) /\ l # call.path /\ Len(call.path) = Len(l) + 1
    BY <1>1, FrontPath
  <2>2. Len(s) = 0 /\ Len(l) \in Nat /\ Len(call.path) \in Nat
    BY <1>1, <2>1, PathType
  <2> QED BY <2>1, <2>2 DEF Above, IsStrictPrefix
<1>2. CASE s # << >>
  <2> DEFINE p == Head(s).path
  <2>1. p \in Above(call.path) /\ Len(p) = Len(call.path) - 1 - Len(s) + 1
    BY <1>2, TailMeans DEF Parents
  <2>2. p \in Paths /\ IsPrefix(p, call.path) /\ p # call.path /\ p # Root /\ l = Front(p)
    BY <1>2, <2>1 DEF Above, IsStrictPrefix
  <2>3. l \in Paths /\ IsPrefix(l, p) /\ l # p /\ Len(p) = Len(l) + 1
    BY <2>2, FrontPath
  <2>4. IsPrefix(l, call.path) /\ l # call.path
    BY <2>2, <2>3, PrefixOrder
  <2>5. Len(l) \in Nat /\ Len(p) \in Nat /\ Len(s) \in Nat /\ Len(call.path) \in Nat
    BY <1>2, <2>2, <2>3, PathType, TailMeans
  <2>6. Len(l) = Len(call.path) - 1 - Len(s)
    BY <2>1, <2>3, <2>5
  <2> QED BY <2>3, <2>4, <2>6 DEF Above, IsStrictPrefix
<1> QED BY <1>1, <1>2

(* One parent more to make. *)
LEMMA ParentsMore ==
  ASSUME NEW s \in Seq(EntryType), Parents(s), NEW e \in EntryType, call.path \in Paths,
         e.path \in Above(call.path), Len(e.path) = Len(call.path) - 1 - Len(s)
  PROVE Parents(<<e>> \o s)
<1> DEFINE t == <<e>> \o s
<1>1. /\ Len(s) \in Nat /\ Len(t) = Len(s) + 1 /\ t[1] = e /\ Len(call.path) \in Nat
      /\ \A i \in 1..Len(t) : i \in Nat /\ (i = 1 \/ (i - 1 \in 1..Len(s) /\ t[i] = s[i - 1]))
  <2>1. /\ <<e>> \in Seq(EntryType) /\ Len(<<e>>) = 1 /\ <<e>>[1] = e
        /\ Len(s) \in Nat /\ Len(call.path) \in Nat
    BY ElementsOfOne, LenProperties, PathType
  <2> DEFINE h == <<e>>
  <2> HIDE DEF h
  <2>2. /\ Len(h \o s) = 1 + Len(s)
        /\ \A i \in 1..(1 + Len(s)) : (h \o s)[i] = IF i <= 1 THEN h[i] ELSE s[i - 1]
    BY <2>1, ConcatProperties DEF h
  <2>3. Len(h \o s) = Len(s) + 1 /\ (h \o s)[1] = e
    BY <2>1, <2>2 DEF h
  <2>4. ASSUME NEW i \in 1..Len(h \o s), i # 1
        PROVE i \in Nat /\ i - 1 \in 1..Len(s) /\ (h \o s)[i] = s[i - 1]
    BY <2>1, <2>2, <2>4
  <2>5. \A i \in 1..Len(h \o s) : i \in Nat
    BY <2>1, <2>2
  <2> QED BY <2>1, <2>3, <2>4, <2>5 DEF h
<1> HIDE DEF t
<1>2. ASSUME NEW i \in 1..Len(t)
      PROVE t[i].path \in Above(call.path) /\ Len(t[i].path) = Len(call.path) - 1 - Len(t) + i
  <2>1. CASE i = 1
    BY <1>1, <2>1
  <2>2. CASE i - 1 \in 1..Len(s) /\ t[i] = s[i - 1]
    <3>1. s[i - 1].path \in Above(call.path) /\ Len(s[i - 1].path) = Len(call.path) - 1 - Len(s) + (i - 1)
      BY <2>2 DEF Parents
    <3>2. Len(s) \in Nat /\ Len(t) = Len(s) + 1 /\ Len(call.path) \in Nat /\ i \in Nat
      BY <1>1
    <3>3. Len(call.path) - 1 - Len(s) + (i - 1) = Len(call.path) - 1 - Len(t) + i
      BY <3>2
    <3> QED BY <2>2, <3>1, <3>3
  <2> QED BY <1>1, <2>1, <2>2
<1>3. Parents(t)
  BY <1>2 DEF Parents
<1> QED BY <1>3 DEF t

(* One parent less to make. *)
LEMMA ParentsTail ==
  ASSUME NEW s \in Seq(EntryType), s # << >>, Parents(s), call.path \in Paths
  PROVE /\ Parents(Tail(s)) /\ Head(s).path \in Above(call.path)
        /\ Len(Head(s).path) = Len(call.path) - Len(s)
        /\ Len(Head(s).path) = Len(call.path) - 1 - Len(Tail(s))
<1> DEFINE t == Tail(s)
<1>1. /\ Len(s) \in Nat /\ Len(t) = Len(s) - 1 /\ Head(s) = s[1] /\ 1 \in 1..Len(s)
      /\ \A i \in 1..Len(t) : i + 1 \in 1..Len(s) /\ t[i] = s[i + 1]
      /\ Len(call.path) \in Nat
  BY TailMeans, PathType
<1> HIDE DEF t
<1>2. ASSUME NEW i \in 1..Len(t)
      PROVE t[i].path \in Above(call.path) /\ Len(t[i].path) = Len(call.path) - 1 - Len(t) + i
  <2>1. /\ i + 1 \in 1..Len(s) /\ t[i] = s[i + 1]
    BY <1>1
  <2>2. s[i + 1].path \in Above(call.path) /\ Len(s[i + 1].path) = Len(call.path) - 1 - Len(s) + (i + 1)
    BY <2>1 DEF Parents
  <2>3. Len(call.path) - 1 - Len(s) + (i + 1) = Len(call.path) - 1 - Len(t) + i
    <3>1. Len(s) \in Nat /\ Len(t) = Len(s) - 1 /\ Len(call.path) \in Nat /\ i \in Int
      BY <1>1
    <3>2. \A a, b, c, k \in Int : c = b - 1 => a - 1 - b + (k + 1) = a - 1 - c + k
      OBVIOUS
    <3>3. Len(t) \in Int /\ Len(s) \in Int /\ Len(call.path) \in Int
      BY <3>1
    <3> QED BY <3>1, <3>2, <3>3, ZenonT(60)
  <2> QED BY <2>1, <2>2, <2>3
<1>3. Parents(t)
  BY <1>2 DEF Parents
<1>4. s[1].path \in Above(call.path) /\ Len(s[1].path) = Len(call.path) - 1 - Len(s) + 1
  BY <1>1 DEF Parents
<1>5. Len(s[1].path) = Len(call.path) - Len(s) /\ Len(s[1].path) = Len(call.path) - 1 - Len(t)
  BY <1>1, <1>4
<1> QED BY <1>1, <1>3, <1>4, <1>5 DEF t

(* What is above a directory is a directory. *)
LEMMA ReadyFrom ==
  ASSUME NEW d \in Disks, WellFormed(d), NEW n \in Nat, NEW l \in Above(call.path), IsDir(d, l),
         call.path \in Paths, Len(l) = Len(call.path) - 1 - n,
         NEW q \in Above(call.path), Len(q) < Len(call.path) - n
  PROVE IsDir(d, q)
<1>1. /\ l \in Paths /\ q \in Paths /\ IsPrefix(l, call.path) /\ IsPrefix(q, call.path)
      /\ Len(l) \in Nat /\ Len(q) \in Nat /\ Len(call.path) \in Nat
  BY PathType DEF Above, IsStrictPrefix
<1>2. Len(q) <= Len(l)
  BY <1>1
<1>3. IsPrefix(q, l)
  <2>1. IsPrefix(q, l) \/ IsPrefix(l, q)
    BY <1>1, PrefixOrder
  <2>2. IsPrefix(l, q) => Len(l) <= Len(q)
    BY <1>1, PrefixMeans
  <2>3. IsPrefix(l, q) => Len(l) = Len(q)
    BY <1>1, <1>2, <2>2
  <2>4. IsPrefix(l, q) => l = q
    BY <1>1, <2>3, PrefixOrder
  <2> QED BY <1>1, <2>1, <2>4, PrefixOrder
<1>4. CASE q = l
  BY <1>4
<1>5. CASE q # l
  <2>1. Exists(d, l) /\ q \in Above(l)
    BY <1>1, <1>3, <1>5, DiskParts DEF Above, IsStrictPrefix
  <2> QED BY <1>1, <2>1 DEF WellFormed
<1> QED BY <1>4, <1>5

(* What Mkdir knows, without the names of its steps. *)
LEMMA MkdirKnows ==
  ASSUME Going, pc \in {"stat parents", "make parent", "make leaf", "stat leaf"}
  PROVE /\ Making /\ Parents(seen.todo) /\ call.op = "mkdir" /\ call.path # Root
        /\ seen \in SeenType /\ seen.todo \in Seq(EntryType)
        /\ pc = "stat parents" => \A x \in Elements(seen.todo) : ~Exists(disk, x.path)
        /\ pc # "stat parents" => Ready(disk, seen.todo)
        /\ pc \in {"make leaf", "stat leaf"} => seen.todo = << >>
        /\ pc = "stat leaf" => Exists(disk, call.path)
        /\ pc = "make parent" => seen.todo # << >>
<1>1. Knows /\ ControlInv
  BY GoingFacts
<1>2. call.op = "mkdir" /\ seen \in SeenType /\ (pc = "make parent" => seen.todo # << >>)
  BY <1>1 DEF ControlInv, Fits
<1>3. seen.todo \in Seq(EntryType)
  BY <1>2 DEF SeenType
<1> QED BY <1>1, <1>2, <1>3 DEF Knows, KnowsMkdir, Making

(* While directories are made, no file is in the way and the root is there. *)
LEMMA MakingMeans ==
  ASSUME Going, Making
  PROVE /\ IsDir(disk, Root) /\ \A q \in Above(call.path) : ~IsFile(disk, q)
        /\ call.op = "mkdir" /\ ~IsFile(disk, call.path) => Permitted(View(before), call)
<1>0. /\ disk \in Disks /\ before \in Disks /\ WellFormed(before) /\ call \in CallSet
      /\ call.path \in Paths /\ Root \in Paths
  BY GoingFacts
<1>1. View(disk)[Root] = Directory
  BY <1>0 DEF Making
<1>2. IsDir(disk, Root)
  BY <1>0, <1>1, ViewMeans
<1>3. ASSUME NEW q \in Above(call.path) PROVE ~IsFile(disk, q)
  <2>1. q \in Paths
    BY DEF Above
  <2>2. ~AsFile(View(disk)[q]) \/ View(disk)[q] = Directory
    BY <2>1 DEF Making
  <2>3. ~AsFile(Directory)
    BY DEF AsFile, Directory, File
  <2> QED BY <1>0, <2>1, <2>2, <2>3, ViewMeans
<1>4. ASSUME call.op = "mkdir", ~IsFile(disk, call.path) PROVE Permitted(View(before), call)
  <2>1. call.path \notin Above(call.path)
    BY DEF Above, IsStrictPrefix
  <2>2. View(disk)[call.path] = View(before)[call.path]
    BY <1>0, <2>1 DEF Making
  <2>3. ~IsFile(before, call.path)
    BY <1>0, <1>4, <2>2, ViewMeans
  <2>4. ASSUME NEW q \in Above(call.path) PROVE ~IsFile(before, q)
    <3>1. q \in Paths /\ ~AsFile(View(before)[q])
      BY DEF Above, Making
    <3> QED BY <1>0, <3>1, ViewMeans
  <2>5. IsDir(before, Root)
    BY <1>0, ViewMeans DEF Making
  <2> QED BY <1>0, <1>4, <2>3, <2>4, <2>5, PermittedMeans
<1> QED BY <1>2, <1>3, <1>4

(* The search upwards: it meets the root at the latest.                    *)
LEMMA GoesByStatParents == ASSUME Going, StatParents PROVE Goes'
<1> DEFINE s == seen.todo
<1>0. /\ disk' = disk /\ call' = call /\ before' = before /\ pc = "stat parents"
      /\ disk \in Disks /\ WellFormed(disk) /\ call.path \in Paths
  BY GoingFacts DEF StatParents, Looks
<1>1. /\ Making /\ Parents(s) /\ call.path # Root /\ s \in Seq(EntryType) /\ seen \in SeenType
      /\ \A x \in Elements(s) : ~Exists(disk, x.path)
  BY <1>0, MkdirKnows
<1>2. /\ IsDir(disk, Root) /\ Exists(disk, Root) /\ \A q \in Above(call.path) : ~IsFile(disk, q)
  <2>1. Root \in Paths
    BY DiskAssumption DEF Root
  <2> QED BY <1>0, <1>1, <2>1, MakingMeans, DiskParts
<1>3. s # << >> => Head(s).path # Root
  BY <1>1, <1>2, ElementsOfTail
<1>4. Lowest \in Above(call.path) /\ Len(Lowest) = Len(call.path) - 1 - Len(s) /\ Lowest \in Paths
  BY <1>0, <1>1, <1>3, LowestMeans DEF Lowest, Above
<1>5. ~IsFile(disk, Lowest)
  BY <1>2, <1>4
<1> HIDE DEF s
<1>6. Making'
  BY <1>0, <1>1 DEF Making
<1>7. CASE ~Exists(disk, Lowest)
  <2> DEFINE t == <<Entry(Lowest)>> \o s
  <2>1. pc' = "stat parents" /\ seen' = [seen EXCEPT !.todo = t]
    BY <1>5, <1>7 DEF StatParents, Goto, s
  <2>2. seen'.todo = t
    BY <1>1, <2>1 DEF SeenType
  <2>3. Entry(Lowest) \in EntryType /\ Entry(Lowest).path = Lowest
    BY <1>4 DEF Entry, EntryType
  <2>4. Parents(t)
    BY <1>0, <1>1, <1>4, <2>3, ParentsMore
  <2>5. \A x \in Elements(t) : ~Exists(disk, x.path)
    <3>1. Elements(t) = {Entry(Lowest)} \cup Elements(s)
      BY <1>1, <2>3, ElementsOfOne, ElementsOfConcat
    <3> QED BY <1>1, <1>7, <2>3, <3>1
  <2> HIDE DEF t
  <2>6. Parents(seen.todo)' /\ \A x \in Elements(seen'.todo) : ~Exists(disk', x.path)
    BY <1>0, <2>2, <2>4, <2>5 DEF Parents
  <2>7. KnowsMkdir'
    BY <1>6, <2>1, <2>6 DEF KnowsMkdir
  <2> QED BY <2>1, <2>7, KnowsParts, Onward
<1>8. CASE Exists(disk, Lowest)
  <2>1. IsDir(disk, Lowest)
    BY <1>5, <1>8 DEF IsFile
  <2>2. pc' = (IF s = << >> THEN "make leaf" ELSE "make parent") /\ seen' = seen
    BY <1>5, <1>8 DEF StatParents, Goto, s
  <2>3. Len(s) \in Nat
    BY <1>1, LenProperties
  <2>4. Ready(disk, s)
    BY <1>0, <1>4, <2>1, <2>3, ReadyFrom DEF Ready
  <2>5. Parents(seen.todo)' /\ Ready(disk, seen.todo)'
    BY <1>0, <1>1, <2>2, <2>4 DEF Parents, Ready, s
  <2>6. KnowsMkdir'
    BY <1>6, <2>2, <2>5 DEF KnowsMkdir, s
  <2> QED BY <2>2, <2>6, KnowsParts, Onward
<1> QED BY <1>7, <1>8

(* A directory that is made is a directory, and nothing else changes.      *)
LEMMA MakeShows ==
  ASSUME disk \in Disks, WellFormed(disk), NEW p \in Paths, CanCreate(disk, p),
         Sets(Create(disk, p, FreeInode(disk, Open), TRUE))
  PROVE /\ disk' \in Disks /\ WellFormed(disk') /\ IsDir(disk', p) /\ View(disk')[p] = Directory
        /\ \A r \in Paths \ {p} : View(disk')[r] = View(disk)[r]
<1> DEFINE i == FreeInode(disk, Open)
<1>1. disk' = Create(disk, p, i, TRUE) /\ ~Exists(disk, p)
  BY DEF Sets, CanCreate
<1>2. i \in Inodes /\ \A r \in Paths : disk.tree[r] # i
  BY <1>1, FreeInodeFound DEF Open
<1> HIDE DEF i
<1>3. /\ disk' \in Disks /\ WellFormed(disk') /\ IsDir(disk', p)
      /\ \A r \in Paths : r # p => SameAt(disk, disk', r)
  BY <1>1, <1>2, CreateKeeps
<1> QED BY <1>3, SameLooksSame, ViewMeans

(* One parent after the other, downwards.                                  *)
LEMMA GoesByMakeParent == ASSUME Going, MakeParent PROVE Goes'
<1> DEFINE s == seen.todo
           p == Head(s).path
<1>0. /\ call' = call /\ before' = before /\ pc = "make parent" /\ before \in Disks
      /\ disk \in Disks /\ WellFormed(disk) /\ call.path \in Paths
  BY GoingFacts DEF MakeParent
<1>1. /\ Making /\ Parents(s) /\ s \in Seq(EntryType) /\ seen \in SeenType /\ s # << >>
      /\ Ready(disk, s) /\ call.path # Root
  BY <1>0, MkdirKnows
<1>2. /\ IsDir(disk, Root) /\ \A q \in Above(call.path) : ~IsFile(disk, q)
  BY <1>1, MakingMeans
<1>3. /\ Parents(Tail(s)) /\ p \in Above(call.path) /\ p \in Paths
      /\ Len(p) = Len(call.path) - Len(s) /\ Len(p) = Len(call.path) - 1 - Len(Tail(s))
      /\ Len(Tail(s)) \in Nat
  BY <1>0, <1>1, ParentsTail, TailMeans, LenProperties DEF Above
<1> HIDE DEF s, p
<1>4. IsDir(disk, p) \/ CanCreate(disk, p)
  <2>1. CASE p = Root
    BY <1>2, <2>1
  <2>2. CASE p # Root
    <3>1. Front(p) \in Paths /\ IsPrefix(Front(p), p) /\ Len(p) = Len(Front(p)) + 1
      BY <1>3, <2>2, FrontPath
    <3>2. IsPrefix(p, call.path) /\ p # call.path
      BY <1>3 DEF Above, IsStrictPrefix
    <3>3. Front(p) \in Above(call.path)
      BY <1>0, <1>3, <2>2, <3>1, <3>2, PrefixOrder, FrontPath DEF Above, IsStrictPrefix
    <3>4. Len(Front(p)) < Len(call.path) - Len(s)
      <4>1. Len(Front(p)) \in Nat
        BY <3>1, PathType
      <4> QED BY <1>3, <3>1, <4>1
    <3>5. IsDir(disk, Front(p))
      BY <1>1, <3>3, <3>4 DEF Ready
    <3> QED BY <1>2, <1>3, <2>2, <3>5 DEF CanCreate, IsFile
  <2> QED BY <2>1, <2>2
<1>5. /\ Goto(IF Len(s) = 1 THEN "make leaf" ELSE "make parent", [seen EXCEPT !.todo = Tail(@)])
      /\ \/ CanCreate(disk, p) /\ Sets(Create(disk, p, FreeInode(disk, Open), TRUE))
         \/ IsDir(disk, p) /\ Looks
  <2>1. Exists(disk, p) \/ CanCreate(disk, p)
    BY <1>0, <1>3, <1>4, DiskParts
  <2>2. ~IsFile(disk, p)
    BY <1>2, <1>3
  <2> QED BY <2>1, <2>2 DEF MakeParent, s, p
<1>6. pc' = (IF Len(s) = 1 THEN "make leaf" ELSE "make parent") /\ seen'.todo = Tail(s)
  BY <1>1, <1>5 DEF Goto, SeenType, s
<1>7. Len(s) = 1 => Tail(s) = << >>
  <2>1. Len(s) = 1 => Len(Tail(s)) = 0 /\ Tail(s) \in Seq(EntryType)
    BY <1>1, TailMeans
  <2> QED BY <2>1, EmptySeq
<1>8. /\ disk' \in Disks /\ WellFormed(disk') /\ IsDir(disk', p)
      /\ \A r \in Paths : View(disk')[r] = View(disk)[r] \/ (r = p /\ View(disk')[r] = Directory)
  <2>1. CASE CanCreate(disk, p) /\ Sets(Create(disk, p, FreeInode(disk, Open), TRUE))
    BY <1>0, <1>3, <2>1, MakeShows
  <2>2. CASE IsDir(disk, p) /\ Looks
    BY <1>0, <2>2 DEF Looks
  <2> QED BY <1>5, <2>1, <2>2
<1>9. Making'
  <2>1. \A r \in Paths : \/ View(disk')[r] = View(before)[r]
                         \/ r \in Above(call.path) /\ View(disk')[r] = Directory
    BY <1>1, <1>3, <1>8 DEF Making
  <2> QED BY <1>0, <1>1, <2>1 DEF Making
<1>10. Ready(disk', Tail(s))
  BY <1>0, <1>3, <1>8, ReadyFrom DEF Ready
<1>11. Parents(seen.todo)' /\ Ready(disk, seen.todo)'
  BY <1>0, <1>3, <1>6, <1>10 DEF Parents, Ready
<1>12. KnowsMkdir'
  BY <1>6, <1>7, <1>9, <1>11 DEF KnowsMkdir
<1> QED BY <1>6, <1>12, KnowsParts, Onward

(* What is left when the directory is there, and all above it. *)
LEMMA MadeAll ==
  ASSUME Going, Making, call.op = "mkdir", ~IsFile(disk, call.path), Ready(disk, << >>),
         NEW code \in {"ok", "existed"}, Return(code, 0, {}), disk' \in Disks,
         View(disk')[call.path] = Directory,
         \A r \in Paths \ {call.path} : View(disk')[r] = View(disk)[r]
  PROVE Goes'
<1>0. /\ disk \in Disks /\ before \in Disks /\ call \in CallSet /\ call.path \in Paths
  BY GoingFacts
<1>1. Permitted(View(before), call)
  BY MakingMeans
<1>2. ASSUME NEW q \in Above(call.path) PROVE q \in Paths /\ q # call.path /\ View(disk)[q] = Directory
  <2>1. q \in Paths /\ IsPrefix(q, call.path) /\ q # call.path
    BY DEF Above, IsStrictPrefix
  <2>2. Len(q) < Len(call.path) - Len(<< >>)
    <3>1. Len(q) \in Nat /\ Len(call.path) \in Nat
      BY <1>0, <2>1, PathType
    <3>2. Len(q) <= Len(call.path) /\ Len(q) # Len(call.path)
      BY <1>0, <2>1, PrefixMeans, PrefixOrder
    <3> QED BY <3>1, <3>2
  <2>3. IsDir(disk, q)
    BY <2>2 DEF Ready
  <2> QED BY <1>0, <2>1, <2>3, ViewMeans
<1>3. ASSUME NEW r \in Paths PROVE View(disk')[r] = Left(View(before), call)[r]
  <2>1. View(before) = [p \in Paths |-> View(before)[p]]
    BY <1>0, ViewType
  <2>2. Left(View(before), call)[r] =
          IF r = call.path \/ r \in Above(call.path) THEN Directory ELSE View(before)[r]
    BY <1>0, <2>1, LeftMeans
  <2>3. r \notin Above(call.path) => View(disk)[r] = View(before)[r]
    BY DEF Making
  <2> QED BY <1>2, <2>2, <2>3
<1> QED BY <1>1, <1>3, Granted

(* The directory itself. *)
LEMMA GoesByMakeLeaf == ASSUME Going, MakeLeaf PROVE Goes'
<1>0. /\ call' = call /\ before' = before /\ pc = "make leaf"
      /\ disk \in Disks /\ WellFormed(disk) /\ call.path \in Paths
  BY GoingFacts DEF MakeLeaf
<1>1. /\ Making /\ Parents(seen.todo) /\ Ready(disk, << >>) /\ seen.todo = << >>
      /\ call.path # Root /\ call.op = "mkdir"
  BY <1>0, MkdirKnows
<1>2. CASE CanCreate(disk, call.path) /\ Sets(Create(disk, call.path, FreeInode(disk, Open), TRUE)) /\ Succeed
  <2>1. ~IsFile(disk, call.path) /\ Return("ok", 0, {})
    BY <1>2 DEF CanCreate, IsFile, Succeed
  <2>2. /\ disk' \in Disks /\ View(disk')[call.path] = Directory
        /\ \A r \in Paths \ {call.path} : View(disk')[r] = View(disk)[r]
    BY <1>0, <1>2, MakeShows
  <2> QED BY <1>1, <2>1, <2>2, MadeAll
<1>3. CASE Exists(disk, call.path) /\ Goto("stat leaf", seen) /\ Looks
  <2>1. pc' = "stat leaf" /\ seen' = seen /\ disk' = disk
    BY <1>3 DEF Goto, Looks
  <2>2. Making' /\ Parents(seen.todo)' /\ Ready(disk, seen.todo)' /\ Exists(disk', call.path)
    BY <1>0, <1>1, <1>3, <2>1 DEF Making, Parents, Ready
  <2>3. KnowsMkdir'
    BY <1>0, <1>1, <2>1, <2>2 DEF KnowsMkdir
  <2> QED BY <2>1, <2>3, KnowsParts, Onward
<1>4. Exists(disk, call.path) \/ CanCreate(disk, call.path)
  <2>1. Front(call.path) \in Paths /\ Front(call.path) \in Above(call.path)
        /\ Len(call.path) = Len(Front(call.path)) + 1
    BY <1>0, <1>1, FrontPath DEF Above, IsStrictPrefix
  <2>2. Len(Front(call.path)) < Len(call.path) - Len(<< >>)
    <3>1. Len(Front(call.path)) \in Nat
      BY <2>1, PathType
    <3> QED BY <2>1, <3>1
  <2>3. IsDir(disk, Front(call.path))
    BY <1>1, <2>1, <2>2 DEF Ready
  <2> QED BY <1>1, <2>3 DEF CanCreate
<1> QED BY <1>2, <1>3, <1>4 DEF MakeLeaf

(* Something was there already. *)
LEMMA GoesByStatLeaf == ASSUME Going, StatLeaf PROVE Goes'
<1>0. /\ disk' = disk /\ call' = call /\ before' = before /\ pc = "stat leaf" /\ call \in CallSet
      /\ disk \in Disks /\ call.path \in Paths /\ before \in Disks /\ WellFormed(before)
  BY GoingFacts DEF StatLeaf, Looks
<1>1. /\ Making /\ Ready(disk, << >>) /\ call.op = "mkdir" /\ Exists(disk, call.path)
  BY <1>0, MkdirKnows
<1>2. Source.dir <=> IsDir(disk, call.path)
  BY <1>0, StatType DEF Source
<1>3. CASE IsDir(disk, call.path)
  <2>1. Return("existed", 0, {})
    BY <1>1, <1>2, <1>3 DEF StatLeaf, Fail
  <2>2. ~IsFile(disk, call.path) /\ View(disk')[call.path] = Directory
    BY <1>0, <1>3, ViewMeans DEF IsFile
  <2> QED BY <1>0, <1>1, <2>1, <2>2, MadeAll
<1>4. CASE ~IsDir(disk, call.path)
  <2>1. Fail("unsupported_path_type") /\ IsFile(disk, call.path)
    BY <1>1, <1>2, <1>4 DEF StatLeaf, IsFile
  <2>2. call.path \notin Above(call.path)
    BY DEF Above, IsStrictPrefix
  <2>3. View(disk)[call.path] = View(before)[call.path]
    BY <1>0, <1>1, <2>2 DEF Making
  <2>4. IsFile(before, call.path)
    BY <1>0, <2>1, <2>3, ViewMeans
  <2>5. \A q \in Above(call.path) : IsDir(before, q)
    BY <1>0, <2>4 DEF WellFormed, IsFile
  <2>6. \A q \in Above(call.path) : View(before)[q] = Directory
    BY <1>0, <2>5, ViewMeans DEF Above
  <2>7. \A r \in Paths : View(before)[r] = View(disk)[r]
    BY <1>1, <2>6 DEF Making
  <2>8. View(before) = View(disk)
    BY <1>0, <2>7, SameViews, ViewType
  <2>9. ~Permitted(View(before), call)
    BY <1>0, <1>1, <2>4, PermittedMeans
  <2> QED BY <1>0, <2>1, <2>8, <2>9, Refused
<1> QED BY <1>3, <1>4

(* Move: what every step after the first look can rely on.                 *)
LEMMA MoveSetting ==
  ASSUME Going, call.op = "move", pc \in {"stat target", "compare", "same volume"} \cup Decided
  PROVE /\ disk \in Disks /\ WellFormed(disk) /\ call.path \in Paths /\ call.target \in Paths
        /\ call' = call /\ before' = before /\ View(before) = View(disk) /\ ~IsFile(disk, Root)
        /\ Exists(disk, call.path) /\ call.path # call.target
        /\ seen \in SeenType /\ seen.src = Source
        /\ Target = Stat(disk, call.target)
        /\ Permitted(View(before), call) <=>
             ~IsPrefix(call.path, call.target) /\ PutOn(disk, call.target, call.flag /\ ~IsDir(disk, call.path))
<1>1. /\ disk \in Disks /\ WellFormed(disk) /\ call.path \in Paths /\ call.target \in Paths
      /\ call' = call /\ before' = before /\ ~IsFile(disk, Root) /\ Knows /\ call \in CallSet
      /\ ControlInv
  BY GoingFacts
<1>2. Looking
  BY DEF Looking, Decided
<1>3. View(before) = View(disk)
  BY <1>2, GoingFacts
<1>4. Exists(disk, call.path) /\ call.path # call.target /\ seen.src = Source
  BY <1>1 DEF Knows, KnowsMove
<1>5. seen \in SeenType /\ Target = Stat(disk, call.target)
  BY <1>1 DEF ControlInv, Target, ToCreate
<1> QED BY <1>1, <1>3, <1>4, <1>5, PermittedMeans

(* The stats of the two paths. *)
LEMMA StatsOfMove ==
  ASSUME disk \in Disks, call.path \in Paths, call.target \in Paths, Target = Stat(disk, call.target)
  PROVE /\ Source.dir <=> IsDir(disk, call.path)
        /\ Target.dir <=> IsDir(disk, call.target)
        /\ Source.ino = disk.tree[call.path] /\ Target.ino = disk.tree[call.target]
        /\ Target = NoStat <=> ~Exists(disk, call.target)
        /\ ~StillReachable(call.target) => Missing(disk, call.target) = Internal
<1>1. /\ Source.dir <=> IsDir(disk, call.path)
      /\ Target.dir <=> IsDir(disk, call.target)
      /\ Source.ino = disk.tree[call.path] /\ Target.ino = disk.tree[call.target]
      /\ ~Exists(disk, call.target) => Target = NoStat
  BY StatType DEF Source
<1>2. Target = NoStat => ~Exists(disk, call.target)
  BY <1>1 DEF NoStat, Exists
<1>3. ~StillReachable(call.target) => Missing(disk, call.target) = Internal
  BY DEF StillReachable, Missing
<1> QED BY <1>1, <1>2, <1>3

(* A target that cannot be reached is refused. *)
LEMMA Unreachable ==
  ASSUME Going, call.op = "move", pc \in {"stat target", "compare", "same volume"} \cup Decided,
         Missing(disk, call.target) = Internal, Fail(Internal), disk' = disk
  PROVE Goes'
<1>1. ~PutOn(disk, call.target, call.flag /\ ~IsDir(disk, call.path))
  BY MoveSetting, PutMeans
<1>2. ~Permitted(View(before), call) /\ View(before) = View(disk)
  BY <1>1, MoveSetting
<1> QED BY <1>2, Codings, Refused

(* The first look at the target. *)
LEMMA GoesByMoveStatTarget == ASSUME Going, MoveStatTarget PROVE Goes'
<1>0. call.op = "move" /\ pc = "stat target" /\ disk' = disk
  BY DEF MoveStatTarget, Looks
<1>1. /\ disk \in Disks /\ WellFormed(disk) /\ call.path \in Paths /\ call.target \in Paths
      /\ call' = call /\ Exists(disk, call.path) /\ call.path # call.target
      /\ seen \in SeenType /\ seen.src = Source /\ Target = Stat(disk, call.target)
  BY <1>0, MoveSetting
<1>2. CASE ~Exists(disk, call.target) /\ Missing(disk, call.target) = Internal
  <2>1. Fail(Internal)
    BY <1>2 DEF MoveStatTarget
  <2> QED BY <1>0, <1>2, <2>1, Unreachable
<1>3. CASE ~(~Exists(disk, call.target) /\ Missing(disk, call.target) = Internal)
  <2>1. ~(Exists(disk, call.target) /\ Target.ino = seen.src.ino)
    <3>1. Target.ino = disk.tree[call.target] /\ Source.ino = disk.tree[call.path]
      BY <1>1, StatsOfMove
    <3> QED BY <1>1, <3>1, OneLink
  <2>2. pc' = "compare" /\ seen' = [seen EXCEPT !.dst = Target]
    BY <1>3, <2>1 DEF MoveStatTarget, Goto
  <2>3. seen'.src = Source /\ seen'.dst = Target
    BY <1>1, <2>2 DEF SeenType
  <2>4. Source' = Source /\ Target' = Target
    BY <1>0, <1>1 DEF Source, Target, ToCreate
  <2>5. KnowsMove'
    BY <1>0, <1>1, <2>2, <2>3, <2>4 DEF KnowsMove, Decided
  <2> QED BY <2>2, <2>5, KnowsParts, Onward
<1> QED BY <1>2, <1>3

(* A move that goes on without another look at what it has seen. *)
LEMMA MoveGoesOn ==
  ASSUME Going, call.op = "move", pc \in {"compare", "same volume"} \cup Decided,
         disk' = disk, NEW l \in {"same volume"} \cup Decided, Goto(l, seen),
         ~IsPrefix(call.path, call.target),
         l \in Decided => (Exists(disk, call.target) =>
           call.flag /\ IsFile(disk, call.path) /\ IsFile(disk, call.target))
  PROVE Goes'
<1>1. call' = call /\ Exists(disk, call.path) /\ call.path # call.target /\ seen.src = Source
  BY MoveSetting
<1>2. seen.dst = Target
  BY GoingFacts DEF Knows, KnowsMove
<1>3. pc' = l /\ seen' = seen
  BY DEF Goto
<1>4. Source' = Source /\ Target' = Target
  BY <1>1 DEF Source, Target, ToCreate
<1>5. KnowsMove'
  BY <1>1, <1>2, <1>3, <1>4 DEF KnowsMove, Decided
<1>6. pc' # "idle"
  BY <1>3 DEF Decided
<1> QED BY <1>3, <1>5, <1>6, KnowsParts, Onward

(* Source and target are compared. *)
LEMMA GoesByMoveCompare == ASSUME Going, MoveCompare PROVE Goes'
<1>0. call.op = "move" /\ pc = "compare" /\ disk' = disk
  <2>1. ControlInv
    BY GoingFacts
  <2> QED BY <2>1 DEF MoveCompare, Looks, ControlInv, Fits
<1>1. /\ disk \in Disks /\ WellFormed(disk) /\ call.path \in Paths /\ call.target \in Paths
      /\ Exists(disk, call.path) /\ call.path # call.target /\ View(before) = View(disk)
      /\ seen.src = Source /\ Target = Stat(disk, call.target)
      /\ Permitted(View(before), call) => ~IsPrefix(call.path, call.target)
  BY <1>0, MoveSetting
<1>2. CASE ~StillReachable(call.target)
  <2>1. Fail(Internal)
    BY <1>1, <1>2 DEF MoveCompare, StillThere
  <2>2. Missing(disk, call.target) = Internal
    BY <1>1, <1>2, StatsOfMove
  <2> QED BY <1>0, <2>1, <2>2, Unreachable
<1>3. CASE StillReachable(call.target) /\ seen.src.dir /\ IsStrictPrefix(call.path, call.target)
  <2>1. Fail("invalid_path")
    BY <1>1, <1>3 DEF MoveCompare, StillThere
  <2>2. ~Permitted(View(before), call)
    BY <1>1, <1>3 DEF IsStrictPrefix
  <2> QED BY <1>0, <1>1, <2>1, <2>2, Refused
<1>4. CASE StillReachable(call.target) /\ ~(seen.src.dir /\ IsStrictPrefix(call.path, call.target))
  <2>1. Goto("same volume", seen)
    BY <1>1, <1>4 DEF MoveCompare, StillThere
  <2>2. ASSUME IsPrefix(call.path, call.target) PROVE FALSE
    <3>1. IsStrictPrefix(call.path, call.target)
      BY <1>1, <2>2 DEF IsStrictPrefix
    <3>2. IsFile(disk, call.path)
      BY <1>1, <1>4, <3>1, StatsOfMove DEF IsFile
    <3>3. call.path \in Above(call.target)
      BY <1>1, <3>1 DEF Above
    <3>4. ~Exists(disk, call.target)
      BY <1>1, <3>2, <3>3 DEF WellFormed, IsFile
    <3>5. Missing(disk, call.target) = Internal
      BY <3>2, <3>3 DEF Missing
    <3> QED BY <1>4, <3>4, <3>5 DEF StillReachable, Internal, NotFound
  <2>3. "same volume" \in {"same volume"} \cup Decided /\ "same volume" \notin Decided
    BY DEF Decided
  <2> QED BY <1>0, <2>1, <2>2, <2>3, MoveGoesOn
<1> QED BY <1>2, <1>3, <1>4

(* The policy on what is at the target. *)
LEMMA GoesByMovePolicy == ASSUME Going, MovePolicy PROVE Goes'
<1>0. call.op = "move" /\ pc = "same volume" /\ disk' = disk
  <2>1. ControlInv
    BY GoingFacts
  <2> QED BY <2>1 DEF MovePolicy, Looks, ControlInv, Fits
<1>1. /\ disk \in Disks /\ WellFormed(disk) /\ call.path \in Paths /\ call.target \in Paths
      /\ Exists(disk, call.path) /\ View(before) = View(disk)
      /\ seen.src = Source /\ Target = Stat(disk, call.target)
      /\ Permitted(View(before), call) => PutOn(disk, call.target, call.flag /\ ~IsDir(disk, call.path))
  BY <1>0, MoveSetting
<1>2. seen.dst = Target /\ ~IsPrefix(call.path, call.target)
  BY <1>0, GoingFacts DEF Knows, KnowsMove
<1>3. /\ seen.src.dir <=> IsDir(disk, call.path)
      /\ seen.dst.dir <=> IsDir(disk, call.target)
      /\ seen.dst = NoStat <=> ~Exists(disk, call.target)
  BY <1>1, <1>2, StatsOfMove
<1>4. CASE ~StillReachable(call.target)
  <2>1. Fail(Internal)
    BY <1>1, <1>4 DEF MovePolicy, StillThere
  <2>2. Missing(disk, call.target) = Internal
    BY <1>1, <1>4, StatsOfMove
  <2> QED BY <1>0, <2>1, <2>2, Unreachable
<1>5. CASE StillReachable(call.target) /\ seen.dst # NoStat /\ ~call.flag
  <2>1. Fail("already_exists")
    BY <1>1, <1>5 DEF MovePolicy, StillThere
  <2>2. ~Permitted(View(before), call)
    BY <1>1, <1>3, <1>5 DEF PutOn
  <2> QED BY <1>0, <1>1, <2>1, <2>2, Refused
<1>6. CASE StillReachable(call.target) /\ seen.dst # NoStat /\ call.flag /\ (seen.src.dir \/ seen.dst.dir)
  <2>1. Fail("unsupported_path_type")
    BY <1>1, <1>6 DEF MovePolicy, StillThere
  <2>2. ~Permitted(View(before), call)
    BY <1>1, <1>3, <1>6 DEF PutOn, IsFile
  <2> QED BY <1>0, <1>1, <2>1, <2>2, Refused
<1>7. CASE StillReachable(call.target) /\ (seen.dst = NoStat \/ (call.flag /\ ~seen.src.dir /\ ~seen.dst.dir))
  <2>1. Goto("revalidate source", seen)
    BY <1>1, <1>7 DEF MovePolicy, StillThere
  <2>2. Exists(disk, call.target) => call.flag /\ IsFile(disk, call.path) /\ IsFile(disk, call.target)
    BY <1>1, <1>3, <1>7 DEF IsFile
  <2>3. "revalidate source" \in {"same volume"} \cup Decided
    BY DEF Decided
  <2> QED BY <1>0, <1>2, <2>1, <2>2, <2>3, MoveGoesOn
<1>8. call.flag \in BOOLEAN
  BY GoingFacts, CallType
<1> QED BY <1>4, <1>5, <1>6, <1>7

(* What a move knows once the policy has let it pass. *)
LEMMA DecidedKnows ==
  ASSUME Going, pc \in Decided
  PROVE /\ call.op = "move" /\ seen.dst = Target /\ ~IsPrefix(call.path, call.target)
        /\ Exists(disk, call.target) =>
             call.flag /\ IsFile(disk, call.path) /\ IsFile(disk, call.target)
<1>1. Knows /\ ControlInv
  BY GoingFacts
<1>2. call.op = "move"
  BY <1>1 DEF Decided, ControlInv, Fits
<1> QED BY <1>1, <1>2 DEF Knows, KnowsMove

(* The second looks find what the first have found. *)
LEMMA GoesByRevalidate == ASSUME Going, RevalidateSource \/ RevalidateTarget \/ RenameLooks PROVE Goes'
<1>0. disk' = disk /\ pc \in Decided
  BY DEF RevalidateSource, RevalidateTarget, RenameLooks, Looks, LooksAnew, Decided
<1>1. /\ call.op = "move" /\ seen.dst = Target /\ ~IsPrefix(call.path, call.target)
      /\ Exists(disk, call.target) =>
           call.flag /\ IsFile(disk, call.path) /\ IsFile(disk, call.target)
  BY <1>0, DecidedKnows
<1>2. /\ disk \in Disks /\ WellFormed(disk) /\ call.path \in Paths /\ call.target \in Paths
      /\ Exists(disk, call.path) /\ call.path # call.target
      /\ seen.src = Source /\ Target = Stat(disk, call.target)
  BY <1>0, <1>1, MoveSetting
<1>3. {"revalidate target", "lstat target", "rename"} \subseteq {"same volume"} \cup Decided
  BY DEF Decided
<1>4. CASE RevalidateSource
  <2>1. SameEntry(Source, seen.src)
    BY <1>2 DEF SameEntry
  <2>2. Goto("revalidate target", seen)
    BY <1>2, <1>4, <2>1 DEF RevalidateSource
  <2> QED BY <1>0, <1>1, <1>3, <2>2, MoveGoesOn
<1>5. CASE RevalidateTarget
  <2>1. CASE ~StillReachable(call.target)
    <3>1. Fail(Internal)
      BY <1>5, <2>1 DEF RevalidateTarget
    <3>2. Missing(disk, call.target) = Internal
      BY <1>2, <2>1, StatsOfMove
    <3> QED BY <1>0, <1>1, <3>1, <3>2, Unreachable
  <2>2. CASE StillReachable(call.target)
    <3>1. Target.ino = disk.tree[call.target] /\ Source.ino = disk.tree[call.path]
          /\ (Target = NoStat => ~Exists(disk, call.target))
      BY <1>2, StatsOfMove
    <3>2. Target.ino # seen.src.ino
      BY <1>2, <3>1, OneLink
    <3>3. TargetUnchanged
      BY <1>1, <3>1, <3>2 DEF TargetUnchanged, SameEntry
    <3>4. Goto("lstat target", seen)
      BY <1>5, <2>2, <3>3 DEF RevalidateTarget
    <3> QED BY <1>0, <1>1, <1>3, <3>4, MoveGoesOn
  <2> QED BY <2>1, <2>2
<1>6. CASE RenameLooks
  <2>1. Target.dir <=> IsDir(disk, call.target)
    BY <1>2, StatsOfMove
  <2>2. ~Target.dir
    BY <1>1, <1>2, <2>1, DiskParts DEF IsFile
  <2>3. Goto("rename", seen)
    BY <1>6, <2>2 DEF RenameLooks
  <2> QED BY <1>0, <1>1, <1>3, <2>3, MoveGoesOn
<1> QED BY <1>4, <1>5, <1>6

(* What is linked elsewhere looks there as it did. *)
LEMMA LooksMoved ==
  ASSUME NEW d \in Disks, NEW e \in Disks, NEW r \in Paths, NEW o \in Paths,
         e.tree[r] = d.tree[o], IsDir(e, r) <=> IsDir(d, o), e.size = d.size
  PROVE View(e)[r] = View(d)[o]
<1>1. Exists(e, r) <=> Exists(d, o)
  BY DEF Exists
<1> QED BY <1>1 DEF View

(* A rename shows what was below one path below the other. *)
LEMMA RenameShows ==
  ASSUME NEW d \in Disks, WellFormed(d), NEW p \in Paths, NEW q \in Paths, MayRename(d, p, q),
         NEW r \in Paths, NEW e, e = Rename(d, p, q)
  PROVE /\ e \in Disks
        /\ View(e)[r] = IF IsPrefix(q, r)
                        THEN (IF Moved(q, p, r) \in Paths THEN View(d)[Moved(q, p, r)] ELSE Nothing)
                        ELSE IF IsPrefix(p, r) THEN Nothing ELSE View(d)[r]
<1>1. /\ e \in Disks /\ e.size = d.size /\ e.dirs = d.dirs \ ({d.tree[q]} \ {0})
      /\ IsPrefix(q, r) => e.tree[r] = IF Moved(q, p, r) \in Paths THEN d.tree[Moved(q, p, r)] ELSE 0
      /\ IsPrefix(p, r) => e.tree[r] = 0
  BY RenameTree
<1>2. CASE IsPrefix(q, r) /\ Moved(q, p, r) \in Paths
  <2> DEFINE o == Moved(q, p, r)
  <2>1. o \in Paths /\ IsPrefix(p, o)
    BY <1>2, MovedBack
  <2>2. e.tree[r] = d.tree[o]
    BY <1>1, <1>2
  <2> HIDE DEF o
  <2>3. o # q
    BY <2>1, RenameApart DEF MayRename
  <2>4. IsDir(e, r) <=> IsDir(d, o)
    <3>1. CASE Exists(d, o)
      <4>1. d.tree[o] # d.tree[q]
        BY <2>1, <2>3, <3>1, OneLink
      <4> QED BY <1>1, <2>2, <4>1 DEF IsDir
    <3>2. CASE ~Exists(d, o)
      <4>1. ~Exists(e, r)
        BY <2>2, <3>2 DEF Exists
      <4> QED BY <1>1, <2>1, <3>2, <4>1, DiskParts
    <3> QED BY <3>1, <3>2
  <2>5. View(e)[r] = View(d)[o]
    BY <1>1, <2>1, <2>2, <2>4, LooksMoved
  <2> QED BY <1>1, <1>2, <2>5 DEF o
<1>3. CASE IsPrefix(q, r) /\ Moved(q, p, r) \notin Paths
  <2>1. ~Exists(e, r)
    BY <1>1, <1>3 DEF Exists
  <2> QED BY <1>1, <1>3, <2>1, ViewMeans
<1>4. CASE ~IsPrefix(q, r) /\ IsPrefix(p, r)
  <2>1. ~Exists(e, r)
    BY <1>1, <1>4 DEF Exists
  <2> QED BY <1>1, <1>4, <2>1, ViewMeans
<1>5. CASE ~IsPrefix(q, r) /\ ~IsPrefix(p, r)
  <2>1. SameAt(d, e, r)
    BY <1>5, RenameKeeps
  <2> QED BY <1>1, <1>5, <2>1, SameLooksSame
<1> QED BY <1>2, <1>3, <1>4, <1>5

(* The rename takes place exactly when the call may. *)
LEMMA GoesByMoveRename == ASSUME Going, MoveRename PROVE Goes'
<1>0. pc \in Decided
  BY DEF MoveRename, Decided
<1>1. /\ call.op = "move" /\ ~IsPrefix(call.path, call.target)
      /\ Exists(disk, call.target) =>
           call.flag /\ IsFile(disk, call.path) /\ IsFile(disk, call.target)
  BY <1>0, DecidedKnows
<1>2. /\ disk \in Disks /\ WellFormed(disk) /\ call.path \in Paths /\ call.target \in Paths
      /\ Exists(disk, call.path) /\ View(before) = View(disk) /\ ~IsFile(disk, Root)
      /\ Permitted(View(before), call) <=>
           ~IsPrefix(call.path, call.target) /\ PutOn(disk, call.target, call.flag /\ ~IsDir(disk, call.path))
  BY <1>0, <1>1, MoveSetting
<1>3. call \in CallSet
  BY GoingFacts
<1>4. CASE CanRename(call.path, call.target)
  <2>1. disk' = Rename(disk, call.path, call.target) /\ Return("ok", 0, {})
    BY <1>4 DEF MoveRename, Sets, Succeed
  <2>2. PutOn(disk, call.target, call.flag /\ ~IsDir(disk, call.path))
    <3>1. CASE Exists(disk, call.target)
      <4>1. call.target # Root /\ IsDir(disk, Front(call.target)) /\ ~IsDir(disk, call.path)
        BY <1>1, <1>2, <3>1, PutMeans DEF IsFile
      <4> QED BY <1>1, <3>1, <4>1 DEF PutOn
    <3>2. CASE ~Exists(disk, call.target)
      <4>1. CanCreate(disk, call.target)
        BY <1>2, <1>4, <3>2, DiskParts DEF CanRename, IsFile, IsEmptyDir
      <4> QED BY <3>2, <4>1 DEF PutOn, CanCreate
    <3> QED BY <3>1, <3>2
  <2>3. MayRename(disk, call.path, call.target)
    <3>1. Renamable(disk, call.path, call.target)
      BY <1>4 DEF CanRename, Renamable
    <3>2. ~IsPrefix(call.target, call.path)
      BY <1>2, <3>1, RenameApart
    <3>3. HasRoom(call)
      BY <1>3, CallType
    <3>4. \A r \in Below(call.path) : Moved(call.path, call.target, r) \in Paths
      BY <1>1, <3>2, <3>3 DEF HasRoom, Moved
    <3> QED BY <3>1, <3>4 DEF MayRename
  <2>4. disk' \in Disks
    BY <1>2, <2>1, <2>3, RenameShows
  <2>5. ASSUME NEW r \in Paths PROVE View(disk')[r] = Left(View(before), call)[r]
    <3>1. View(before) = [s \in Paths |-> View(before)[s]]
      BY <1>2, ViewType
    <3>2. Left(View(before), call)[r] =
            IF IsPrefix(call.target, r)
            THEN (IF Moved(call.target, call.path, r) \in Paths
                  THEN View(before)[Moved(call.target, call.path, r)] ELSE Nothing)
            ELSE IF IsPrefix(call.path, r) THEN Nothing ELSE View(before)[r]
      BY <1>1, <1>3, <3>1, LeftMeans
    <3>3. View(disk')[r] =
            IF IsPrefix(call.target, r)
            THEN (IF Moved(call.target, call.path, r) \in Paths
                  THEN View(disk)[Moved(call.target, call.path, r)] ELSE Nothing)
            ELSE IF IsPrefix(call.path, r) THEN Nothing ELSE View(disk)[r]
      BY <1>2, <2>1, <2>3, RenameShows
    <3> QED BY <1>2, <3>2, <3>3
  <2> QED BY <1>1, <1>2, <2>1, <2>2, <2>4, <2>5, Granted
<1>5. CASE ~CanRename(call.path, call.target)
  <2>1. Fail(RenameError) /\ disk' = disk
    BY <1>5 DEF MoveRename, Looks
  <2>2. ~Exists(disk, call.target) /\ ~CanCreate(disk, call.target)
    BY <1>1, <1>2, <1>5 DEF CanRename
  <2>3. ~PutOn(disk, call.target, call.flag /\ ~IsDir(disk, call.path))
    BY <1>2, <2>2, PutMeans
  <2>4. RenameError \notin {"ok", "existed"}
    BY Codings DEF RenameError
  <2> QED BY <1>2, <2>1, <2>3, <2>4, Refused
<1> QED BY <1>4, <1>5

(* Whatever the step, what a call that goes on alone knows is enough.      *)
LEMMA GoesByWork == ASSUME Going PROVE Goes'
<1>1. ResolveExisting \/ ResolveForCreate \/ StatSource => Goes'
  BY GoesByResolveExisting, GoesByResolveForCreate, GoesByStatSource
<1>2. CopyStatTarget \/ OpenSource \/ OpenTarget => Goes'
  BY GoesByCopyStatTarget, GoesByOpenSource, GoesByOpenTarget
<1>3. WriteContent \/ CopyContent \/ ReadFile => Goes'
  BY GoesByWriteContent, GoesByCopyContent, GoesByReadFile
<1>4. StatParents \/ MakeParent \/ MakeLeaf \/ StatLeaf => Goes'
  BY GoesByStatParents, GoesByMakeParent, GoesByMakeLeaf, GoesByStatLeaf
<1>5. ReadNames \/ ListEntry \/ RemovePath => Goes'
  BY GoesByReadNames, GoesByListEntry, GoesByRemovePath
<1>6. WalkRoot \/ Walk \/ RemoveAllStep \/ RemoveAllGone \/ RemoveAllRaced => Goes'
  BY GoesByWalkRoot, GoesByWalk, GoesByRemoveAllStep, GoesByRemoveAllEnds
<1>7. \/ MoveStatTarget \/ MoveCompare \/ MovePolicy
      \/ RevalidateSource \/ RevalidateTarget \/ RenameLooks \/ MoveRename
      => Goes'
  BY GoesByMoveStatTarget, GoesByMoveCompare, GoesByMovePolicy, GoesByRevalidate, GoesByMoveRename
<1> QED BY <1>1, <1>2, <1>3, <1>4, <1>5, <1>6, <1>7 DEF Going, Work

(* No change of the disk puts a file where the root is.                    *)
LEMMA RootStays ==
  ASSUME NEW d \in Disks, WellFormed(d), ~IsFile(d, Root)
  PROVE /\ \A p \in Paths, i \in Inodes, isDir \in BOOLEAN :
             CanCreate(d, p) /\ (\A r \in Paths : d.tree[r] # i) => ~IsFile(Create(d, p, i, isDir), Root)
        /\ \A p \in Paths : IsFile(d, p) \/ IsEmptyDir(d, p) => ~IsFile(Unlink(d, p), Root)
        /\ \A p, q \in Paths : MayRename(d, p, q) => ~IsFile(Rename(d, p, q), Root)
<1>0. Root \in Paths
  BY DiskAssumption DEF Root
<1>1. ASSUME NEW e, SameAt(d, e, Root) PROVE ~IsFile(e, Root)
  BY <1>1 DEF SameAt, IsFile, Exists
<1>2. ASSUME NEW p \in Paths, NEW i \in Inodes, NEW isDir \in BOOLEAN, CanCreate(d, p),
             \A r \in Paths : d.tree[r] # i
      PROVE ~IsFile(Create(d, p, i, isDir), Root)
  <2>1. p # Root
    BY <1>2 DEF CanCreate
  <2>2. SameAt(d, Create(d, p, i, isDir), Root)
    BY <1>0, <1>2, <2>1, CreateKeeps
  <2> QED BY <1>1, <2>2
<1>3. ASSUME NEW p \in Paths, IsFile(d, p) \/ IsEmptyDir(d, p)
      PROVE ~IsFile(Unlink(d, p), Root)
  <2>1. ~Exists(Unlink(d, p), p) /\ (p # Root => SameAt(d, Unlink(d, p), Root))
    BY <1>0, <1>3, UnlinkKeeps
  <2> QED BY <1>1, <2>1 DEF IsFile
<1>4. ASSUME NEW p \in Paths, NEW q \in Paths, MayRename(d, p, q)
      PROVE ~IsFile(Rename(d, p, q), Root)
  <2>1. ~IsPrefix(p, q) /\ ~IsPrefix(q, p)
    BY <1>4, RenameApart DEF MayRename
  <2>2. p # Root /\ q # Root
    BY <2>1, PrefixOrder
  <2>3. ~IsPrefix(p, Root) /\ ~IsPrefix(q, Root)
    BY <1>0, <2>2, PrefixOrder
  <2>4. SameAt(d, Rename(d, p, q), Root)
    BY <1>0, <1>4, <2>3, RenameKeeps
  <2> QED BY <1>1, <2>4
<1> QED BY <1>2, <1>3, <1>4

(* Nor does a change of what is in a file. *)
LEMMA RootStored ==
  ASSUME NEW d \in Disks, NEW i, NEW n, ~IsFile(d, Root)
  PROVE ~IsFile(Store(d, i, n), Root)
<1>1. Store(d, i, n).tree = d.tree /\ Store(d, i, n).dirs = d.dirs
  BY DiskParts DEF Store
<1> QED BY <1>1 DEF IsFile, Exists, IsDir

(* The steps of a call leave the root as it is, or take it away. *)
LEMMA RootByWork ==
  ASSUME ControlInv, DiskInv, HistoryInv, ~IsFile(disk, Root), Work \/ Break
  PROVE ~IsFile(disk', Root)
<1>1. disk \in Disks /\ WellFormed(disk)
  BY DEF DiskInv
<1>2. Keeps \/ Made \/ Truncated \/ Wrote \/ Removed \/ Renamed
  BY WorkEffect
<1>3. CASE Keeps
  BY <1>3 DEF Keeps
<1>4. CASE Made
  <2>1. PICK p \in Paths, i \in Inodes, isDir \in BOOLEAN :
          /\ CanCreate(disk, p) /\ \A r \in Paths : disk.tree[r] # i
          /\ disk' = Create(disk, p, i, isDir)
    BY <1>4 DEF Made
  <2> QED BY <1>1, <2>1, RootStays
<1>5. CASE Truncated
  <2>1. disk' = Store(disk, disk.tree[ToCreate], 0)
    BY <1>5 DEF Truncated
  <2> QED BY <1>1, <2>1, RootStored
<1>6. CASE Wrote
  <2>1. PICK n \in Sizes : disk' = Store(disk, seen.file, n)
    BY <1>6 DEF Wrote
  <2> QED BY <1>1, <2>1, RootStored
<1>7. CASE Removed
  <2>1. PICK p \in Below(call.path) : Removable(p) /\ disk' = Unlink(disk, p)
    BY <1>7 DEF Removed
  <2>2. p \in Paths /\ (IsFile(disk, p) \/ IsEmptyDir(disk, p))
    BY <2>1 DEF Below, Removable
  <2> QED BY <1>1, <2>1, <2>2, RootStays
<1>8. CASE Renamed
  <2>1. MayRename(disk, call.path, call.target) /\ disk' = Rename(disk, call.path, call.target)
    BY <1>8 DEF Renamed
  <2> QED BY <1>1, <2>1, PathsOfCall, RootStays
<1> QED BY <1>2, <1>3, <1>4, <1>5, <1>6, <1>7, <1>8

(* The other process leaves its traces, and the root alone. *)
LEMMA OthersTraced ==
  ASSUME DiskInv, Others, ~IsFile(disk, Root)
  PROVE /\ touched' # {} /\ ~IsFile(disk', Root) /\ pc # "idle"
        /\ UNCHANGED <<call, pc, seen, result, before, faulted, again, calls>>
<1>1. disk \in Disks /\ WellFormed(disk)
  BY DEF DiskInv
<1>2. ASSUME NEW ps, NEW d, Interfere(ps, d), ps # {}, ~IsFile(d, Root)
      PROVE /\ touched' # {} /\ ~IsFile(disk', Root) /\ pc # "idle"
            /\ UNCHANGED <<call, pc, seen, result, before, faulted, again, calls>>
  BY <1>2 DEF Interfere
<1>3. ASSUME NEW p \in Paths, ForeignCreate(p)
      PROVE \E ps, d : Interfere(ps, d) /\ ps # {} /\ ~IsFile(d, Root)
  <2> DEFINE i == FreeInode(disk, Open)
  <2>1. CanCreate(disk, p)
    BY <1>3 DEF ForeignCreate
  <2>2. i \in Inodes /\ \A r \in Paths : disk.tree[r] # i
    BY <1>1, <2>1, FreeInodeFound DEF CanCreate, Open
  <2>3. \/ Interfere({p}, Create(disk, p, i, TRUE))
        \/ \E n \in Sizes : Interfere({p}, Store(Create(disk, p, i, FALSE), i, n))
    BY <1>3 DEF ForeignCreate
  <2> HIDE DEF i
  <2>4. ~IsFile(Create(disk, p, i, TRUE), Root) /\ ~IsFile(Create(disk, p, i, FALSE), Root)
        /\ Create(disk, p, i, FALSE) \in Disks
    BY <1>1, <2>1, <2>2, RootStays, CreateKeeps
  <2>5. \A n : ~IsFile(Store(Create(disk, p, i, FALSE), i, n), Root)
    BY <2>4, RootStored
  <2> QED BY <2>3, <2>4, <2>5
<1>4. ASSUME NEW p \in Paths, ForeignRemove(p)
      PROVE \E ps, d : Interfere(ps, d) /\ ps # {} /\ ~IsFile(d, Root)
  <2>1. Interfere({p}, Unlink(disk, p)) /\ (IsFile(disk, p) \/ IsEmptyDir(disk, p))
    BY <1>4 DEF ForeignRemove, Removable
  <2> QED BY <1>1, <2>1, RootStays
<1>5. ASSUME NEW p \in Paths, ForeignWrite(p)
      PROVE \E ps, d : Interfere(ps, d) /\ ps # {} /\ ~IsFile(d, Root)
  <2>1. PICK n \in Sizes : Interfere({p}, Store(disk, disk.tree[p], n))
    BY <1>5 DEF ForeignWrite
  <2>2. ~IsFile(Store(disk, disk.tree[p], n), Root)
    BY <1>1, RootStored
  <2> QED BY <2>1, <2>2
<1>6. ASSUME NEW p \in Paths, NEW q \in Paths, ForeignRename(p, q)
      PROVE \E ps, d : Interfere(ps, d) /\ ps # {} /\ ~IsFile(d, Root)
  <2>1. Interfere(Below(p) \cup Below(q), Rename(disk, p, q)) /\ MayRename(disk, p, q)
    BY <1>6 DEF ForeignRename, CanRename, MayRename, Renamable, Moved
  <2>2. ~IsFile(Rename(disk, p, q), Root)
    BY <1>1, <2>1, RootStays
  <2>3. Below(p) \cup Below(q) # {}
    BY PrefixOrder DEF Below
  <2> QED BY <2>1, <2>2, <2>3
<1> QED BY <1>2, <1>3, <1>4, <1>5, <1>6 DEF Others

(* No step of a call that succeeds or goes on is a fault, and none makes   *)
(* the call another one.                                                   *)
LEMMA WorkFaultless == ASSUME Work PROVE faulted' = faulted /\ again' = again
<1>1. ASSUME Looks \/ LooksAnew \/ \E d : Sets(d) PROVE faulted' = faulted /\ again' = again
  BY <1>1 DEF Looks, LooksAnew, Sets, history
<1>2. ResolveExisting \/ ResolveForCreate => Looks
  BY DEF ResolveExisting, ResolveForCreate
<1>3. StatSource \/ RevalidateTarget => LooksAnew
  BY DEF StatSource, RevalidateTarget
<1>4. CopyStatTarget \/ OpenSource \/ ReadFile \/ StatParents \/ StatLeaf => Looks
  BY DEF CopyStatTarget, OpenSource, ReadFile, StatParents, StatLeaf
<1>5. OpenTarget => Looks \/ \E d : Sets(d)
  <2>1. CreateTarget => \E d : Sets(d)
    BY DEF CreateTarget
  <2>2. OpenExisting => Looks \/ \E d : Sets(d)
    BY DEF OpenExisting
  <2> QED BY <2>1, <2>2 DEF OpenTarget
<1>6. WriteContent \/ CopyContent => Looks \/ \E d : Sets(d)
  BY DEF WriteContent, CopyContent
<1>7. MakeParent \/ MakeLeaf => Looks \/ \E d : Sets(d)
  BY DEF MakeParent, MakeLeaf
<1>8. ReadNames \/ ListEntry \/ WalkRoot \/ Walk \/ RemoveAllGone \/ RemoveAllRaced => Looks
  BY DEF ReadNames, ListEntry, WalkRoot, Walk, RemoveAllGone, RemoveAllRaced
<1>9. RemovePath \/ RemoveAllStep \/ MoveRename => Looks \/ \E d : Sets(d)
  BY DEF RemovePath, RemoveAllStep, MoveRename
<1>10. MoveStatTarget \/ MoveCompare \/ MovePolicy \/ RevalidateSource \/ RenameLooks => Looks
  BY DEF MoveStatTarget, MoveCompare, MovePolicy, RevalidateSource, RenameLooks
<1> QED BY <1>1, <1>2, <1>3, <1>4, <1>5, <1>6, <1>7, <1>8, <1>9, <1>10 DEF Work

(* A fault ends the call with an internal error. *)
LEMMA BreakEnds ==
  ASSUME Break
  PROVE faulted' = TRUE /\ again' = again /\ pc' = "idle" /\ result'.code = Internal
<1>1. ASSUME Fail(Internal) PROVE pc' = "idle" /\ result'.code = Internal
  BY <1>1 DEF Fail, Return
<1>2. faulted' = TRUE /\ again' = again /\ Fail(Internal)
  BY DEF Break, WriteContentFails, CopyContentFails, RemoveAllFails, Breaks
<1> QED BY <1>1, <1>2

(* The invariant is kept by the steps of a call, *)
LEMMA AtOnceByWork ==
  ASSUME SafeInv, FreshInv, ListInv, WalkInv, AtOnceInv, Work
  PROVE AtOnceInv'
<1>1. ControlInv /\ DiskInv /\ HistoryInv
  BY DEF SafeInv
<1>2. ~IsFile(disk', Root)
  BY <1>1, RootByWork DEF AtOnceInv
<1>3. pc # "idle"
  BY WorkFlow DEF Flow
<1>4. calls > 0 /\ ~faulted
  BY <1>3 DEF AtOnceInv
<1>5. calls' = calls /\ touched' = touched /\ faulted' = faulted
  BY <1>1, WorkEffect, WorkFaultless DEF LeavesHistory
<1>6. Alone' => Alone
  BY <1>5 DEF Alone
<1>7. Alone' => Goes'
  BY <1>6, GoesByWork DEF Going
<1> QED BY <1>2, <1>4, <1>5, <1>7 DEF AtOnceInv

(* by faults, after which there is nothing to know, *)
LEMMA AtOnceByBreak == ASSUME SafeInv, AtOnceInv, Break PROVE AtOnceInv'
<1>1. ControlInv /\ DiskInv /\ HistoryInv
  BY DEF SafeInv
<1>2. ~IsFile(disk', Root)
  BY <1>1, RootByWork DEF AtOnceInv
<1>3. ~OK' /\ faulted' /\ pc' = "idle"
  BY BreakEnds, Codings DEF OK
<1>4. ~Alone'
  BY <1>3 DEF Alone
<1> QED BY <1>2, <1>3, <1>4 DEF AtOnceInv

(* by others, after which the call is not alone, *)
LEMMA AtOnceByOthers == ASSUME SafeInv, AtOnceInv, Others PROVE AtOnceInv'
<1>1. /\ touched' # {} /\ ~IsFile(disk', Root) /\ pc # "idle"
      /\ pc' = pc /\ result' = result /\ faulted' = faulted /\ calls' = calls
  BY OthersTraced DEF SafeInv, AtOnceInv
<1>2. ~Alone'
  BY <1>1 DEF Alone
<1>3. calls > 0 /\ ~faulted
  BY <1>1 DEF AtOnceInv
<1> QED BY <1>1, <1>2, <1>3 DEF AtOnceInv

(* and by the beginning of the next call.                                  *)
LEMMA AtOnceByBegin == ASSUME SafeInv, AtOnceInv, NEW c \in CallSet, Begin(c) PROVE AtOnceInv'
<1>1. /\ disk' = disk /\ ~faulted'
      /\ pc' \in {"existing path", "create path"}
  BY DEF Begin, First
<1>2. calls \in Nat
  BY DEF SafeInv, HistoryInv
<1>3. calls' = calls + 1
  BY DEF Begin
<1>4. calls' > 0
  BY <1>2, <1>3
<1>5. Goes'
  BY <1>1, KnowsParts, Onward
<1> QED BY <1>1, <1>4, <1>5 DEF AtOnceInv

(* Nothing is forgotten while nothing happens. *)
LEMMA AtOnceByStutter == ASSUME AtOnceInv, UNCHANGED vars PROVE AtOnceInv'
<1>1. /\ disk' = disk /\ call' = call /\ pc' = pc /\ seen' = seen /\ result' = result
      /\ before' = before /\ touched' = touched /\ faulted' = faulted /\ calls' = calls
  BY DEF vars, history
<1>2. KnowsWrite' <=> KnowsWrite
  BY <1>1 DEF KnowsWrite
<1>3. KnowsOpen' <=> KnowsOpen
  BY <1>1 DEF KnowsOpen, ToCreate
<1>4. KnowsCopy' <=> KnowsCopy
  BY <1>1 DEF KnowsCopy, Source
<1>5. KnowsRead' <=> KnowsRead
  BY <1>1 DEF KnowsRead, Source
<1>6. KnowsRemove' <=> KnowsRemove
  BY <1>1 DEF KnowsRemove
<1>7. KnowsWalk' <=> KnowsWalk
  BY <1>1 DEF KnowsWalk, Orderly, Passed
<1>8. KnowsList' <=> KnowsList
  BY <1>1 DEF KnowsList, Unlisted
<1>9. KnowsMkdir' <=> KnowsMkdir
  BY <1>1 DEF KnowsMkdir, Making, Parents, Ready
<1>10. KnowsMove' <=> KnowsMove
  BY <1>1 DEF KnowsMove, Source, Target, ToCreate
<1>11. Knows' <=> Knows
  BY <1>2, <1>3, <1>4, <1>5, <1>6, <1>7, <1>8, <1>9, <1>10 DEF Knows
<1>12. Outcome' <=> Outcome
  BY <1>1 DEF Outcome, OK
<1>13. Goes' <=> Goes
  BY <1>1, <1>11, <1>12 DEF Goes
<1>14. (Alone' <=> Alone) /\ (OK' <=> OK)
  BY <1>1 DEF Alone, OK
<1> QED BY <1>1, <1>13, <1>14 DEF AtOnceInv

(* So it is preserved by every step. *)
LEMMA AtOnceStep ==
  ASSUME SafeInv, FreshInv, ListInv, WalkInv, AtOnceInv, [Next]_vars
  PROVE AtOnceInv'
<1>1. CASE Done \/ UNCHANGED vars
  BY <1>1, AtOnceByStutter DEF Done
<1>2. CASE Next /\ ~Done
  BY <1>2, AtOnceByWork, AtOnceByBreak, AtOnceByOthers, AtOnceByBegin DEF Next
<1> QED BY <1>1, <1>2

(* At the start nothing has been called. *)
LEMMA AtOnceInit == ASSUME Init PROVE AtOnceInv
<1>1. PICK v \in Trees : disk = DiskOf(v)
  BY DEF Init
<1>2. ~IsFile(disk, Root)
  BY <1>1, FileOpsAssumption, DiskOfView
<1>3. pc = "idle" /\ ~OK /\ ~faulted /\ calls = 0
  BY DEF Init, OK
<1>4. ~(calls > 0)
  BY <1>3
<1> QED BY <1>2, <1>3, <1>4 DEF AtOnceInv

(* What all of it rests on. *)
AtOnceAll == FreshInv /\ ListInv /\ Listing /\ WalkInv /\ AtOnceInv

(* The invariant holds of every behaviour. *)
LEMMA AtOnceAlways == Spec => [](SafeInv /\ AtOnceInv)
<1>1. Init => SafeInv /\ AtOnceAll
  <2> SUFFICES ASSUME Init PROVE SafeInv /\ AtOnceAll
    OBVIOUS
  <2>1. FreshInv /\ ListInv
    BY DEF Init, FreshInv, ListInv
  <2>2. Listing
    BY DEF Init, Listing, OK
  <2>3. WalkInv
    BY DEF Init, WalkInv
  <2> QED BY <2>1, <2>2, <2>3, SafeInit, AtOnceInit DEF AtOnceAll
<1>2. SafeInv /\ AtOnceAll /\ [Next]_vars => SafeInv' /\ AtOnceAll'
  BY SafeStep, FreshStep, ListStep, WalkStep, AtOnceStep DEF AtOnceAll
<1>3. AtOnceAll => AtOnceInv
  BY DEF AtOnceAll
<1> QED BY <1>1, <1>2, <1>3, PTL DEF Spec

(* Alone and without faults, a call acts as if it were one step of the     *)
(* contract: it succeeds exactly when it may, and has then its whole       *)
(* effect, and none at all otherwise (ActsAtOnce).                         *)
THEOREM FilesActAtOnce == Spec => []ActsAtOnce
<1>1. ASSUME TypeOK, AtOnceInv PROVE ActsAtOnce
  <2> SUFFICES ASSUME Idle /\ Quiet /\ (call.op = "copy" => call.path # call.target)
               PROVE  /\ OK <=> Permitted(View(before), call)
                      /\ View(disk) = IF OK THEN Effect(View(before), call) ELSE View(before)
    BY <1>1 DEF ActsAtOnce
  <2>1. Outcome
    BY <1>1 DEF Idle, Quiet, Alone, AtOnceInv, Goes
  <2>2. Left(View(before), call) = Effect(View(before), call)
    BY DEF Left, SelfCopy
  <2> QED BY <2>1, <2>2 DEF Outcome
<1> QED BY <1>1, FilesTyped, AtOnceAlways, PTL

(* A call that is permitted again, on the tree it has left, leaves it so.  *)
LEMMA TwiceAsOnce ==
  ASSUME NEW d \in Disks, WellFormed(d), NEW c \in CallSet, Permitted(View(d), c),
         NEW w, w = Left(View(d), c), Permitted(w, c)
  PROVE Left(w, c) = w
<1> DEFINE v == View(d)
<1>0. c.path \in Paths /\ c.target \in Paths /\ c.op \in Ops
  BY CallType
<1>1. v = [p \in Paths |-> v[p]]
  BY ViewType
<1> HIDE DEF v
<1>2. w = Left(v, c)
  BY DEF v
<1>3. ASSUME NEW u, u = [p \in Paths |-> u[p]] PROVE Left(u, c) = [p \in Paths |-> Left(u, c)[p]]
  <2>1. CASE SelfCopy(c)
    <3>1. [u EXCEPT ![c.path] = File(0)] = [p \in Paths |-> [u EXCEPT ![c.path] = File(0)][p]]
      BY <1>3
    <3> QED BY <2>1, <3>1 DEF Left
  <2>2. CASE ~SelfCopy(c)
    BY <2>2 DEF Left, Effect
  <2> QED BY <2>1, <2>2
<1>4. w = [p \in Paths |-> w[p]] /\ Left(w, c) = [p \in Paths |-> Left(w, c)[p]]
  BY <1>1, <1>2, <1>3
<1>5. ASSUME NEW p \in Paths, c.op # "move" PROVE Left(w, c)[p] = w[p]
  <2>1. CASE c.op \in {"read", "list", "stat"}
    BY <1>4, <2>1, LeftMeans
  <2>2. CASE c.op = "write"
    BY <1>1, <1>2, <1>4, <2>2, LeftMeans
  <2>3. CASE c.op = "mkdir"
    BY <1>1, <1>2, <1>4, <2>3, LeftMeans
  <2>4. CASE c.op = "delete"
    BY <1>1, <1>2, <1>4, <2>4, LeftMeans
  <2>5. CASE c.op = "copy"
    <3>1. Left(w, c)[p] = IF p # c.target THEN w[p]
                          ELSE IF c.path = c.target THEN File(0) ELSE w[c.path]
      BY <1>4, <2>5, LeftMeans
    <3>2. w[p] = IF p # c.target THEN v[p]
                 ELSE IF c.path = c.target THEN File(0) ELSE v[c.path]
      BY <1>1, <1>2, <2>5, LeftMeans
    <3>3. w[c.path] = IF c.path # c.target THEN v[c.path] ELSE File(0)
      BY <1>0, <1>1, <1>2, <2>5, LeftMeans
    <3> QED BY <3>1, <3>2, <3>3
  <2> QED BY <1>0, <1>5, <2>1, <2>2, <2>3, <2>4, <2>5 DEF Ops
<1>6. c.op # "move"
  <2> SUFFICES ASSUME c.op = "move" PROVE FALSE
    OBVIOUS
  <2>1. /\ Exists(d, c.path) /\ ~IsPrefix(c.path, c.target)
        /\ PutOn(d, c.target, c.flag /\ ~IsDir(d, c.path))
    BY PermittedMeans
  <2>2. ~Exists(d, c.target) \/ IsFile(d, c.target)
    BY <2>1 DEF PutOn
  <2>3. c.target # c.path
    BY <1>0, <2>1, PrefixOrder
  <2>4. ~IsPrefix(c.target, c.path)
    BY <1>0, <2>1, <2>2, <2>3, EmptyMeans
  <2>5. w[c.path] = Nothing
    BY <1>0, <1>1, <1>2, <2>4, LeftMeans, PrefixOrder
  <2> QED BY <2>5 DEF Permitted
<1> QED BY <1>4, <1>5, <1>6

(* A repeated call starts from what it has left, and nothing changes that. *)
LEMMA AgainStep == ASSUME SafeInv, AtOnceInv, AgainInv, [Next]_vars PROVE AgainInv'
<1>1. ASSUME again' = again, call' = call, before' = before PROVE AgainInv'
  BY <1>1 DEF AgainInv
<1>2. CASE Work \/ Break
  <2>1. call' = call /\ before' = before
    BY <1>2, WorkEffect DEF SafeInv, LeavesHistory
  <2>2. again' = again
    BY <1>2, WorkFaultless, BreakEnds
  <2> QED BY <1>1, <2>1, <2>2
<1>3. CASE Others
  <2>1. again' = again /\ call' = call /\ before' = before
    BY <1>3, OthersTraced DEF SafeInv, AtOnceInv
  <2> QED BY <1>1, <2>1
<1>4. CASE Done \/ UNCHANGED vars
  <2>1. again' = again /\ call' = call /\ before' = before
    BY <1>4 DEF Done, vars, history
  <2> QED BY <1>1, <2>1
<1>5. ASSUME NEW c \in CallSet, Begin(c) PROVE AgainInv'
  <2> SUFFICES ASSUME again'
               PROVE \E d \in Disks : /\ WellFormed(d) /\ Permitted(View(d), call')
                                      /\ View(before') = Left(View(d), call')
    BY DEF AgainInv
  <2>1. call' = call /\ OK /\ touched = {} /\ before' = disk /\ pc = "idle"
    BY <1>5 DEF Begin, OK
  <2>2. Goes
    BY <2>1 DEF AtOnceInv, Alone
  <2>3. Outcome
    BY <2>1, <2>2 DEF Goes
  <2>4. before \in Disks /\ WellFormed(before)
    BY DEF SafeInv, HistoryInv
  <2> QED BY <2>1, <2>3, <2>4 DEF Outcome
<1> QED BY <1>2, <1>3, <1>4, <1>5 DEF Next

(* A call that has just succeeded can be repeated and changes nothing more *)
(* (RepeatHarmless): it is refused, or it finds all done.                  *)
THEOREM FilesRepeatHarmless == Spec => []RepeatHarmless
<1>1. Init => AgainInv
  BY DEF Init, AgainInv
<1>2. SafeInv /\ AtOnceInv /\ AgainInv /\ [Next]_vars => AgainInv'
  BY AgainStep
<1>3. ASSUME SafeInv, AtOnceInv, AgainInv PROVE RepeatHarmless
  <2> SUFFICES ASSUME Idle, again, Quiet PROVE View(disk) = View(before)
    BY DEF RepeatHarmless
  <2>1. Outcome
    BY <1>3 DEF Idle, Quiet, Alone, AtOnceInv, Goes
  <2>2. PICK d \in Disks : /\ WellFormed(d) /\ Permitted(View(d), call)
                           /\ View(before) = Left(View(d), call)
    BY <1>3 DEF AgainInv
  <2>3. call \in CallSet
    BY <1>3 DEF SafeInv, ControlInv
  <2>4. CASE OK
    <3>1. Permitted(View(before), call) /\ View(disk) = Left(View(before), call)
      BY <2>1, <2>4 DEF Outcome
    <3>2. Left(View(before), call) = View(before)
      BY <2>2, <2>3, <3>1, TwiceAsOnce
    <3> QED BY <3>1, <3>2
  <2>5. CASE ~OK
    BY <2>1, <2>5 DEF Outcome
  <2> QED BY <2>4, <2>5
<1> QED BY <1>1, <1>2, <1>3, AtOnceAlways, PTL DEF Spec
===============================================================================
