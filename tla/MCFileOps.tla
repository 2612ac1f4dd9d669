------------------------------ MODULE MCFileOps ------------------------------
(***************************************************************************)
(* Small trees and calls for FileOps: two directories a and b below the    *)
(* root with room for one entry c in each, every shape of that tree, and   *)
(* every call on its paths.                                                *)
(***************************************************************************)
EXTENDS FileOps

TreePaths == {<< >>, <<"a">>, <<"b">>, <<"a", "c">>, <<"b", "c">>}

(* Every tree whose files hold one or two bytes. *)
AllTrees == {v \in Views : Sound(v) /\ v[Root] = Directory
                           /\ \A p \in Paths : v[p] # File(0)}
SmallTrees == {v \in AllTrees : \A p \in Paths : v[p] # File(2)}

Call(op, p, q, f, n) == [op |-> op, path |-> p, target |-> q, flag |-> f, size |-> n]
Flags == BOOLEAN

Writes == {Call("write", p, Root, f, n) : p \in Paths, f \in Flags, n \in Sizes \ {0}}
Mkdirs == {Call("mkdir", p, Root, FALSE, 0) : p \in Paths}
Deletes == {Call("delete", p, Root, f, 0) : p \in Paths, f \in Flags}
Copies == {Call("copy", p, q, f, 0) : p \in Paths, q \in Paths, f \in Flags}
Reads == {Call("read", p, Root, FALSE, n) : p \in Paths, n \in Sizes}
Lists == {Call("list", p, Root, FALSE, 0) : p \in Paths}
Queries == {Call("stat", p, Root, FALSE, 0) : p \in Paths}

(* A directory moved further down would need deeper paths than Paths has,  *)
(* unless it is moved into itself, which is refused.                       *)
Moves ==
  {c \in {Call("move", p, q, f, 0) : p \in Paths, q \in Paths, f \in Flags} :
     Len(c.target) <= Len(c.path) \/ IsStrictPrefix(c.path, c.target)}

Changes == Writes \cup Mkdirs \cup Deletes \cup Copies \cup Moves
EveryCall == Changes \cup Reads \cup Lists \cup Queries

(* Calls worth interfering with: what is refused before it looks at the    *)
(* tree, or only looks once, is left out.                                  *)
RaceCalls ==
  {c \in Changes \cup Reads \cup Lists :
     /\ c.op \in {"write", "read"} => c.size = 1
     /\ c.op = "copy" => c.path # c.target
     /\ Root \in {c.path, c.target} => c.op \notin {"copy", "move"}}
=============================================================================
