----------------------------- MODULE FileStore -----------------------------
(***************************************************************************)
(* What a caller of a filesystem driver may rely on, also when the power   *)
(* fails: the tree of files changes only by whole operations.  A file has  *)
(* its old or its new contents and nothing else ever changes with it.  A   *)
(* rename is the one operation with a state in between, in which both      *)
(* names exist.                                                            *)
(***************************************************************************)
EXTENDS Naturals, Sequences

CONSTANTS
    Paths,       \* paths looked at, as sequences of names
    Contents     \* what a file may contain

VARIABLES
    tree,        \* tree[p]: what is found at the path p
    moving       \* the two names of a rename that has made the second one

vars == <<tree, moving>>

Nothing == [k |-> "nothing"]
Directory == [k |-> "dir"]
File(contents) == [k |-> "file", contents |-> contents]

NoMove == << >>

IsPrefix(p, q) == Len(p) <= Len(q) /\ SubSeq(q, 1, Len(p)) = p

InDirectory(p) == Len(p) = 1 \/ tree[SubSeq(p, 1, Len(p) - 1)] = Directory

(* q as it is named when p is called r.                                    *)
Renamed(q, p, r) == r \o SubSeq(q, Len(p) + 1, Len(q))

Init == tree = [p \in Paths |-> Nothing] /\ moving = NoMove

Write(p, contents) ==
    /\ InDirectory(p)
    /\ tree[p].k # "dir"
    /\ tree' = [tree EXCEPT ![p] = File(contents)]
    /\ UNCHANGED moving

MakeDirectory(p) ==
    /\ InDirectory(p)
    /\ tree[p] = Nothing
    /\ tree' = [tree EXCEPT ![p] = Directory]
    /\ UNCHANGED moving

(* A file, or a directory with nothing in it.                              *)
Remove(p) ==
    /\ tree[p] # Nothing
    /\ \A q \in Paths : IsPrefix(p, q) /\ q # p => tree[q] = Nothing
    /\ tree' = [tree EXCEPT ![p] = Nothing]
    /\ UNCHANGED moving

(* A directory moved below itself can be reached until its old name goes.  *)
Link(p, r) ==
    /\ tree[p] # Nothing
    /\ InDirectory(r)
    /\ tree[r] = Nothing
    /\ tree' = [q \in Paths |->
                   IF IsPrefix(r, q) /\ Renamed(q, r, p) \in Paths
                   THEN tree[Renamed(q, r, p)] ELSE tree[q]]
    /\ moving' = <<p, r>>

Unlink ==
    /\ moving # NoMove
    /\ tree' = [q \in Paths |-> IF IsPrefix(moving[1], q) THEN Nothing ELSE tree[q]]
    /\ moving' = NoMove

(* The rename is cut short: both names stay.                               *)
GiveUp == moving # NoMove /\ moving' = NoMove /\ UNCHANGED tree

Next ==
    \/ \E p \in Paths :
          \/ \E contents \in Contents : Write(p, contents)
          \/ MakeDirectory(p)
          \/ Remove(p)
          \/ \E r \in Paths : Link(p, r)
    \/ Unlink \/ GiveUp

Spec == Init /\ [][Next]_vars
=============================================================================
