----------------------------- MODULE FileTree -----------------------------
(***************************************************************************)
(* What paths promise: a tree of directories and files, which the calls of *)
(* a sketch change at the path they name.                                  *)
(***************************************************************************)
EXTENDS Integers, Sequences

CONSTANT Paths      \* sequences of names, each with its prefixes

VARIABLE tree       \* the kind, "dir" or "file", of every path there is

Prefix(p, k) == SubSeq(p, 1, k)
IsDir(p) == p = << >> \/ (p \in DOMAIN tree /\ tree[p] = "dir")
Children(p) == { q \in DOMAIN tree : Len(q) = Len(p) + 1 /\ Prefix(q, Len(p)) = p }

With(p, what) == [q \in DOMAIN tree \cup { p } |-> IF q = p THEN what ELSE tree[q]]
Without(p) == [q \in DOMAIN tree \ { p } |-> tree[q]]

TreeInit == tree = << >>

CreateFile(p) ==
  /\ p \in Paths \ DOMAIN tree /\ IsDir(Prefix(p, Len(p) - 1))
  /\ tree' = With(p, "file")

RemoveFile(p) ==
  /\ p \in DOMAIN tree /\ tree[p] = "file"
  /\ tree' = Without(p)

RemoveDir(p) ==
  /\ p \in DOMAIN tree /\ tree[p] = "dir" /\ Children(p) = {}
  /\ tree' = Without(p)

\* A directory with all there is in it, or with p = << >> all there is.
RemoveTree(p) ==
  /\ IsDir(p)
  /\ tree' = [q \in { r \in DOMAIN tree : Len(r) < Len(p) \/ Prefix(r, Len(p)) # p } |-> tree[q]]

\* All the directories of a path that are missing, or when the card is full
\* the first of them, and then a file in the place of the next.
MakeDirs(p) ==
  \E k \in 0 .. Len(p), stray \in BOOLEAN :
    /\ \A i \in 1 .. k : IsDir(Prefix(p, i)) \/ Prefix(p, i) \notin DOMAIN tree
    /\ stray => k < Len(p) /\ Prefix(p, k + 1) \notin DOMAIN tree
    /\ LET dirs == { Prefix(p, i) : i \in 1 .. k }
           new  == IF stray THEN dirs \cup { Prefix(p, k + 1) } ELSE dirs
       IN tree' = [q \in DOMAIN tree \cup new |->
                     IF q \in DOMAIN tree THEN tree[q] ELSE IF q \in dirs THEN "dir" ELSE "file"]

TreeNext ==
  \E p \in Paths \cup { << >> } : CreateFile(p) \/ RemoveFile(p) \/ RemoveDir(p) \/ MakeDirs(p) \/ RemoveTree(p)

TreeSpec == TreeInit /\ [][TreeNext]_tree

=============================================================================
