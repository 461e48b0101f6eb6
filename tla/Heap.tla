-------------------------------- MODULE Heap --------------------------------
(***************************************************************************)
(* What malloc, realloc and free promise the program that calls them: the  *)
(* memory it was given and has not given back is its own.                  *)
(***************************************************************************)
EXTENDS Naturals

CONSTANTS Address, Size

VARIABLE blocks    \* what the program holds: where, and how long it asked for

Block == [at : Address, len : Size]

Overlap(b, c) == b.at < c.at + c.len /\ c.at < b.at + b.len
Apart(b, others) == \A c \in others : ~Overlap(b, c)

Init == blocks = {}

Allocate ==
  \E new \in blocks' :
    /\ new \in Block /\ new \notin blocks
    /\ Apart(new, blocks)
    /\ blocks' = blocks \cup {new}

Release == \E old \in blocks : blocks' = blocks \ {old}

(* A block that moves is copied: its two places do not overlap. *)
Resize ==
  \E old \in blocks, new \in blocks' :
    /\ new \in Block
    /\ Apart(new, blocks \ {old})
    /\ new.at # old.at => ~Overlap(new, old)
    /\ blocks' = (blocks \ {old}) \cup {new}

Next == Allocate \/ Release \/ Resize

Spec == Init /\ [][Next]_blocks

=============================================================================
