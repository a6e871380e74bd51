----------------------------- MODULE Allocator -----------------------------
(***************************************************************************)
(* What heapmgr.h promises of heapmgr_malloc and heapmgr_free, with        *)
(* nothing of headers, footers and free lists: malloc returns space for    *)
(* the size asked for that overlaps nothing handed out and not yet given   *)
(* back, or nothing; free gives a block back.                              *)
(***************************************************************************)
EXTENDS Integers

CONSTANTS Sizes, CHUNK_UNIT, MaxUnits

VARIABLE owned  \* the blocks handed out: first unit, number of units, size in bytes

Blocks == [first : 0 .. MaxUnits, units : 0 .. MaxUnits, size : Sizes]
Space(b) == b.first .. b.first + b.units - 1

Init == owned = {}

Malloc ==
    \E b \in Blocks :
        /\ b.units * CHUNK_UNIT >= b.size
        /\ \A o \in owned : Space(o) \cap Space(b) = {}
        /\ owned' = owned \cup {b}

Free == \E b \in owned : owned' = owned \ {b}

Next == Malloc \/ Free

Spec == Init /\ [][Next]_owned
=============================================================================
