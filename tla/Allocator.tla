----------------------------- MODULE Allocator ------------------------------
(***************************************************************************)
(* What the interface manager needs of the BlackBoard memory: regions that *)
(* lie inside the segment, do not overlap, and stay where they are until   *)
(* they are freed.                                                         *)
(***************************************************************************)
EXTENDS Integers

CONSTANT MemSize

VARIABLE regions          \* the data areas handed out: <<first byte, number of bytes>>

Bytes(r) == r[1] .. r[1] + r[2] - 1

Init == regions = {}

Alloc == \E r \in (0..MemSize - 1) \X (1..MemSize) :
           /\ r[1] + r[2] <= MemSize
           /\ \A q \in regions : Bytes(q) \cap Bytes(r) = {}
           /\ regions' = regions \cup {r}

Free == \E r \in regions : regions' = regions \ {r}

Spec == Init /\ [][Alloc \/ Free]_regions
=============================================================================
