--------------------------- MODULE BlockAllocator ---------------------------
(***************************************************************************)
(* What a pool promises its callers, without slots, flags or trimming: a   *)
(* block is never given to two callers at once, and the memory behind a    *)
(* block that a caller holds is never returned to the heap.                *)
(***************************************************************************)
CONSTANT Blocks

VARIABLES
    allocated,  \* blocks that callers hold
    mapped      \* blocks that are backed by memory

vars == <<allocated, mapped>>

Init == allocated = {} /\ mapped \subseteq Blocks

Alloc(b) ==
    /\ b \in Blocks \ allocated
    /\ allocated' = allocated \cup {b}
    /\ mapped' = mapped \cup {b}

Free(b) ==
    /\ b \in allocated
    /\ allocated' = allocated \ {b}
    /\ mapped' \subseteq mapped
    /\ allocated' \subseteq mapped'

Next == \E b \in Blocks : Alloc(b) \/ Free(b)

Spec == Init /\ [][Next]_vars

=============================================================================
