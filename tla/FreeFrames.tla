------------------------------ MODULE FreeFrames ------------------------------
(***************************************************************************)
(* What the physical frame allocator promises (specification section 5,    *)
(* "Frame allocator"): a pool of free frames above the kernel region,      *)
(* never holding the reserved zero frame; allocate hands out the lowest    *)
(* free frame and removes it from the pool; free puts a frame back, and    *)
(* freeing a frame that is already in the pool changes nothing.  Frames    *)
(* are never created: the pool only ever holds frames of the machine.     *)
(***************************************************************************)
EXTENDS Integers, FiniteSets

CONSTANTS Frames       \* the allocatable frames (zero frame excluded)

VARIABLE pool

TypeOK == pool \subseteq Frames

Init == pool = Frames

Lowest(S) == CHOOSE f \in S : \A g \in S : f =< g

\* alloc_frame: the lowest free frame leaves the pool
Allocate ==
    /\ pool # {}
    /\ pool' = pool \ {Lowest(pool)}

\* free_frame: frames return to the pool (destruct_page_dir frees several
\* in one call)
Release(S) ==
    /\ S # {}
    /\ S \cap pool = {}
    /\ pool' = pool \cup S

Next == Allocate \/ \E S \in SUBSET Frames : Release(S)

Spec == Init /\ [][Next]_pool
================================================================================
