------------------------------ MODULE KernLock ------------------------------
(***************************************************************************)
(* What a kernel mutex (src/kern/mutex.c) promises its callers: each lock  *)
(* has at most one owner, a free lock may be taken by anyone, and only     *)
(* the owner gives it back.  How the lock is taken (the xchg bit, the      *)
(* yield loop, the tid hint) is left to the implementation, KernMutex.     *)
(***************************************************************************)
CONSTANTS Owners, Locks, NoOwner

ASSUME NoOwner \notin Owners

VARIABLE holder

Free(l) == holder[l] = NoOwner

Acquire(o, l) ==
    /\ Free(l)
    /\ holder' = [holder EXCEPT ![l] = o]

Release(o, l) ==
    /\ holder[l] = o
    /\ holder' = [holder EXCEPT ![l] = NoOwner]

Init == holder = [l \in Locks |-> NoOwner]

Next == \E o \in Owners, l \in Locks : Acquire(o, l) \/ Release(o, l)

Spec == Init /\ [][Next]_holder
=============================================================================
