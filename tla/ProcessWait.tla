----------------------------- MODULE ProcessWait -----------------------------
(***************************************************************************)
(* A parent thread in wait() and the threads of its children, meeting on   *)
(* the children's PCB locks (src/kern/ctrl_blk.c, src/kern/fault_handler.c *)
(* and the kernel mutex of KernMutex).                                     *)
(*                                                                         *)
(* The parent (Waiter) scans its child_pcb_list with find_exited_child,    *)
(* which locks each child in turn and counts its live threads with         *)
(* get_thread_alive_count, and returns holding the locks it took;          *)
(* unlock_children then gives them back.  A child thread takes its own     *)
(* PCB lock in handle_page_fault, in fault_kill_thread and when it         *)
(* vanishes.  handle_wait and handle_vanish are not in the sources; what   *)
(* they do around these calls is taken from the specification (section 4, *)
(* "per-process lock", and section 3, VANISH_WAIT) and marked so below.    *)
(***************************************************************************)
EXTENDS KernMutex, Sequences, FiniteSets

CONSTANTS Waiter,     \* the parent's thread
          Threads,    \* the children's threads
          ProcOf,     \* the child process (PCB) of each thread
          MaxFaults   \* page faults a thread may take

ASSUME Actors = Threads \cup {Waiter} /\ Waiter \notin Threads
ASSUME ProcOf \in [Threads -> Locks]

VARIABLES tstate,     \* TERMINATED or not, as get_thread_alive_count reads it
          faults,     \* page faults each thread has taken
          kids,       \* the parent's child_pcb_list, head first
          cur,        \* find_exited_child's current node
          found,      \* the node it returned, 0 for NULL
          reaped,     \* children whose PCB the parent collected
          intoff      \* the parent runs with interrupts disabled

vars == <<lock_state, tid, owner, pc, want, ret,
          tstate, faults, kids, cur, found, reaped, intoff>>

\* get_thread_alive_count: the threads of PCB c that are not TERMINATED.
AliveIn(ts, c) ==
    Cardinality({t \in Threads : ProcOf[t] = c /\ ts[t] # "TERMINATED"})

AliveCount(c) == AliveIn(tstate, c)

\* An unlock_children whose last_node is node rather than node->next.
CoveredShort(f) == IF f = 0 THEN 1..Len(kids) ELSE 1..(f - 1)

\* An unlock_children that ignores node and unlocks the whole list.
CoveredWhole(f) == 1..Len(kids)

\* The nodes unlock_children unlocks, from the head: through node when it
\* is given (last_node = node->next, the head again when node is the
\* tail), the whole list when it is NULL.

Covered(f) == IF f = 0 THEN 1..Len(kids) ELSE 1..f

Init ==
    /\ MutexInit
    /\ pc = [a \in Actors |-> IF a = Waiter THEN "wait" ELSE "user"]
    /\ want = [a \in Actors |-> IF a = Waiter THEN CHOOSE m \in Locks : TRUE
                                              ELSE ProcOf[a]]
    /\ ret = [a \in Actors |-> pc[a]]
    /\ tstate = [t \in Threads |-> "LIVE"]
    /\ faults = [t \in Threads |-> 0]
    \* the children in the order fork_ctrl_blk appended them
    /\ kids \in {s \in [1..Cardinality(Locks) -> Locks] :
                    \A m \in Locks : \E i \in DOMAIN s : s[i] = m}
    /\ cur = 1
    /\ found = 0
    /\ reaped = {}
    /\ intoff = FALSE

----------------------------------------------------------------------------
(* The children's threads.                                                 *)

\* handle_page_fault: mutex_lock(&current_pcb_ptr->lock) before anything.
PageFault(t) ==
    /\ pc[t] = "user"
    /\ faults[t] < MaxFaults
    /\ faults' = [faults EXCEPT ![t] = @ + 1]
    /\ CallLock(t, ProcOf[t], "pf_locked")
    /\ UNCHANGED <<mutexVars, tstate, kids, cur, found, reaped, intoff>>

\* handle_page_fault under the lock: the fault is resolved (a ZFOD mapping,
\* ZFODFault) and the lock released before returning, or it is not, and
\* the lock is released before fault_kill_thread.
PageFaultResolve(t) ==
    /\ pc[t] = "pf_locked"
    /\ \E resolved \in BOOLEAN :
          CallUnlock(t, ProcOf[t], IF resolved THEN "user" ELSE "kill")
    /\ UNCHANGED <<mutexVars, tstate, faults, kids, cur, found, reaped, intoff>>

\* fault_kill_thread: mutex_lock(&pcb_ptr->lock).
FaultKill(t) ==
    /\ pc[t] = "kill"
    /\ CallLock(t, ProcOf[t], "kill_count")
    /\ UNCHANGED <<mutexVars, tstate, faults, kids, cur, found, reaped, intoff>>

\* fault_kill_thread: get_thread_alive_count, mutex_unlock, then
\* handle_vanish.  The count only decides the status -2 (Swexn).
FaultKillCount(t) ==
    /\ pc[t] = "kill_count"
    /\ CallUnlock(t, ProcOf[t], "vanish")
    /\ UNCHANGED <<mutexVars, tstate, faults, kids, cur, found, reaped, intoff>>

\* handle_vanish, from the program or from fault_kill_thread: it takes the
\* PCB lock first (specification, section 4).
Vanish(t) ==
    /\ pc[t] \in {"user", "vanish"}
    /\ CallLock(t, ProcOf[t], "vanish_locked")
    /\ UNCHANGED <<mutexVars, tstate, faults, kids, cur, found, reaped, intoff>>

\* handle_vanish under the lock, interrupts off: the thread goes to
\* TERMINATED; if no thread of its process is left, find_tcb_in_list finds
\* the parent in VANISH_WAIT by its PCB and it is made runnable, to run
\* wait again.  Then the lock is released.
WakesParent(t, ts) ==
    /\ AliveIn(ts, ProcOf[t]) = 0
    /\ pc[Waiter] = "vanish_wait"

\* A handle_vanish that counts the live threads before marking itself.
VanishCountsFirst(t) ==
    /\ pc[t] = "vanish_locked"
    /\ tstate' = [tstate EXCEPT ![t] = "TERMINATED"]
    /\ pc' = [pc EXCEPT ![t] = "unlock_tid",
                        ![Waiter] = IF WakesParent(t, tstate) THEN "wait" ELSE @]
    /\ ret' = [ret EXCEPT ![t] = "exited"]
    /\ UNCHANGED <<mutexVars, want, faults, kids, cur, found, reaped, intoff>>

VanishLocked(t) ==
    LET after == [tstate EXCEPT ![t] = "TERMINATED"] IN
    /\ pc[t] = "vanish_locked"
    /\ tstate' = after
    /\ pc' = [pc EXCEPT ![t] = "unlock_tid",
                        ![Waiter] = IF WakesParent(t, after) THEN "wait" ELSE @]
    /\ ret' = [ret EXCEPT ![t] = "exited"]
    /\ UNCHANGED <<mutexVars, want, faults, kids, cur, found, reaped, intoff>>

----------------------------------------------------------------------------
(* The parent's thread in wait().                                          *)

\* handle_wait (specification): with no child left, wait fails and the
\* parent goes on without waiting.
WaitNoChild ==
    /\ pc[Waiter] = "wait"
    /\ kids = <<>>
    /\ pc' = [pc EXCEPT ![Waiter] = "done"]
    /\ UNCHANGED <<mutexVars, want, ret, tstate, faults, kids, cur, found,
                   reaped, intoff>>

\* find_exited_child moves to node i and locks that child's PCB.
ScanChildNoLock(i) ==
    /\ cur' = i
    /\ pc' = [pc EXCEPT ![Waiter] = "scan_count"]
    /\ UNCHANGED <<want, ret>>

ScanChild(i) ==
    /\ cur' = i
    /\ CallLock(Waiter, kids[i], "scan_count")

\* handle_wait calls find_exited_child on its child_pcb_list.
WaitScan ==
    /\ pc[Waiter] = "wait"
    /\ kids # <<>>
    /\ ScanChild(1)
    /\ UNCHANGED <<mutexVars, tstate, faults, kids, found, reaped, intoff>>

\* find_exited_child, under the child's lock: get_thread_alive_count is 0,
\* and the node is returned with the locks of nodes 1..cur still held;
\* handle_wait passes it to unlock_children.
ScanFound ==
    /\ pc[Waiter] = "scan_count"
    /\ AliveCount(kids[cur]) = 0
    /\ found' = cur
    /\ cur' = 1
    /\ pc' = [pc EXCEPT ![Waiter] = "unlock_children"]
    /\ UNCHANGED <<mutexVars, want, ret, tstate, faults, kids, reaped, intoff>>

\* find_exited_child: the child has live threads; go on to the next node,
\* keeping its lock.
ScanNext ==
    /\ pc[Waiter] = "scan_count"
    /\ AliveCount(kids[cur]) > 0
    /\ cur < Len(kids)
    /\ ScanChild(cur + 1)
    /\ UNCHANGED <<mutexVars, tstate, faults, kids, found, reaped, intoff>>

\* find_exited_child returns NULL at the end of the circle with every lock
\* held.  handle_wait (specification) then disables interrupts, calls
\* unlock_children(NULL) and blocks in VANISH_WAIT, so that no child can
\* exit between the unlock and the block unseen.
ScanNone ==
    /\ pc[Waiter] = "scan_count"
    /\ AliveCount(kids[cur]) > 0
    /\ cur = Len(kids)
    /\ found' = 0
    /\ cur' = 1
    /\ intoff' = TRUE
    /\ pc' = [pc EXCEPT ![Waiter] = "unlock_children"]
    /\ UNCHANGED <<mutexVars, want, ret, tstate, faults, kids, reaped>>

\* unlock_children(pcb, node): mutex_unlock on each node from the head
\* until current reaches last_node.
UnlockChild ==
    /\ pc[Waiter] = "unlock_children"
    /\ cur \in Covered(found)
    /\ cur' = cur + 1
    /\ CallUnlock(Waiter, kids[cur], "unlock_children")
    /\ UNCHANGED <<mutexVars, tstate, faults, kids, found, reaped, intoff>>

\* handle_wait (specification), after unlock_children(NULL): the parent
\* goes to VANISH_WAIT and the next thread runs with interrupts on.
Block ==
    /\ pc[Waiter] = "unlock_children"
    /\ cur \notin Covered(found)
    /\ found = 0
    /\ intoff' = FALSE
    /\ pc' = [pc EXCEPT ![Waiter] = "vanish_wait"]
    /\ UNCHANGED <<mutexVars, want, ret, tstate, faults, kids, cur, found,
                   reaped>>

\* handle_wait (specification), after unlock_children: the exited child's
\* status is collected, its node leaves child_pcb_list and its PCB is
\* freed; the parent calls wait again.
Reap ==
    /\ pc[Waiter] = "unlock_children"
    /\ cur \notin Covered(found)
    /\ found > 0
    /\ reaped' = reaped \cup {kids[found]}
    /\ kids' = [i \in 1..(Len(kids) - 1) |->
                   IF i < found THEN kids[i] ELSE kids[i + 1]]
    /\ found' = 0
    /\ pc' = [pc EXCEPT ![Waiter] = "wait"]
    /\ UNCHANGED <<mutexVars, want, ret, tstate, faults, cur, intoff>>

----------------------------------------------------------------------------

ThreadStep(t) ==
    \/ PageFault(t) \/ PageFaultResolve(t) \/ FaultKill(t)
    \/ FaultKillCount(t) \/ Vanish(t) \/ VanishLocked(t)
    \/ /\ MutexStep(t)
       /\ UNCHANGED <<tstate, faults, kids, cur, found, reaped, intoff>>

WaiterStep ==
    \/ WaitNoChild \/ WaitScan \/ ScanFound \/ ScanNext \/ ScanNone
    \/ UnlockChild \/ Block \/ Reap
    \/ /\ MutexStep(Waiter)
       /\ UNCHANGED <<tstate, faults, kids, cur, found, reaped, intoff>>

Next == WaiterStep \/ (~intoff /\ \E t \in Threads : ThreadStep(t))

\* The timer preempts the running thread and round_robin gives the CPU to
\* every READY thread in turn; a thread spinning in mutex_lock yields.  So
\* each thread that can step eventually does.
Fairness ==
    /\ WF_vars(WaiterStep)
    /\ \A t \in Threads : WF_vars(~intoff /\ ThreadStep(t))

Spec == Init /\ [][Next]_vars /\ Fairness

----------------------------------------------------------------------------
(* Properties.                                                             *)

\* The kernel mutex, as the parent and the children's threads use it, is a
\* lock: it is taken only when free (the xchange loop of mutex_lock).
RefinesKernLock == Abstract!Spec

\* Every mutex_unlock is made by the thread holding that lock: the
\* unlock_children that follows find_exited_child gives back exactly the
\* locks the scan took, never a lock a child's thread holds.
UnlockByHolder ==
    \A a \in Actors :
        pc[a] \in {"unlock_tid", "unlock_state"} => owner[want[a]] = a

\* Outside find_exited_child and unlock_children the parent holds no
\* child's PCB lock: not while it sleeps in VANISH_WAIT, not when it
\* collects a child, not after wait returns.  A lock kept here would
\* leave that child's threads spinning in mutex_lock for ever.
WaitReleases ==
    pc[Waiter] \in {"wait", "vanish_wait", "done"} =>
        \A m \in Locks : owner[m] # Waiter

\* When the parent collects a child and frees its PCB, none of the
\* child's threads is still inside the kernel using it: its last thread
\* has left handle_vanish's mutex_unlock.
ReapedQuiet ==
    \A t \in Threads : ProcOf[t] \in reaped => pc[t] = "exited"

\* Every child thread eventually leaves, and the parent, waiting again
\* and again, collects every child and returns.
AllCollected ==
    <>(/\ pc[Waiter] = "done"
       /\ \A t \in Threads : pc[t] = "exited")
=============================================================================
