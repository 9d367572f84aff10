------------------------------ MODULE Semaphore -------------------------------
(***************************************************************************)
(* The user semaphore (src/user/libthread/sem.c) over its mutex            *)
(* (mutex.c) and condition variable (cond.c), used by threads that each   *)
(* repeat sem_wait; critical section; sem_signal.                         *)
(*                                                                         *)
(* sem->lock is held over every read and write of sem->count, and          *)
(* cond_signal runs under it, so each stretch under sem->lock is one step; *)
(* cv->lock is only ever taken with sem->lock held and needs no state of   *)
(* its own.  What interleaves is the waiter between releasing sem->lock in *)
(* cond_wait and descheduling, the signaller spinning on make_runnable     *)
(* meanwhile, and the woken waiter re-acquiring sem->lock.                 *)
(***************************************************************************)
EXTENDS Integers, Sequences, FiniteSets

CONSTANTS
    Threads,
    SemInit,    \* the count passed to sem_init
    NoThread

VARIABLES
    count,      \* sem->count
    lock,       \* holder of sem->lock, or NoThread
    cvList,     \* sem->cond's tid list, oldest first
    desched,    \* threads descheduled in the kernel
    pc,         \* per thread, see PCs
    target      \* the waiter a signaller's make_runnable loop is waking

vars == <<count, lock, cvList, desched, pc, target>>

PCs == {"idle", "desched", "blocked", "relock", "cs", "signal"}

TypeOK ==
    /\ count \in -Cardinality(Threads)..SemInit
    /\ lock \in Threads \cup {NoThread}
    /\ cvList \in Seq(Threads)
    /\ desched \subseteq Threads
    /\ pc \in [Threads -> PCs]
    /\ target \in [Threads -> Threads \cup {NoThread}]

Init ==
    /\ count = SemInit
    /\ lock = NoThread
    /\ cvList = <<>>
    /\ desched = {}
    /\ pc = [t \in Threads |-> "idle"]
    /\ target = [t \in Threads |-> NoThread]

\* the xchange loop of mutex_lock succeeds only on an unlocked mutex
LockFree == lock = NoThread

SemWaitTestFirst(t) ==
    /\ pc[t] = "idle" /\ LockFree
    /\ count' = count - 1
    /\ IF count < 0
       THEN /\ cvList' = Append(cvList, t)
            /\ pc' = [pc EXCEPT ![t] = "desched"]
       ELSE /\ pc' = [pc EXCEPT ![t] = "cs"]
            /\ UNCHANGED cvList
    /\ UNCHANGED <<lock, desched, target>>

\* sem_wait: lock, decrement; below zero: cond_wait appends the tid to the
\* cv list and unlocks sem->lock before descheduling; otherwise unlock
SemWait(t) ==
    /\ pc[t] = "idle" /\ LockFree
    /\ count' = count - 1
    /\ IF count - 1 < 0
       THEN /\ cvList' = Append(cvList, t)
            /\ pc' = [pc EXCEPT ![t] = "desched"]
       ELSE /\ pc' = [pc EXCEPT ![t] = "cs"]
            /\ UNCHANGED cvList
    /\ UNCHANGED <<lock, desched, target>>

\* cond_wait: deschedule(&reject) with reject 0 blocks
Deschedule(t) ==
    /\ pc[t] = "desched"
    /\ desched' = desched \cup {t}
    /\ pc' = [pc EXCEPT ![t] = "blocked"]
    /\ UNCHANGED <<count, lock, cvList, target>>

\* made runnable: cond_wait's mutex_lock(mp), then sem_wait's mutex_unlock
Relock(t) ==
    /\ pc[t] = "relock" /\ LockFree
    /\ pc' = [pc EXCEPT ![t] = "cs"]
    /\ UNCHANGED <<count, lock, cvList, desched, target>>

SemSignalIncrementFirst(t) ==
    /\ pc[t] = "cs" /\ LockFree
    /\ IF count + 1 < 0 /\ cvList # <<>>
       THEN /\ target' = [target EXCEPT ![t] = Head(cvList)]
            /\ cvList' = Tail(cvList)
            /\ lock' = t
            /\ pc' = [pc EXCEPT ![t] = "signal"]
            /\ count' = count + 1
       ELSE /\ count' = count + 1
            /\ pc' = [pc EXCEPT ![t] = "idle"]
            /\ UNCHANGED <<cvList, lock, target>>
    /\ UNCHANGED desched

SemSignalDoubleCount(t) ==
    /\ pc[t] = "cs" /\ LockFree
    /\ count' = count + 1
    /\ IF count < 0 /\ cvList # <<>>
       THEN /\ target' = [target EXCEPT ![t] = Head(cvList)]
            /\ cvList' = Tail(cvList)
            /\ lock' = t
            /\ pc' = [pc EXCEPT ![t] = "signal"]
       ELSE /\ pc' = [pc EXCEPT ![t] = "idle"]
            /\ UNCHANGED <<cvList, lock, target>>
    /\ UNCHANGED desched

\* sem_signal: lock; count below zero: cond_signal takes the oldest waiter
\* off the list and loops on make_runnable (holding sem->lock); otherwise
\* increment and unlock
SemSignal(t) ==
    /\ pc[t] = "cs" /\ LockFree
    /\ IF count < 0 /\ cvList # <<>>
       THEN /\ target' = [target EXCEPT ![t] = Head(cvList)]
            /\ cvList' = Tail(cvList)
            /\ lock' = t
            /\ pc' = [pc EXCEPT ![t] = "signal"]
            /\ UNCHANGED count
       ELSE /\ count' = count + 1
            /\ pc' = [pc EXCEPT ![t] = "idle"]
            /\ UNCHANGED <<cvList, lock, target>>
    /\ UNCHANGED desched

\* make_runnable(tid) succeeds once the waiter is descheduled (until then
\* the signaller yields to it); sem_signal then increments and unlocks
MakeRunnable(t) ==
    /\ pc[t] = "signal"
    /\ target[t] \in desched
    /\ desched' = desched \ {target[t]}
    /\ pc' = [pc EXCEPT ![t] = "idle", ![target[t]] = "relock"]
    /\ count' = count + 1
    /\ lock' = NoThread
    /\ target' = [target EXCEPT ![t] = NoThread]
    /\ UNCHANGED cvList

Next ==
    \E t \in Threads :
        \/ SemWait(t) \/ Deschedule(t) \/ Relock(t)
        \/ SemSignal(t) \/ MakeRunnable(t)

Spec == Init /\ [][Next]_vars

\* a waiter runs to its deschedule and, once runnable, wins the xchange of
\* sem->lock whenever it is free infinitely often (the spinning threads
\* yield to the holder); a signaller is scheduled until its
\* make_runnable succeeds; a thread leaves its critical section
FairSpec ==
    /\ Spec
    /\ \A t \in Threads :
        /\ WF_vars(Deschedule(t)) /\ SF_vars(Relock(t))
        /\ WF_vars(MakeRunnable(t)) /\ SF_vars(SemSignal(t))

-----------------------------------------------------------------------------
(* Properties *)

\* threads past sem_wait and not yet through sem_signal's increment
Inside == {t \in Threads : pc[t] \in {"relock", "cs", "signal"}}

\* the semaphore admits at most SemInit threads at a time
SemBound == Cardinality(Inside) <= SemInit

\* no lost wake-up: a thread that waits in sem_wait eventually gets past it
WaitersProceed ==
    \A t \in Threads : pc[t] \in {"desched", "blocked"} ~> pc[t] = "cs"
================================================================================
