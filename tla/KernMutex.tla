------------------------------ MODULE KernMutex ------------------------------
(***************************************************************************)
(* The kernel mutex of src/kern/mutex.c.  A lock is the word lock_state,   *)
(* taken with an atomic exchange (xchange), and the hint tid, the thread   *)
(* that last took it or -1.  A thread that loses the exchange calls        *)
(* handle_yield with the hint and tries again.  The kernel runs on one CPU *)
(* with interrupts enabled outside alter_state, so a timer tick can switch *)
(* threads between any two steps below.                                    *)
(*                                                                         *)
(* A caller runs mutex_lock or mutex_unlock as a subroutine: it sets       *)
(* want[a] to the lock, ret[a] to the label it goes on at, and pc[a] to    *)
(* the first label of the call.  owner is auxiliary: the actor whose       *)
(* exchange read UNLOCKED, until it writes UNLOCKED back.  It is the       *)
(* refinement mapping to KernLock.                                         *)
(***************************************************************************)
EXTENDS Naturals

CONSTANTS Actors,     \* threads that call the mutex, named by their tid
          Locks,      \* the mutexes
          NoTid,      \* the -1 that mutex_init and mutex_unlock store
          NoOwner

ASSUME NoTid \notin Actors /\ NoOwner \notin Actors

UNLOCKED == 0
LOCKED == 1

VARIABLES lock_state, tid, owner, pc, want, ret

mutexVars == <<lock_state, tid, owner>>

\* mutex_init: every lock starts unlocked with no hint.
MutexInit ==
    /\ lock_state = [m \in Locks |-> UNLOCKED]
    /\ tid = [m \in Locks |-> NoTid]
    /\ owner = [m \in Locks |-> NoOwner]

\* The caller a enters mutex_lock(m) and returns to label r.
CallLock(a, m, r) ==
    /\ pc' = [pc EXCEPT ![a] = "lock_xchg"]
    /\ want' = [want EXCEPT ![a] = m]
    /\ ret' = [ret EXCEPT ![a] = r]

\* The caller a enters mutex_unlock(m) and returns to label r.
CallUnlock(a, m, r) ==
    /\ pc' = [pc EXCEPT ![a] = "unlock_tid"]
    /\ want' = [want EXCEPT ![a] = m]
    /\ ret' = [ret EXCEPT ![a] = r]

\* The while test of mutex_lock: xchange writes LOCKED and returns the old
\* value; the loop is left when that was UNLOCKED.
MutexXchg(a) ==
    LET m == want[a] IN
    /\ pc[a] = "lock_xchg"
    /\ lock_state' = [lock_state EXCEPT ![m] = LOCKED]
    /\ IF lock_state[m] = UNLOCKED
         THEN /\ owner' = [owner EXCEPT ![m] = a]
              /\ pc' = [pc EXCEPT ![a] = "lock_settid"]
         ELSE /\ pc' = [pc EXCEPT ![a] = "lock_yield"]
              /\ UNCHANGED owner
    /\ UNCHANGED <<tid, want, ret>>

\* A mutex_lock that leaves its loop after one yield, as an "if" would.
MutexYieldNoRetry(a) ==
    /\ pc[a] = "lock_yield"
    /\ owner' = [owner EXCEPT ![want[a]] = a]
    /\ pc' = [pc EXCEPT ![a] = "lock_settid"]
    /\ UNCHANGED <<lock_state, tid, want, ret>>

\* The loop body: ureg.esi = mp->tid; handle_yield(&ureg).  Which thread
\* runs next is the scheduler's choice, which the interleaving covers.
MutexYield(a) ==
    /\ pc[a] = "lock_yield"
    /\ pc' = [pc EXCEPT ![a] = "lock_xchg"]
    /\ UNCHANGED <<lock_state, tid, owner, want, ret>>

\* After the loop: mp->tid = the running thread's tid; return.
MutexSetTid(a) ==
    /\ pc[a] = "lock_settid"
    /\ tid' = [tid EXCEPT ![want[a]] = a]
    /\ pc' = [pc EXCEPT ![a] = ret[a]]
    /\ UNCHANGED <<lock_state, owner, want, ret>>

\* A mutex_unlock that forgets to clear the hint.
MutexUnlockKeepTid(a) ==
    /\ pc[a] = "unlock_tid"
    /\ pc' = [pc EXCEPT ![a] = "unlock_state"]
    /\ UNCHANGED <<lock_state, tid, owner, want, ret>>

\* mutex_unlock, first store: mp->tid = -1.  Nothing checks that the
\* caller holds the lock.
MutexUnlockTid(a) ==
    /\ pc[a] = "unlock_tid"
    /\ tid' = [tid EXCEPT ![want[a]] = NoTid]
    /\ pc' = [pc EXCEPT ![a] = "unlock_state"]
    /\ UNCHANGED <<lock_state, owner, want, ret>>

\* mutex_unlock, second store: mp->lock_state = UNLOCKED; return.
MutexUnlockState(a) ==
    /\ pc[a] = "unlock_state"
    /\ lock_state' = [lock_state EXCEPT ![want[a]] = UNLOCKED]
    /\ owner' = [owner EXCEPT ![want[a]] = NoOwner]
    /\ pc' = [pc EXCEPT ![a] = ret[a]]
    /\ UNCHANGED <<tid, want, ret>>

\* One step of whichever mutex call a is in.
MutexStep(a) ==
    \/ MutexXchg(a)
    \/ MutexYield(a)
    \/ MutexSetTid(a)
    \/ MutexUnlockTid(a)
    \/ MutexUnlockState(a)

MutexPcs == {"lock_xchg", "lock_yield", "lock_settid",
             "unlock_tid", "unlock_state"}

\* The hint a waiter reads in mutex_lock names the thread that holds the
\* lock, or is -1; it never names a thread that has given the lock back,
\* which the yield would then favour while the real holder waits.
HintNamesHolder ==
    \A m \in Locks : tid[m] \in {NoTid, owner[m]}

\* The mutex as the abstract lock of KernLock, with owner as its holder.
Abstract == INSTANCE KernLock WITH Owners <- Actors, holder <- owner
=============================================================================
