------------------------------- MODULE ThreadLib -------------------------------
(***************************************************************************)
(* The thread-management part of the user thread library                  *)
(* (src/user/libthread/thread.c): thr_create, the child's wrap_func,       *)
(* thr_join and thr_exit over thread_info_chain, guarded by                *)
(* thread_info_chain_mutex, with the joiner waiting on the record's        *)
(* status_ready condition variable (cond_wait/cond_signal over the         *)
(* kernel's deschedule/make_runnable, as in RWLock).                        *)
(*                                                                         *)
(* A thread's stack is named by the thread (the root thread's record has   *)
(* a NULL stack); `freed' counts the free() calls on each stack, so a      *)
(* double free is visible.  Each critical section of the chain mutex is    *)
(* one step, except the make_runnable retry of a cond_signal made under    *)
(* it.  A thread's own function body is abstracted to the library calls it *)
(* may make.                                                               *)
(***************************************************************************)
EXTENDS Integers, Sequences, SequencesExt, FiniteSets

CONSTANTS
    Threads,     \* thread ids; Root is the thread that called thr_init
    Root,
    Joins,       \* Joins[t]: the tids thread t may pass to thr_join
    NoThread,
    ForkMayFail  \* whether thread_fork may fail (kernel out of memory)

ASSUME Root \in Threads /\ NoThread \notin Threads

NULL == NoThread          \* the root record's stack_space
FAILED == -1              \* thread_fork's error return, stored as the tid

VARIABLES
    chain,       \* thread_info_chain: <<[tid, stack, joined, exited]>>
    mtx,         \* holder of thread_info_chain_mutex, or NoThread
    pc,          \* per thread, see PCs
    inCv,        \* threads in a status_ready waiter list
    desched,     \* threads descheduled in the kernel
    target,      \* the joiner a cond_signal in thr_exit spins on
    joining,     \* the tid a thread is joining on, or NoThread
    freed,       \* free() calls per stack
    taskDone     \* task_vanish has ended the process

vars == <<chain, mtx, pc, inCv, desched, target, joining, freed, taskDone>>

Children == Threads \ {Root}
PCs == {"unborn", "wrap", "run", "joinwait", "joinblocked", "joinrelock",
        "signal", "exiting", "gone"}
Rec == [tid : Threads \cup {FAILED}, stack : Threads \cup {NULL},
        joined : BOOLEAN, exited : BOOLEAN]

TypeOK ==
    /\ chain \in Seq(Rec)
    /\ mtx \in Threads \cup {NoThread}
    /\ pc \in [Threads -> PCs]
    /\ inCv \subseteq Threads /\ desched \subseteq Threads
    /\ target \in [Threads -> Threads \cup {NoThread}]
    /\ joining \in [Threads -> Threads \cup {NoThread}]
    /\ freed \in [Children -> Nat]
    /\ taskDone \in BOOLEAN

\* the do-while searches of thr_join and thr_exit: first record with tid
Find(l, t) ==
    IF \E i \in 1..Len(l) : l[i].tid = t
    THEN Min({i \in 1..Len(l) : l[i].tid = t}) ELSE 0

\* remove_node by index
Unlink(l, i) == SubSeq(l, 1, i - 1) \o SubSeq(l, i + 1, Len(l))

\* free() of a stack (free(NULL) does nothing)
Free(f, s) == IF s = NULL THEN f ELSE [f EXCEPT ![s] = @ + 1]

\* thr_init has recorded the root thread, which runs
Init ==
    /\ chain = <<[tid |-> Root, stack |-> NULL, joined |-> FALSE, exited |-> FALSE]>>
    /\ mtx = NoThread
    /\ pc = [t \in Threads |-> IF t = Root THEN "run" ELSE "unborn"]
    /\ inCv = {} /\ desched = {}
    /\ target = [t \in Threads |-> NoThread]
    /\ joining = [t \in Threads |-> NoThread]
    /\ freed = [s \in Children |-> 0]
    /\ taskDone = FALSE

Running(t) == pc[t] = "run" /\ ~taskDone
MtxFree == mtx = NoThread

\* thr_create: the record and the stack are allocated, then under the mutex
\* the record is appended and thread_fork runs; the child's wrap_func needs
\* the mutex, so it waits until the tid has been stored.  A failed
\* thread_fork leaves its record in the chain with a negative tid.
Create(t, c) ==
    /\ Running(t) /\ MtxFree
    /\ pc[c] = "unborn"
    /\ \E ok \in (IF ForkMayFail THEN BOOLEAN ELSE {TRUE}) :
         /\ chain' = Append(chain, [tid |-> IF ok THEN c ELSE FAILED,
                                    stack |-> c, joined |-> FALSE, exited |-> FALSE])
         /\ pc' = IF ok THEN [pc EXCEPT ![c] = "wrap"] ELSE [pc EXCEPT ![c] = "gone"]
    /\ UNCHANGED <<mtx, inCv, desched, target, joining, freed, taskDone>>

\* wrap_func: find the own record under the mutex, then run func
Wrap(c) ==
    /\ pc[c] = "wrap" /\ ~taskDone /\ MtxFree
    /\ Find(chain, c) # 0
    /\ pc' = [pc EXCEPT ![c] = "run"]
    /\ UNCHANGED <<chain, mtx, inCv, desched, target, joining, freed, taskDone>>

\* thr_join(j): under the mutex, search the record; none: -1; exited: free
\* its stack and unlink it; already joined on: -1; otherwise mark it and
\* cond_wait on status_ready (join the waiter list, release the mutex)
Join(t, j) ==
    /\ Running(t) /\ MtxFree
    /\ j \in Joins[t]
    /\ LET i == Find(chain, j) IN
       CASE i = 0 -> UNCHANGED <<chain, pc, inCv, joining, freed>>
         [] chain[i].exited ->
              /\ chain' = Unlink(chain, i)
              /\ freed' = Free(freed, chain[i].stack)
              /\ UNCHANGED <<pc, inCv, joining>>
         [] chain[i].joined -> UNCHANGED <<chain, pc, inCv, joining, freed>>
         [] OTHER ->
              /\ chain' = [chain EXCEPT ![i].joined = TRUE]
              /\ inCv' = inCv \cup {t}
              /\ joining' = [joining EXCEPT ![t] = j]
              /\ pc' = [pc EXCEPT ![t] = "joinwait"]
              /\ UNCHANGED freed
    /\ UNCHANGED <<mtx, desched, target, taskDone>>

\* cond_wait: deschedule(&reject) with reject 0 blocks
JoinDeschedule(t) ==
    /\ pc[t] = "joinwait" /\ ~taskDone
    /\ pc' = [pc EXCEPT ![t] = "joinblocked"]
    /\ desched' = desched \cup {t}
    /\ UNCHANGED <<chain, mtx, inCv, target, joining, freed, taskDone>>

\* made runnable, cond_wait re-locks the mutex and thr_join re-tests
\* has_exited through its record pointer: wait again, or free the stack
\* and unlink the node.  The record itself is never freed, so when another
\* joiner has already unlinked it the pointer still reads has_exited, the
\* stack is freed again and remove_node finds nothing.
JoinRelock(t) ==
    /\ pc[t] = "joinrelock" /\ ~taskDone /\ MtxFree
    /\ LET j == joining[t]
           i == Find(chain, j)
       IN IF i # 0 /\ ~chain[i].exited
          THEN /\ inCv' = inCv \cup {t}
               /\ pc' = [pc EXCEPT ![t] = "joinwait"]
               /\ UNCHANGED <<chain, joining, freed>>
          ELSE /\ chain' = IF i = 0 THEN chain ELSE Unlink(chain, i)
               /\ freed' = Free(freed, j)
               /\ joining' = [joining EXCEPT ![t] = NoThread]
               /\ pc' = [pc EXCEPT ![t] = "run"]
               /\ UNCHANGED inCv
    /\ UNCHANGED <<mtx, desched, target, taskDone>>

\* destruct_each_thread: take the last node's record and free its stack,
\* then step to that node's previous node and remove *it*; with one node
\* left the previous node is the node itself
RECURSIVE DestructFrees(_, _)
DestructFrees(l, f) ==
    IF l = <<>> THEN f
    ELSE LET n == Len(l)
             victim == IF n = 1 THEN 1 ELSE n - 1
         IN DestructFrees(Unlink(l, victim), Free(f, l[n].stack))

AliveCountAll(l) == Len(l)

\* the records thr_exit counts as alive
AliveCount(l) == Cardinality({i \in 1..Len(l) : ~l[i].exited})

\* thr_exit: under the mutex, search the own record and count the records
\* not exited.  At most one: destruct_each_thread, unlock, task_vanish (the
\* process ends; the other threads have all left thr_exit's critical
\* section and only vanish remains for them).  Otherwise mark the record
\* exited and, if it is joined on, cond_signal status_ready; then unlock
\* and vanish.
\* destruct_each_thread under the mutex, then task_vanish: every thread ends
DestructAndVanish ==
    /\ freed' = DestructFrees(chain, freed)
    /\ chain' = <<>>
    /\ taskDone' = TRUE
    /\ pc' = [u \in Threads |-> "gone"]
    /\ UNCHANGED <<mtx, inCv, target>>

ChildExitNoSignal(t, i) ==
    /\ chain' = [chain EXCEPT ![i].exited = TRUE]
    /\ pc' = [pc EXCEPT ![t] = "exiting"]
    /\ UNCHANGED <<mtx, inCv, target, freed, taskDone>>

\* thr_exit's child path on record i: mark it exited and, if it is joined
\* on, cond_signal status_ready (its first waiter leaves the list and is
\* made runnable with the mutex still held); else unlock
ChildExit(t, i) ==
    /\ chain' = [chain EXCEPT ![i].exited = TRUE]
    /\ IF chain[i].joined /\ \E w \in inCv : joining[w] = t
       THEN LET w == CHOOSE w \in inCv : joining[w] = t IN
            /\ inCv' = inCv \ {w}
            /\ target' = [target EXCEPT ![t] = w]
            /\ mtx' = t
            /\ pc' = [pc EXCEPT ![t] = "signal"]
       ELSE /\ pc' = [pc EXCEPT ![t] = "exiting"]
            /\ UNCHANGED <<mtx, inCv, target>>
    /\ UNCHANGED <<freed, taskDone>>

Exit(t) ==
    /\ Running(t) /\ MtxFree
    /\ IF AliveCount(chain) <= 1
       THEN DestructAndVanish
       ELSE ChildExit(t, Find(chain, t))
    /\ UNCHANGED <<desched, joining>>

ExitWakeKeepLock(t) ==
    /\ pc[t] = "signal" /\ ~taskDone
    /\ target[t] \in desched
    /\ desched' = desched \ {target[t]}
    /\ pc' = [pc EXCEPT ![t] = "exiting", ![target[t]] = "joinrelock"]
    /\ target' = [target EXCEPT ![t] = NoThread]
    /\ UNCHANGED <<chain, mtx, inCv, joining, freed, taskDone>>

\* cond_signal's make_runnable succeeds once the joiner has descheduled;
\* thr_exit then unlocks the mutex
ExitWake(t) ==
    /\ pc[t] = "signal" /\ ~taskDone
    /\ target[t] \in desched
    /\ desched' = desched \ {target[t]}
    /\ pc' = [pc EXCEPT ![t] = "exiting", ![target[t]] = "joinrelock"]
    /\ target' = [target EXCEPT ![t] = NoThread]
    /\ mtx' = NoThread
    /\ UNCHANGED <<chain, inCv, joining, freed, taskDone>>

\* vanish() after thr_exit's critical section
Vanish(t) ==
    /\ pc[t] = "exiting" /\ ~taskDone
    /\ pc' = [pc EXCEPT ![t] = "gone"]
    /\ UNCHANGED <<chain, mtx, inCv, desched, target, joining, freed, taskDone>>

\* handle_thread_crash, the swexn handler of a faulting thread: destruct
\* the chain under the mutex and task_vanish(-1)
ThreadCrash(t) ==
    /\ Running(t) /\ MtxFree
    /\ DestructAndVanish
    /\ UNCHANGED <<desched, joining>>

\* the process has ended: by task_vanish, or by the vanish of its last thread
Live == {"wrap", "run", "joinwait", "joinblocked", "joinrelock", "signal", "exiting"}
Ended == taskDone \/ \A t \in Threads : pc[t] \notin Live
Terminated == Ended /\ UNCHANGED vars

Next ==
    \/ \E t \in Threads :
          \/ \E c \in Children : Create(t, c)
          \/ Wrap(t)
          \/ \E j \in Threads : Join(t, j)
          \/ JoinDeschedule(t) \/ JoinRelock(t)
          \/ Exit(t) \/ ExitWake(t) \/ Vanish(t) \/ ThreadCrash(t)
    \/ Terminated

Spec == Init /\ [][Next]_vars

\* a joiner is descheduled and woken, and re-locks the contended chain
\* mutex (mutex_lock retries with yield); the woken threads' steps are
\* taken by the kernel scheduler
Fairness ==
    \A t \in Threads :
        /\ WF_vars(Wrap(t)) /\ WF_vars(JoinDeschedule(t))
        /\ SF_vars(JoinRelock(t)) /\ WF_vars(ExitWake(t)) /\ WF_vars(Vanish(t))

FairSpec == Spec /\ Fairness

-----------------------------------------------------------------------------
(* Properties *)

\* thr_join and destruct_each_thread free each child's stack at most once
NoDoubleFree == \A s \in Children : freed[s] <= 1

\* a stack is freed only once its thread has vanished (or by the task_vanish
\* that ends every thread): thr_join frees the stack of a thread that has
\* set has_exited but may still be running on that stack until vanish()
StackFreedAfterVanish ==
    [][\A s \in Children :
         freed'[s] > freed[s] => pc[s] \notin Live \/ taskDone']_vars

\* the exit status of the last thread reaches the kernel: when no thread is
\* left, the process ended through thr_exit's task_vanish, not by the plain
\* vanish() of its last thread
ExitStatusReported == (\A t \in Threads : pc[t] \notin Live) => taskDone

\* a thread waiting on status_ready is the joiner of a record that has not
\* exited yet: thr_exit's cond_signal never leaves a joiner behind
WaitersPending ==
    ~taskDone =>
    \A w \in inCv :
        LET i == Find(chain, joining[w]) IN
        /\ pc[w] \in {"joinwait", "joinblocked"}
        /\ i # 0 /\ chain[i].joined /\ ~chain[i].exited

\* a joiner whose thread has entered thr_exit's child path returns from
\* thr_join
JoinersReturn ==
    \A t \in Threads :
        (/\ pc[t] \in {"joinwait", "joinblocked", "joinrelock"}
         /\ joining[t] # NoThread
         /\ pc[joining[t]] \in {"signal", "exiting", "gone"})
            ~> pc[t] = "run" \/ taskDone
================================================================================
