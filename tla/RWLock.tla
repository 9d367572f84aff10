-------------------------------- MODULE RWLock --------------------------------
(***************************************************************************)
(* The reader/writer lock of the user thread library                       *)
(* (src/user/libthread/rwlock.c), with the condition variable it waits on *)
(* (cond.c) and the kernel's deschedule/make_runnable underneath.           *)
(*                                                                         *)
(* rw_list holds one record per thread that holds or requests the lock,    *)
(* "in the order of lock assignment"; each record has its own condition    *)
(* variable, whose waiter list holds at most its own thread, so the cv     *)
(* lists are the set inCv.  Every change to rw_list, and every cv list     *)
(* operation made by this module, happens while rw_list_manipulation (the  *)
(* xchg mutex, owner mgr) is held, so each such critical section is one    *)
(* step, except that a cond_signal under the mutex spins in make_runnable  *)
(* until its waiter has descheduled: that wait is a state of its own.      *)
(* A waiter's cond_wait releases the mutex, deschedules, and re-locks the  *)
(* mutex once made runnable, and rwlock_lock then unlocks it at once.      *)
(***************************************************************************)
EXTENDS Integers, Sequences, SequencesExt, FiniteSets

CONSTANTS
    Threads,     \* thread ids
    Ops,         \* Ops[t]: the calls thread t makes, a subset of
                 \* {"read", "write", "downgrade"} ("downgrade": take a
                 \* write lock and downgrade it before unlocking)
    NoThread,
    MallocMayFail  \* whether rwlock_lock's malloc of its record can fail

ASSUME NoThread \notin Threads /\ MallocMayFail \in BOOLEAN

READ == "R"
WRITE == "W"

VARIABLES
    rw_list,     \* <<[tid, type]>>, head first
    mgr,         \* holder of rw_list_manipulation, or NoThread
    inCv,        \* threads in their record's rw_lock_permission waiter list
    desched,     \* threads descheduled in the kernel
    pc,          \* per thread, see PCs
    op,          \* the call the thread is in
    sigq,        \* cond_signal calls still to make, in order (record tids)
    target       \* the thread a cond_signal spins on, or NoThread

vars == <<rw_list, mgr, inCv, desched, pc, op, sigq, target>>

PCs == {"idle", "wait", "blocked", "relock", "cs", "signal", "hung"}
Records == [tid : Threads, type : {READ, WRITE}]

TypeOK ==
    /\ rw_list \in Seq(Records)
    /\ mgr \in Threads \cup {NoThread}
    /\ inCv \subseteq Threads /\ desched \subseteq Threads
    /\ pc \in [Threads -> PCs]
    /\ op \in [Threads -> {"read", "write", "downgrade", "hang", "none"}]
    /\ sigq \in [Threads -> Seq(Threads)]
    /\ target \in [Threads -> Threads \cup {NoThread}]

\* find_by_rw_lock_type / find_by_thread_id: index of the first match, 0 if
\* none
FirstType(l, ty) ==
    IF \E i \in 1..Len(l) : l[i].type = ty
    THEN Min({i \in 1..Len(l) : l[i].type = ty}) ELSE 0
IndexOf(l, t) ==
    IF \E i \in 1..Len(l) : l[i].tid = t
    THEN Min({i \in 1..Len(l) : l[i].tid = t}) ELSE 0

\* remove_node by index
Drop(l, i) == SubSeq(l, 1, i - 1) \o SubSeq(l, i + 1, Len(l))

\* the tids of l[i..j]
Tids(l, i, j) == [k \in 1..(j - i + 1) |-> l[i + k - 1].tid]

Init ==
    /\ rw_list = <<>>
    /\ mgr = NoThread
    /\ inCv = {} /\ desched = {}
    /\ pc = [t \in Threads |-> "idle"]
    /\ op = [t \in Threads |-> "none"]
    /\ sigq = [t \in Threads |-> <<>>]
    /\ target = [t \in Threads |-> NoThread]

MgrFree == mgr = NoThread

\* mutant: the writer linked in front of the first reader even when that
\* reader is the head
InsertWriterBeforeHead(l, rec) ==
    LET r == FirstType(l, READ) IN
    IF FirstType(l, WRITE) = 0 \/ r = 0 THEN Append(l, rec)
    ELSE InsertAt(l, r, rec)

\* the record insertion of rwlock_lock: append_node at the tail, except that
\* a writer arriving while a writer is listed goes in front of the first
\* reader (append_node(first_r_node_ptr, ..) links it before that node,
\* which is the tail end of the circle when the first reader is the head)
InsertWriter(l, rec) ==
    LET r == FirstType(l, READ) IN
    IF FirstType(l, WRITE) = 0 \/ r = 0 \/ r = 1 THEN Append(l, rec)
    ELSE InsertAt(l, r, rec)

\* the rw_lock_type of the record rwlock_lock creates (callers pass
\* RWLOCK_READ or RWLOCK_WRITE, so is_rw_lock_type's check always passes)
LockType(o) == IF o = "read" THEN READ ELSE WRITE

\* mutant: a writer waits only for another writer
MustWaitIgnoreReaders(ty, l) == FirstType(l, WRITE) # 0

\* rwlock_lock's switch: a reader waits when a writer is listed, a writer
\* when anyone is
MustWait(ty, l) ==
    IF ty = READ THEN FirstType(l, WRITE) # 0 ELSE l # <<>>

\* rwlock_lock(type): malloc the record, take the mutex, insert the record;
\* return at once, or cond_wait: join the record's cv list and release the
\* mutex (cond_wait's own cv->lock is taken and dropped inside the step)
Lock(t, o) ==
    /\ pc[t] = "idle" /\ MgrFree
    /\ o \in Ops[t]
    /\ LET ty == LockType(o)
           rec == [tid |-> t, type |-> ty]
           mustWait == MustWait(ty, rw_list)
       IN /\ rw_list' = IF ty = READ THEN Append(rw_list, rec)
                        ELSE InsertWriter(rw_list, rec)
          /\ pc' = [pc EXCEPT ![t] = IF mustWait THEN "wait" ELSE "cs"]
          /\ inCv' = IF mustWait THEN inCv \cup {t} ELSE inCv
    /\ op' = [op EXCEPT ![t] = o]
    /\ UNCHANGED <<mgr, desched, sigq, target>>

\* rwlock_lock when malloc of the record fails: it returns before taking
\* the mutex, and since it returns nothing its caller goes on into the
\* critical section as if the lock had been granted (cond_init cannot fail
\* on the record's own cv, so lines 98-100 are never taken)
LockNoRecord(t, o) ==
    /\ MallocMayFail
    /\ pc[t] = "idle"
    /\ o \in Ops[t]
    /\ pc' = [pc EXCEPT ![t] = "cs"]
    /\ op' = [op EXCEPT ![t] = o]
    /\ UNCHANGED <<rw_list, mgr, inCv, desched, sigq, target>>

\* cond_wait: deschedule(&reject) with reject 0 always blocks
Deschedule(t) ==
    /\ pc[t] = "wait"
    /\ pc' = [pc EXCEPT ![t] = "blocked"]
    /\ desched' = desched \cup {t}
    /\ UNCHANGED <<rw_list, mgr, inCv, op, sigq, target>>

\* made runnable: cond_wait re-locks the mutex, rwlock_lock unlocks it
Relock(t) ==
    /\ pc[t] = "relock" /\ MgrFree
    /\ pc' = [pc EXCEPT ![t] = "cs"]
    /\ UNCHANGED <<rw_list, mgr, inCv, desched, op, sigq, target>>

\* the cond_signal calls of rwlock_unlock after removing a record of type
\* `my', l being the list left: the RWLOCK_READ case signals a writer at the
\* head and falls through into the RWLOCK_WRITE case, which signals a
\* writer at the head or every reader up to the first writer
ReaderPrefixEnd(l) ==
    IF FirstType(l, WRITE) = 0 THEN Len(l) ELSE FirstType(l, WRITE) - 1
UnlockSignals(my, l) ==
    IF l = <<>> THEN <<>>
    ELSE (IF my = READ /\ l[1].type = WRITE THEN <<l[1].tid>> ELSE <<>>)
         \o (IF l[1].type = WRITE THEN <<l[1].tid>>
             ELSE Tids(l, 1, ReaderPrefixEnd(l)))

\* rwlock_unlock: under the mutex, remove the caller's record (return if it
\* has none) and make the signals; the mutex is released after them
Unlock(t) ==
    /\ pc[t] = "cs" /\ MgrFree
    /\ op[t] # "downgrade"
    /\ LET i == IndexOf(rw_list, t)
           l == Drop(rw_list, i)
       IN IF i = 0
          THEN /\ pc' = [pc EXCEPT ![t] = "idle"]
               /\ op' = [op EXCEPT ![t] = "none"]
               /\ UNCHANGED <<rw_list, mgr, sigq>>
          ELSE /\ rw_list' = l
               /\ mgr' = t
               /\ sigq' = [sigq EXCEPT ![t] = UnlockSignals(rw_list[i].type, l)]
               /\ pc' = [pc EXCEPT ![t] = "signal"]
               /\ op' = [op EXCEPT ![t] = "none"]
    /\ UNCHANGED <<inCv, desched, target>>

\* mutant: the writers behind the head are left where they are
MoveOutcomesStay(l) == {[list |-> l, hang |-> FALSE]}

\* the writer loop of rwlock_downgrade reads node_ptr->data after
\* remove_node has freed node_ptr (node_ptr is never advanced): the build
\* either finds the freed block reused by append_node's malloc, or still
\* holding the writer record, and spins for ever, or reads a clobbered
\* record and leaves after the first move
MoveOutcomes(l) ==
    IF Len(l) >= 2 /\ l[2].type = WRITE
    THEN {[list |-> Append(Drop(l, 2), l[2]), hang |-> b] : b \in BOOLEAN}
    ELSE {[list |-> l, hang |-> FALSE]}

\* the cond_signal loop of rwlock_downgrade: from the first reader r round
\* the circle back to the head
DowngradeSignals(l, r) ==
    IF r = 0 THEN <<>> ELSE Tids(l, r, Len(l))

\* mutant: the caller's record keeps its writer type
DowngradeRetypeNone(l) == l

\* first_record_ptr->rw_lock_type = RWLOCK_READ
DowngradeRetype(l) == [l EXCEPT ![1].type = READ]

\* rwlock_downgrade: under the mutex, check that the caller is the writer at
\* the head; signal every record from the first reader to the tail, move
\* the writers behind the head to the tail, and retype the caller's record
Downgrade(t) ==
    /\ pc[t] = "cs" /\ MgrFree
    /\ op[t] = "downgrade"
    /\ IF rw_list = <<>> \/ rw_list[1] # [tid |-> t, type |-> WRITE]
       THEN /\ op' = [op EXCEPT ![t] = "write"]
            /\ UNCHANGED <<rw_list, mgr, pc, sigq>>
       ELSE LET r == FirstType(rw_list, READ) IN
            \E m \in (IF r = 0 THEN {[list |-> rw_list, hang |-> FALSE]}
                      ELSE MoveOutcomes(rw_list)) :
               /\ rw_list' = DowngradeRetype(m.list)
               /\ sigq' = [sigq EXCEPT ![t] = DowngradeSignals(rw_list, r)]
               /\ op' = [op EXCEPT ![t] = IF m.hang THEN "hang" ELSE "read"]
               /\ mgr' = t
               /\ pc' = [pc EXCEPT ![t] = "signal"]
    /\ UNCHANGED <<inCv, desched, target>>

\* mutant: cond_signal calls make_runnable once, and a waiter that has not
\* descheduled yet is never woken
SignalOnce(t) ==
    /\ pc[t] = "signal" /\ target[t] = NoThread /\ sigq[t] # <<>>
    /\ LET s == Head(sigq[t]) IN
       /\ inCv' = inCv \ {s}
       /\ target' = [target EXCEPT ![t] = IF s \in inCv /\ s \in desched
                                           THEN s ELSE NoThread]
    /\ sigq' = [sigq EXCEPT ![t] = Tail(sigq[t])]
    /\ UNCHANGED <<rw_list, mgr, desched, pc, op>>

\* cond_signal: take the waiter, if any, off the record's cv list
Signal(t) ==
    /\ pc[t] = "signal" /\ target[t] = NoThread /\ sigq[t] # <<>>
    /\ LET s == Head(sigq[t]) IN
       /\ inCv' = inCv \ {s}
       /\ target' = [target EXCEPT ![t] = IF s \in inCv THEN s ELSE NoThread]
    /\ sigq' = [sigq EXCEPT ![t] = Tail(sigq[t])]
    /\ UNCHANGED <<rw_list, mgr, desched, pc, op>>

\* cond_signal: make_runnable(tid) fails until the waiter has descheduled
\* (the caller yields to it meanwhile), then wakes it
MakeRunnable(t) ==
    /\ pc[t] = "signal"
    /\ target[t] # NoThread /\ target[t] \in desched
    /\ desched' = desched \ {target[t]}
    /\ pc' = [pc EXCEPT ![t] = "signal", ![target[t]] = "relock"]
    /\ target' = [target EXCEPT ![t] = NoThread]
    /\ UNCHANGED <<rw_list, mgr, inCv, op, sigq>>

\* the end of rwlock_unlock or rwlock_downgrade: mutex_unlock, unless the
\* downgrade loop spins
Release(t) ==
    /\ pc[t] = "signal" /\ target[t] = NoThread /\ sigq[t] = <<>>
    /\ IF op[t] = "hang"
       THEN pc' = [pc EXCEPT ![t] = "hung"] /\ UNCHANGED mgr
       ELSE /\ mgr' = NoThread
            /\ pc' = [pc EXCEPT ![t] = IF op[t] = "none" THEN "idle" ELSE "cs"]
    /\ UNCHANGED <<rw_list, inCv, desched, op, sigq, target>>

\* the writer loop of rwlock_downgrade spinning, with the mutex held
Spin(t) ==
    /\ pc[t] = "hung"
    /\ UNCHANGED vars

Next ==
    \E t \in Threads :
        \/ \E o \in {"read", "write", "downgrade"} : Lock(t, o) \/ LockNoRecord(t, o)
        \/ Deschedule(t) \/ Relock(t)
        \/ Unlock(t) \/ Downgrade(t)
        \/ Signal(t) \/ MakeRunnable(t) \/ Release(t)
        \/ Spin(t)

Spec == Init /\ [][Next]_vars

\* The threads run by the kernel's round-robin scheduler: a runnable thread
\* keeps getting the CPU (weak fairness on every step but a new call), and a
\* thread spinning on the xchg mutex with thr_yield gets it when it is free
\* again and again (strong fairness on Relock).  Callers unlock eventually.
Fairness ==
    \A t \in Threads :
        /\ WF_vars(Deschedule(t)) /\ SF_vars(Relock(t))
        /\ WF_vars(Unlock(t)) /\ WF_vars(Downgrade(t))
        /\ WF_vars(Signal(t)) /\ WF_vars(MakeRunnable(t)) /\ WF_vars(Release(t))

FairSpec == Spec /\ Fairness

(***************************************************************************)
(* Properties                                                              *)
(***************************************************************************)

\* the threads holding the lock: in their critical section, or inside
\* rwlock_downgrade (signalling) once it has retyped their record
Holders == {t \in Threads : pc[t] = "cs" \/ (pc[t] \in {"signal", "hung"} /\ op[t] # "none")}
\* a holder without a record holds in the mode it asked for
ModeOf(t) == IF IndexOf(rw_list, t) = 0 THEN LockType(op[t])
             ELSE rw_list[IndexOf(rw_list, t)].type

\* rwlock_lock returns a write lock only to a thread alone in the lock, and
\* after rwlock_downgrade "no threads hold the lock in RWLOCK_WRITE mode":
\* no thread holds it for writing while another holds it at all.
RWExclusion ==
    \A t \in Holders : ModeOf(t) = WRITE => Holders = {t}

\* rw_list keeps its records "in the order of lock assignment": the threads
\* that hold the lock or have been woken to take it are a prefix of the
\* list, and every record belongs to a thread in rwlock_lock, holding the
\* lock, or in the signalling part of rwlock_downgrade.
Granted == Holders \cup {t \in Threads : pc[t] = "relock"}
GrantedPrefix ==
    /\ \A i, j \in 1..Len(rw_list) :
         i < j /\ rw_list[j].tid \in Granted => rw_list[i].tid \in Granted
    /\ \A i \in 1..Len(rw_list) :
         pc[rw_list[i].tid] \in {"wait", "blocked", "relock", "cs", "signal", "hung"}

\* A writer that waits in rwlock_lock is eventually granted the lock: the
\* signal of the unlock that makes it the head reaches it (cond_signal spins
\* in make_runnable until the waiter has descheduled), and is never lost.
WritersProceed ==
    \A t \in Threads :
        (pc[t] \in {"wait", "blocked"} /\ op[t] # "read") ~> pc[t] = "cs"
================================================================================
