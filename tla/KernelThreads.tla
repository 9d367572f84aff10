----------------------------- MODULE KernelThreads -----------------------------
(***************************************************************************)
(* The global thread lists of the control-block store (kern/ctrl_blk.c),   *)
(* the round-robin scheduler (kern/scheduler.c), the context switcher      *)
(* (kern/context_switcher.c) and the timer and keyboard interrupts that    *)
(* drive them (kern/timer.c, kern/keyboard.c).                             *)
(*                                                                         *)
(* A circular doubly-linked list with a head pointer is a sequence whose   *)
(* first element is the head: "insert before the head" appends, "push     *)
(* front" prepends, moving the head pointer to the next node rotates.      *)
(* Every action runs with interrupts disabled in the code (interrupt gates *)
(* for timer and keyboard, disable_interrupts() around the list updates of *)
(* the system calls), so each is one atomic step.                          *)
(*                                                                         *)
(* Time is kept relative: tcb[t].wakeup is wakeup_time - tick_count,       *)
(* clamped at -1 (overdue by a tick or more).  Every comparison the code   *)
(* makes                                                                   *)
(* (wakeup_time <= tick_count, and the order of wake times in SLEEP) is    *)
(* preserved, so tick_count itself needs no bound.  The wrap of the        *)
(* unsigned tick_count is not represented.                                 *)
(***************************************************************************)
EXTENDS Integers, Sequences, SequencesExt, FiniteSets

CONSTANTS
    Threads,    \* TCB slots (integers); within a process ids follow creation order
    Owner,      \* Owner[t]: the PCB the slot belongs to
    Idle,       \* the root thread, which runs the idle loop after boot
    InitThread, \* the thread of init, forked off the root process at boot
    MaxSleep    \* largest sleep(ticks) argument enumerated

Procs == {Owner[t] : t \in Threads}

ASSUME /\ Threads \subseteq Nat
       /\ Owner \in [Threads -> Procs]
       /\ {Idle, InitThread} \subseteq Threads
       /\ Owner[Idle] # Owner[InitThread]
       /\ MaxSleep \in Nat \ {0}

\* thread states and blocking reasons (ctrl_blk.h)
NEW_STATE == "NEW"
READY_STATE == "READY"
RUNNING_STATE == "RUNNING"
WAITING_STATE == "WAITING"
TERMINATED_STATE == "TERMINATED"
SLEEP == "SLEEP"
READLINE == "READLINE"
DESCHEDULE == "DESCHEDULE"
VANISH_WAIT == "VANISH_WAIT"
NoReason == "NONE"

States == {NEW_STATE, READY_STATE, RUNNING_STATE, WAITING_STATE, TERMINATED_STATE}
Reasons == {SLEEP, READLINE, DESCHEDULE, VANISH_WAIT}
\* thread_lists[] is indexed by state, and by reason for WAITING
ListIds == {READY_STATE, RUNNING_STATE, TERMINATED_STATE} \cup Reasons
NoNode == 0

VARIABLES
    thread_lists,   \* thread_lists[THREAD_LIST_COUNT]
    tcb             \* per TCB: state and blocking_detail

vars == <<thread_lists, tcb>>

TCBType == [state : States, reason : Reasons \cup {NoReason},
            wakeup : -1..MaxSleep, first_reader : BOOLEAN]

Running == Head(thread_lists[RUNNING_STATE])

\* the list a TCB's recorded state and reason name
ListIdx(T, t) == IF T[t].state = WAITING_STATE THEN T[t].reason ELSE T[t].state

\* node after position i of a circular list, as a thread
NextNode(s, i) == IF i = Len(s) THEN s[1] ELSE s[i + 1]

HeadOrNull(s) == IF s = <<>> THEN NoNode ELSE s[1]

\* Bug variant of Destination: the sorted SLEEP insert compares against the
\* thread's own, not yet updated, blocking_detail instead of the new one.
DestinationStaleWakeup(L, T, t, s, d) ==
    LET tgt == IF s = WAITING_STATE THEN d.reason ELSE s
        lst == L[tgt]
        w   == T[t].wakeup
    IN CASE tgt = SLEEP ->
              IF lst = <<>> \/ T[lst[1]].wakeup >= w
              THEN [node |-> HeadOrNull(lst), front |-> TRUE]
              ELSE LET i == SelectInSubSeq(lst, 2, Len(lst),
                                 LAMBDA x : T[x].wakeup >= w)
                   IN [node |-> IF i = 0 THEN lst[1] ELSE lst[i],
                       front |-> FALSE]
         [] tgt = READLINE ->
              [node |-> HeadOrNull(lst), front |-> d.first_reader]
         [] tgt = READY_STATE ->
              LET j == SelectLastInSeq(lst, LAMBDA x : Owner[x] = Owner[t])
              IN [node |-> IF j = 0 THEN HeadOrNull(lst) ELSE NextNode(lst, j),
                  front |-> FALSE]
         [] tgt = RUNNING_STATE ->
              [node |-> HeadOrNull(lst), front |-> TRUE]
         [] OTHER ->
              [node |-> HeadOrNull(lst), front |-> FALSE]

\* Bug variant of Destination: READY insertion skips the search for the
\* thread's process and always links at the tail.
DestinationNoGroup(L, T, t, s, d) ==
    LET tgt == IF s = WAITING_STATE THEN d.reason ELSE s
        lst == L[tgt]
    IN CASE tgt = SLEEP ->
              IF lst = <<>> \/ T[lst[1]].wakeup >= d.wakeup
              THEN [node |-> HeadOrNull(lst), front |-> TRUE]
              ELSE LET i == SelectInSubSeq(lst, 2, Len(lst),
                                 LAMBDA x : T[x].wakeup >= d.wakeup)
                   IN [node |-> IF i = 0 THEN lst[1] ELSE lst[i],
                       front |-> FALSE]
         [] tgt = READLINE ->
              [node |-> HeadOrNull(lst), front |-> d.first_reader]
         [] tgt = RUNNING_STATE ->
              [node |-> HeadOrNull(lst), front |-> TRUE]
         [] OTHER ->
              [node |-> HeadOrNull(lst), front |-> FALSE]

(***************************************************************************)
(* alter_state: the destination node and whether the node becomes the      *)
(* head, computed on the lists as they are before the unlink.              *)
(***************************************************************************)
Destination(L, T, t, s, d) ==
    LET tgt == IF s = WAITING_STATE THEN d.reason ELSE s
        lst == L[tgt]
    IN CASE tgt = SLEEP ->
              IF lst = <<>> \/ T[lst[1]].wakeup >= d.wakeup
              THEN [node |-> HeadOrNull(lst), front |-> TRUE]
              ELSE LET i == SelectInSubSeq(lst, 2, Len(lst),
                                 LAMBDA x : T[x].wakeup >= d.wakeup)
                   IN [node |-> IF i = 0 THEN lst[1] ELSE lst[i],
                       front |-> FALSE]
         [] tgt = READLINE ->
              [node |-> HeadOrNull(lst), front |-> d.first_reader]
         [] tgt = READY_STATE ->
              LET j == SelectLastInSeq(lst, LAMBDA x : Owner[x] = Owner[t])
              IN [node |-> IF j = 0 THEN HeadOrNull(lst) ELSE NextNode(lst, j),
                  front |-> FALSE]
         [] tgt = RUNNING_STATE ->
              [node |-> HeadOrNull(lst), front |-> TRUE]
         [] OTHER ->   \* DESCHEDULE, VANISH_WAIT, TERMINATED: tail
              [node |-> HeadOrNull(lst), front |-> FALSE]

\* relink a node before `dst.node'; before the head means at the tail
Link(s, dst, t) ==
    IF dst.node = NoNode THEN <<t>>
    ELSE IF dst.front THEN <<t>> \o s
    ELSE LET i == SelectInSeq(s, LAMBDA x : x = dst.node)
         IN IF i = 1 THEN Append(s, t) ELSE InsertAt(s, i, t)

\* Bug variants of AlterState: the state written is the list index
\* (AlterStateListIdx), or the state is written only for WAITING
\* (AlterStateNoState).
AlterStateListIdx(L, T, t, s, d) ==
    LET src == ListIdx(T, t)
        tgt == IF s = WAITING_STATE THEN d.reason ELSE s
        L1  == [L EXCEPT ![src] = Remove(@, t)]
    IN IF src \notin ListIds \/ ~Contains(L[src], t)
       THEN [lists |-> L, tcbs |-> T]
       ELSE [lists |-> [L1 EXCEPT ![tgt] = Link(L1[tgt], Destination(L, T, t, s, d), t)],
             tcbs  |-> [T EXCEPT ![t].state = tgt]]

AlterStateNoState(L, T, t, s, d) ==
    LET src == ListIdx(T, t)
        tgt == IF s = WAITING_STATE THEN d.reason ELSE s
        L1  == [L EXCEPT ![src] = Remove(@, t)]
    IN IF src \notin ListIds \/ ~Contains(L[src], t)
       THEN [lists |-> L, tcbs |-> T]
       ELSE [lists |-> [L1 EXCEPT ![tgt] = Link(L1[tgt], Destination(L, T, t, s, d), t)],
             tcbs  |-> IF s = WAITING_STATE
                       THEN [T EXCEPT ![t] = [state |-> s, reason |-> d.reason,
                                              wakeup |-> d.wakeup,
                                              first_reader |-> d.first_reader]]
                       ELSE T]

\* alter_state(t, s, d) on lists L and TCBs T; returns both.  A thread not
\* found in the list its state names makes it return -1 with no change.
AlterState(L, T, t, s, d) ==
    LET src == ListIdx(T, t)
        tgt == IF s = WAITING_STATE THEN d.reason ELSE s
        dst == Destination(L, T, t, s, d)
        L1  == [L EXCEPT ![src] = Remove(@, t)]
    IN IF src \notin ListIds \/ ~Contains(L[src], t)
       THEN [lists |-> L, tcbs |-> T]
       ELSE [lists |-> [L1 EXCEPT ![tgt] = Link(L1[tgt], dst, t)],
             tcbs  |-> [T EXCEPT ![t] =
                          IF s = WAITING_STATE
                          THEN [state |-> s, reason |-> d.reason,
                                wakeup |-> d.wakeup,
                                first_reader |-> d.first_reader]
                          ELSE [@ EXCEPT !.state = s]]]

NoDetail == [reason |-> NoReason, wakeup |-> 0, first_reader |-> FALSE]

\* switch_context(target, s, d): alter_state of the running thread to s,
\* then of the target to RUNNING, both results ignored
SwitchContext(L, T, target, s, d) ==
    \E a \in {AlterState(L, T, Head(L[RUNNING_STATE]), s, d)} :
    \E b \in {AlterState(a.lists, a.tcbs, target, RUNNING_STATE, NoDetail)} :
        thread_lists' = b.lists /\ tcb' = b.tcbs

\* round_robin: the READY head, and the head moved to the next node of a
\* different process, if any
RoundRobin(L) ==
    LET r == L[READY_STATE]
        i == SelectInSubSeq(r, 2, Len(r), LAMBDA x : Owner[x] # Owner[r[1]])
    IN IF r = <<>> THEN [target |-> NoNode, lists |-> L]
       ELSE [target |-> r[1],
             lists  |-> IF i = 0 THEN L
                        ELSE [L EXCEPT ![READY_STATE] =
                                 SubSeq(r, i, Len(r)) \o SubSeq(r, 1, i - 1)]]

\* Bug variant of FindNextThread: any thread of the process that is not
\* RUNNING is taken, whatever its state.
FindNextThreadNotRunning(L, T) ==
    LET mine == {t \in Threads : Owner[t] = Owner[Head(L[RUNNING_STATE])]
                                 /\ T[t].state \notin {RUNNING_STATE, NEW_STATE}}
    IN IF mine # {}
       THEN [target |-> CHOOSE t \in mine : \A u \in mine : t <= u, lists |-> L]
       ELSE RoundRobin(L)

\* find_next_thread: the first READY thread of the running process's
\* tcb_list (creation order = id order), else round_robin
FindNextThread(L, T) ==
    LET mine == {t \in Threads : Owner[t] = Owner[Head(L[RUNNING_STATE])]
                                 /\ T[t].state = READY_STATE}
    IN IF mine # {}
       THEN [target |-> CHOOSE t \in mine : \A u \in mine : t <= u, lists |-> L]
       ELSE RoundRobin(L)

\* apply find_next_thread, then switch_context if it found a thread
SwitchToNext(s, d) ==
    \E n \in {FindNextThread(thread_lists, tcb)} :
        IF n.target = NoNode
        THEN thread_lists' = n.lists /\ UNCHANGED tcb
        ELSE SwitchContext(n.lists, tcb, n.target, s, d)

(***************************************************************************)
(* Boot (kernel.c kernel_main): init_ctrl_blk puts the root thread in      *)
(* RUNNING; init is loaded and fork_ctrl_blk appends its thread to READY;  *)
(* the root then loads idle.  Blocking details start zeroed.               *)
(***************************************************************************)
Init ==
    /\ thread_lists = [l \in ListIds |->
                         CASE l = RUNNING_STATE -> <<Idle>>
                           [] l = READY_STATE   -> <<InitThread>>
                           [] OTHER       -> <<>>]
    /\ tcb = [t \in Threads |->
                [state |-> CASE t = Idle -> RUNNING_STATE
                             [] t = InitThread -> READY_STATE
                             [] OTHER -> NEW_STATE,
                 reason |-> NoReason, wakeup |-> 0, first_reader |-> FALSE]]

\* one tick: every stored wake time moves one tick closer
Aged(T) == [t \in Threads |->
              IF T[t].state = WAITING_STATE /\ T[t].reason = SLEEP
              THEN [T[t] EXCEPT !.wakeup = IF @ > -1 THEN @ - 1 ELSE -1]
              ELSE T[t]]

(***************************************************************************)
(* handle_timer: tick_count++; if the SLEEP head is due, switch to it and  *)
(* make the interrupted thread READY; otherwise (every tick, as            *)
(* TIMER_INTERRUPT_HZ / ROUND_ROBIN_HZ = 1) round robin and switch to its  *)
(* choice, if any.                                                         *)
(***************************************************************************)
\* Bug variant of Tick: the SLEEP head is woken only when its wake time
\* equals tick_count, not when it is at or before it.
TickEq ==
    \E T \in {Aged(tcb)}, rr \in {RoundRobin(thread_lists)} :
        LET sl == thread_lists[SLEEP]
        IN IF sl # <<>> /\ T[sl[1]].wakeup = 0
           THEN SwitchContext(thread_lists, T, sl[1], READY_STATE, NoDetail)
           ELSE IF rr.target = NoNode
           THEN thread_lists' = rr.lists /\ tcb' = T
           ELSE SwitchContext(rr.lists, T, rr.target, READY_STATE, NoDetail)

Tick ==
    \E T \in {Aged(tcb)}, rr \in {RoundRobin(thread_lists)} :
        LET sl == thread_lists[SLEEP]
        IN IF sl # <<>> /\ T[sl[1]].wakeup <= 0
           THEN SwitchContext(thread_lists, T, sl[1], READY_STATE, NoDetail)
           ELSE IF rr.target = NoNode
           THEN thread_lists' = rr.lists /\ tcb' = T
           ELSE SwitchContext(rr.lists, T, rr.target, READY_STATE, NoDetail)

(***************************************************************************)
(* handle_keyboard: the scancode is queued (modelled in the keyboard       *)
(* buffer, not here); if the READLINE head is the first reader, switch to  *)
(* it and make the interrupted thread READY.                               *)
(***************************************************************************)
\* Bug variant of Keyboard: the first reader is made RUNNING by alter_state
\* alone, without switching the interrupted thread out.
KeyboardNoSwitch ==
    LET rl == thread_lists[READLINE]
    IN IF rl # <<>> /\ tcb[rl[1]].first_reader
       THEN \E r \in {AlterState(thread_lists, tcb, rl[1], RUNNING_STATE, NoDetail)} :
              thread_lists' = r.lists /\ tcb' = r.tcbs
       ELSE UNCHANGED vars

Keyboard ==
    LET rl == thread_lists[READLINE]
    IN IF rl # <<>> /\ tcb[rl[1]].first_reader
       THEN SwitchContext(thread_lists, tcb, rl[1], READY_STATE, NoDetail)
       ELSE UNCHANGED vars

\* threads other than idle make system calls
Caller == Running # Idle

\* sleep(ticks), ticks > 0: block on SLEEP until tick_count + ticks
Sleep(n) ==
    /\ Caller
    /\ SwitchToNext(WAITING_STATE, [reason |-> SLEEP, wakeup |-> n,
                              first_reader |-> FALSE])

\* yield(-1): give the CPU to find_next_thread's choice, if any
Yield ==
    /\ Caller
    /\ SwitchToNext(READY_STATE, NoDetail)

\* yield(tid): switch to a READY thread named by tid
YieldTo(t) ==
    /\ Caller
    /\ tcb[t].state = READY_STATE
    /\ SwitchContext(thread_lists, tcb, t, READY_STATE, NoDetail)

\* deschedule(&reject) with *reject = 0: block on DESCHEDULE
Deschedule ==
    /\ Caller
    /\ SwitchToNext(WAITING_STATE, [reason |-> DESCHEDULE, wakeup |-> 0,
                              first_reader |-> FALSE])

\* make_runnable(tid): find_tcb_in_list(tid, DESCHEDULE), then READY
MakeRunnable(t) ==
    /\ Caller
    /\ Contains(thread_lists[DESCHEDULE], t)
    /\ \E r \in {AlterState(thread_lists, tcb, t, READY_STATE, NoDetail)} :
          thread_lists' = r.lists /\ tcb' = r.tcbs

\* readline with no complete line buffered: block on READLINE, at the
\* front as the first reader when no other reader waits
Readline ==
    /\ Caller
    /\ SwitchToNext(WAITING_STATE, [reason |-> READLINE, wakeup |-> 0,
                              first_reader |-> thread_lists[READLINE] = <<>>])

\* vanish: the calling thread ends in TERMINATED
Vanish ==
    /\ Caller
    /\ SwitchToNext(TERMINATED_STATE, NoDetail)

\* the next free slot of process p, in creation order
FreeSlot(p) == {t \in Threads : Owner[t] = p /\ tcb[t].state = NEW_STATE}
NextSlot(p) == CHOOSE t \in FreeSlot(p) : \A u \in FreeSlot(p) : t <= u

(***************************************************************************)
(* thread_fork_ctrl_blk: the new TCB copies the caller's, is READY, and is *)
(* linked into READY after the last node of its process (searching back   *)
(* from the tail), else at the tail.                                      *)
(***************************************************************************)
ThreadFork ==
    /\ Caller
    /\ FreeSlot(Owner[Running]) # {}
    /\ LET t   == NextSlot(Owner[Running])
           rdy == thread_lists[READY_STATE]
           j   == SelectLastInSeq(rdy, LAMBDA x : Owner[x] = Owner[t])
       IN /\ thread_lists' = [thread_lists EXCEPT ![READY_STATE] =
                                IF j = 0 THEN Append(@, t) ELSE InsertAt(@, j + 1, t)]
          /\ tcb' = [tcb EXCEPT ![t] = [tcb[Running] EXCEPT !.state = READY_STATE]]

\* alive threads of process p (get_thread_alive_count)
AliveCount(p) == Cardinality({t \in Threads : Owner[t] = p
                               /\ tcb[t].state \notin {NEW_STATE, TERMINATED_STATE}})

(***************************************************************************)
(* fork_ctrl_blk (list part): the child process's only TCB copies the      *)
(* caller's, is READY and is appended at the READY tail.  fork is refused  *)
(* for a multi-threaded caller.                                            *)
(***************************************************************************)
Fork(p) ==
    /\ Caller
    /\ AliveCount(Owner[Running]) = 1
    /\ \A t \in Threads : Owner[t] = p => tcb[t].state = NEW_STATE
    /\ LET t == NextSlot(p)
       IN /\ thread_lists' = [thread_lists EXCEPT ![READY_STATE] = Append(@, t)]
          /\ tcb' = [tcb EXCEPT ![t] = [tcb[Running] EXCEPT !.state = READY_STATE]]

Next ==
    \/ Tick
    \/ Keyboard
    \/ \E n \in 1..MaxSleep : Sleep(n)
    \/ Yield
    \/ \E t \in Threads : YieldTo(t)
    \/ Deschedule
    \/ \E t \in Threads : MakeRunnable(t)
    \/ Readline
    \/ Vanish
    \/ ThreadFork
    \/ \E p \in Procs : Fork(p)

\* the timer interrupt fires periodically whatever the threads do
Spec == Init /\ [][Next]_vars /\ WF_vars(Tick)

--------------------------------------------------------------------------------
(* Properties *)

TypeOK ==
    /\ thread_lists \in [ListIds -> Seq(Threads)]
    /\ tcb \in [Threads -> TCBType]

Occurrences(s, t) == Cardinality({i \in DOMAIN s : s[i] = t})

\* alter_state is the single point of truth for list membership: every
\* created thread is linked exactly once, in the list its recorded state and
\* blocking reason name, and a NEW slot is in no list.
ListsMatchState ==
    \A t \in Threads, l \in ListIds :
        Occurrences(thread_lists[l], t) =
            IF tcb[t].state # NEW_STATE /\ l = ListIdx(tcb, t) THEN 1 ELSE 0

\* At every point where interrupts are enabled the RUNNING list holds
\* exactly one thread (specification section 8), although switch_context
\* ignores what its two alter_state calls return.
OneRunning == Len(thread_lists[RUNNING_STATE]) = 1

\* alter_state's sorted insert keeps SLEEP ordered by wake time, which is
\* what lets handle_timer look only at the head.
SleepSorted ==
    LET s == thread_lists[SLEEP]
    IN \A i \in 1..Len(s) - 1 : tcb[s[i]].wakeup <= tcb[s[i + 1]].wakeup

\* The insertion policies of alter_state and thread_fork_ctrl_blk and the
\* head rotation of round_robin keep the READY threads of each process
\* adjacent in the circular list.
ReadyGrouped ==
    LET r == thread_lists[READY_STATE]
    IN \A p \in Procs :
         Cardinality({i \in 1..Len(r) : Owner[r[i]] = p
                                         /\ Owner[NextNode(r, i)] # p}) <= 1

\* the abstract state of a thread is the list that holds it
AbsWhere == [t \in Threads |->
               IF \E l \in ListIds : Contains(thread_lists[l], t)
               THEN CHOOSE l \in ListIds : Contains(thread_lists[l], t)
               ELSE "NEW"]

Abs == INSTANCE ThreadStates WITH where <- AbsWhere

\* The list operations implement the thread state machine of
\* specification section 4.1: threads move only along its transitions, one
\* running thread hands the CPU to a ready or just-woken one, and
\* TERMINATED is never left.
RefinesThreadStates == Abs!Spec

Sleeping(t) == tcb[t].state = WAITING_STATE /\ tcb[t].reason = SLEEP

\* Every thread that calls sleep is eventually running again: handle_timer
\* wakes the SLEEP head once it is due, one per tick.
SleeperWakes == \A t \in Threads : Sleeping(t) ~> tcb[t].state = RUNNING_STATE

\* Specification section 8, scenario B: a sleeping thread is back within
\* one scheduler quantum of its wake time.  handle_timer wakes only the
\* SLEEP head on a tick, so a sleeper is never overdue by a whole tick.
SleepWakesInTime == \A t \in Threads : Sleeping(t) => tcb[t].wakeup >= 0

\* Round robin spreads CPU time across processes (specification section
\* 4.3): every READY thread other than idle is eventually running, given the
\* timer keeps ticking.
ReadyRuns == \A t \in Threads \ {Idle} : tcb[t].state = READY_STATE
                                          ~> tcb[t].state = RUNNING_STATE

================================================================================
