------------------------------ MODULE ZFODFault -------------------------------
(***************************************************************************)
(* The physical frame allocator and the page-directory manager of          *)
(* src/kern/vm.c, and the page-fault handler of src/kern/fault_handler.c,  *)
(* for one process whose threads fault concurrently, beside another        *)
(* process that allocates and frees frames through the same allocator.    *)
(*                                                                         *)
(* alloc_list, the circular list of free frames, is a sequence whose      *)
(* first element is the head.  Frame ZERO is the shared zero frame; the   *)
(* other frames are positive integers in address order.  A page table is  *)
(* the set of PTEs of the pages of one directory entry (DirOf); when the  *)
(* PDE is not present the PTEs have no meaning.  Page content is not      *)
(* represented: the zero frame is zero, a private frame is zeroed when    *)
(* mapped, and no property is about what a program stores.               *)
(*                                                                         *)
(* handle_page_fault is a trap-gate handler: interrupts are enabled from  *)
(* the trap to mutex_lock, so a sibling thread may run between the fault  *)
(* and the PCB lock.  Everything the handler does under the PCB lock is   *)
(* one step; its allocator calls take vm_lock inside it, and the other    *)
(* process's allocator calls are separate steps.                         *)
(***************************************************************************)
EXTENDS Integers, Sequences, SequencesExt, FiniteSets

CONSTANTS
    Frames,          \* allocatable frames, positive integers in address order
    Pages,           \* user pages of the process
    Dirs,            \* page-directory entries covering Pages
    DirOf,           \* the directory entry of each page
    Threads,         \* threads of the faulting process
    FreeNodeMayFail  \* whether free_frame's list-node malloc may fail

ASSUME /\ Frames \subseteq Nat \ {0}
       /\ DirOf \in [Pages -> Dirs]
       /\ FreeNodeMayFail \in BOOLEAN

ZERO == 0                     \* ZERO_FRAME, USER_PAGE_START
NoFrame == -1                 \* page_addr of a cleared PTE
READ_ONLY == 0
READ_WRITE == 1
PAGE_UNAVAILABLE == 0
PAGE_AVAILABLE == 1
ABNORMAL == -2                \* status forced by fault_kill_thread
NoThread == 0

VARIABLES
    alloc_list,   \* vm.c: free frames, head first
    other,        \* frames held by the other process
    pde,          \* [Dirs -> [p, available]]
    pte,          \* [Pages -> [p, page_addr, rw, available]]
    pc,           \* per thread: user, trapped, locked, kill, vanish, dead
                  \* (vanished by a fault) or exited (vanished by itself)
    err,          \* per thread: the error code and cr2 saved by the trap
    lock,         \* holder of the PCB lock
    alive_seen,   \* fault_kill_thread's thread_alive_count
    status,       \* the process's exit status
    destroyed,    \* destruct_page_dir has run
    allowed       \* availability of each page when the process started

vars == <<alloc_list, other, pde, pte, pc, err, lock, alive_seen, status,
          destroyed, allowed>>

PDE(p, a) == [p |-> p, available |-> a]
PTE(p, f, rw, a) == [p |-> p, page_addr |-> f, rw |-> rw, available |-> a]
\* (pte_t){ .available = a }
Cleared(a) == PTE(FALSE, NoFrame, READ_ONLY, a)

TypeOK ==
    /\ alloc_list \in Seq(Frames)
    /\ other \subseteq Frames
    /\ pde \in [Dirs -> [p : BOOLEAN, available : {0, 1}]]
    /\ pte \in [Pages -> [p : BOOLEAN, page_addr : Frames \cup {ZERO, NoFrame},
                          rw : {READ_ONLY, READ_WRITE}, available : {0, 1}]]
    /\ pc \in [Threads -> {"user", "trapped", "locked", "kill", "vanish", "dead",
                           "exited"}]
    /\ err \in [Threads -> [v : Pages, p : BOOLEAN, wr : {0, 1}]]
    /\ lock \in Threads \cup {NoThread}
    /\ alive_seen \in [Threads -> 0..Cardinality(Threads)]
    /\ status \in {0, ABNORMAL}
    /\ destroyed \in BOOLEAN
    /\ allowed \in [Pages -> {PAGE_UNAVAILABLE, PAGE_AVAILABLE}]

(***************************************************************************)
(* Frame allocator.                                                        *)
(***************************************************************************)

\* mutant: the zero-frame test dropped
FreeFrameZero(F, f, nodeOk) ==
    IF f = NoFrame THEN F
    ELSE IF F = <<>> \/ F[1] > f THEN (IF nodeOk THEN <<f>> \o F ELSE F)
    ELSE LET i == Min({k \in 1..Len(F) : k = Len(F) \/ F[k + 1] > f})
         IN IF F[i] = f \/ ~nodeOk THEN F ELSE InsertAt(F, i + 1, f)

\* mutant: the walk never leaves the head, so the frame goes right after it
FreeFrameNoWalk(F, f, nodeOk) ==
    IF f = ZERO \/ f = NoFrame THEN F
    ELSE IF F = <<>> \/ F[1] > f THEN (IF nodeOk THEN <<f>> \o F ELSE F)
    ELSE IF F[1] = f \/ ~nodeOk THEN F ELSE InsertAt(F, 2, f)

\* free_frame: insert in address order, unless the frame is below the user
\* region or is the zero frame, or is already in the pool.  When the list
\* node cannot be allocated the frame is dropped; callers ignore the result.
FreeFrame(F, f, nodeOk) ==
    IF f = ZERO \/ f = NoFrame THEN F
    ELSE IF F = <<>> \/ F[1] > f THEN (IF nodeOk THEN <<f>> \o F ELSE F)
    ELSE \* the walk from the head stops at the last node before a larger one
         LET i == Min({k \in 1..Len(F) : k = Len(F) \/ F[k + 1] > f})
         IN IF F[i] = f \/ ~nodeOk THEN F ELSE InsertAt(F, i + 1, f)

\* the outcomes a malloc of a list node can have in this configuration
NodeOutcomes == IF FreeNodeMayFail THEN BOOLEAN ELSE {TRUE}

(***************************************************************************)
(* Page-directory manager.  Each operation maps the tables (P, T) and the  *)
(* pool F to a record of the new ones and the result.                     *)
(***************************************************************************)

\* find_frame
Lookup(P, T, v) ==
    IF ~P[DirOf[v]].p THEN "NONPRESENT_PDE"
    ELSE IF ~T[v].p THEN "NONPRESENT_PTE"
    ELSE "PHYSICAL_FRAME_MAPPED"

\* get_availability: the PDE's bits stand for all its pages while it is
\* absent; -1 (here NoFrame) once the page is mapped
Availability(P, T, v) ==
    CASE Lookup(P, T, v) = "NONPRESENT_PDE" -> P[DirOf[v]].available
      [] Lookup(P, T, v) = "NONPRESENT_PTE" -> T[v].available
      [] OTHER -> NoFrame

\* the new page table of map_new_frame / map_zero_frame: every PTE inherits
\* the PDE's available bits; the PDE becomes present
WithTable(P, T, v) ==
    LET d == DirOf[v] IN
    [pde |-> [P EXCEPT ![d] = PDE(TRUE, 0)],
     pte |-> [w \in Pages |-> IF DirOf[w] = d THEN Cleared(P[d].available)
                                              ELSE T[w]]]

\* mutant: the frame is taken from the pool without popping it
MapNewFrameNoPop(P, T, F, v, tableOk) ==
    LET r == Lookup(P, T, v)
        t == IF r = "NONPRESENT_PDE" THEN WithTable(P, T, v)
                                     ELSE [pde |-> P, pte |-> T]
    IN CASE r = "PHYSICAL_FRAME_MAPPED" \/ (r = "NONPRESENT_PDE" /\ ~tableOk)
              -> [pde |-> P, pte |-> T, free |-> F, ok |-> FALSE]
         [] F = <<>>
              -> [pde |-> t.pde, pte |-> t.pte, free |-> F, ok |-> FALSE]
         [] OTHER
              -> [pde |-> t.pde,
                  pte |-> [t.pte EXCEPT ![v] = PTE(TRUE, Head(F), READ_WRITE, 0)],
                  free |-> F, ok |-> TRUE]

\* map_new_frame(v); tableOk is whether smemalign of a page table succeeds
MapNewFrame(P, T, F, v, tableOk) ==
    LET r == Lookup(P, T, v)
        t == IF r = "NONPRESENT_PDE" THEN WithTable(P, T, v)
                                     ELSE [pde |-> P, pte |-> T]
    IN CASE r = "PHYSICAL_FRAME_MAPPED" \/ (r = "NONPRESENT_PDE" /\ ~tableOk)
              -> [pde |-> P, pte |-> T, free |-> F, ok |-> FALSE]
         [] F = <<>>
              -> [pde |-> t.pde, pte |-> t.pte, free |-> F, ok |-> FALSE]
         [] OTHER
              -> [pde |-> t.pde,
                  pte |-> [t.pte EXCEPT ![v] = PTE(TRUE, Head(F), READ_WRITE, 0)],
                  free |-> Tail(F), ok |-> TRUE]

\* map_zero_frame(v)
MapZeroFrame(P, T, F, v, tableOk) ==
    LET r == Lookup(P, T, v)
        t == IF r = "NONPRESENT_PDE" THEN WithTable(P, T, v)
                                     ELSE [pde |-> P, pte |-> T]
    IN IF r = "PHYSICAL_FRAME_MAPPED" \/ (r = "NONPRESENT_PDE" /\ ~tableOk)
       THEN [pde |-> P, pte |-> T, free |-> F, ok |-> FALSE]
       ELSE [pde |-> t.pde,
             pte |-> [t.pte EXCEPT ![v] = PTE(TRUE, ZERO, READ_ONLY, 0)],
             free |-> F, ok |-> TRUE]

\* unmap_frame(v): the page becomes available again and its frame is freed
UnmapFrame(P, T, F, v, nodeOk) ==
    IF Lookup(P, T, v) # "PHYSICAL_FRAME_MAPPED"
    THEN [pde |-> P, pte |-> T, free |-> F, ok |-> FALSE]
    ELSE [pde |-> P, pte |-> [T EXCEPT ![v] = Cleared(PAGE_AVAILABLE)],
          free |-> FreeFrame(F, T[v].page_addr, nodeOk), ok |-> TRUE]

(***************************************************************************)
(* Initial state: init_allocator's ascending pool; the loader has set the  *)
(* availability of every page, at PDE level or, where a directory mixes   *)
(* available and unavailable pages, in a page table of cleared PTEs.      *)
(***************************************************************************)
Init ==
    /\ alloc_list = SetToSortSeq(Frames, <)
    /\ other = {}
    /\ \E pres \in [Dirs -> BOOLEAN], dav \in [Dirs -> {0, 1}],
          pav \in [Pages -> {0, 1}] :
          /\ pde = [d \in Dirs |-> IF pres[d] THEN PDE(TRUE, 0)
                                              ELSE PDE(FALSE, dav[d])]
          /\ pte = [v \in Pages |-> IF pres[DirOf[v]] THEN Cleared(pav[v])
                                                      ELSE Cleared(0)]
          /\ allowed = [v \in Pages |-> IF pres[DirOf[v]] THEN pav[v]
                                                          ELSE dav[DirOf[v]]]
    /\ pc = [t \in Threads |-> "user"]
    /\ err = [t \in Threads |-> [v |-> CHOOSE v \in Pages : TRUE,
                                 p |-> FALSE, wr |-> 0]]
    /\ lock = NoThread
    /\ alive_seen = [t \in Threads |-> 0]
    /\ status = 0
    /\ destroyed = FALSE

\* the MMU lets the access through
Accessible(v, wr) ==
    /\ Lookup(pde, pte, v) = "PHYSICAL_FRAME_MAPPED"
    /\ wr = 0 \/ pte[v].rw = READ_WRITE

\* a user access the MMU refuses traps with the present and write bits of
\* the error code and the address in cr2
Trap(t, v, wr) ==
    /\ pc[t] = "user"
    /\ ~Accessible(v, wr)
    /\ pc' = [pc EXCEPT ![t] = "trapped"]
    /\ err' = [err EXCEPT ![t] =
                 [v |-> v, p |-> Lookup(pde, pte, v) = "PHYSICAL_FRAME_MAPPED",
                  wr |-> wr]]
    /\ UNCHANGED <<alloc_list, other, pde, pte, lock, alive_seen, status,
                   destroyed, allowed>>

\* threads in TERMINATED_STATE
Gone == {"dead", "exited"}

\* handle_page_fault takes the PCB lock
Lock(t) ==
    /\ pc[t] = "trapped"
    /\ lock = NoThread
    /\ lock' = t
    /\ pc' = [pc EXCEPT ![t] = "locked"]
    /\ UNCHANGED <<alloc_list, other, pde, pte, err, alive_seen, status,
                   destroyed, allowed>>

NoChange == [pde |-> pde, pte |-> pte, free |-> alloc_list, ok |-> FALSE]

\* mutant: the availability test of an absent page dropped
HandleFaultResultNoAvail(e, tableOk) ==
    IF ~e.p
    THEN IF e.wr = 0 THEN MapZeroFrame(pde, pte, alloc_list, e.v, tableOk)
         ELSE MapNewFrame(pde, pte, alloc_list, e.v, tableOk)
    ELSE IF Lookup(pde, pte, e.v) # "PHYSICAL_FRAME_MAPPED"
            \/ pte[e.v].page_addr # ZERO
         THEN NoChange
         ELSE LET u == UnmapFrame(pde, pte, alloc_list, e.v, TRUE)
              IN MapNewFrame(u.pde, u.pte, u.free, e.v, tableOk)

\* the body of handle_page_fault under the lock, deciding from the saved
\* error code: an absent page is mapped if available (zero frame on read,
\* new frame on write); a present page mapped to the zero frame is unmapped
\* and remapped to a new frame; anything else, or a failed mapping, kills
HandleFaultResult(e, tableOk) ==
    IF ~e.p
    THEN IF Availability(pde, pte, e.v) # PAGE_AVAILABLE THEN NoChange
         ELSE IF e.wr = 0 THEN MapZeroFrame(pde, pte, alloc_list, e.v, tableOk)
         ELSE MapNewFrame(pde, pte, alloc_list, e.v, tableOk)
    ELSE IF Lookup(pde, pte, e.v) # "PHYSICAL_FRAME_MAPPED"
            \/ pte[e.v].page_addr # ZERO
         THEN NoChange
         ELSE LET u == UnmapFrame(pde, pte, alloc_list, e.v, TRUE)
              IN MapNewFrame(u.pde, u.pte, u.free, e.v, tableOk)

HandleFault(t) ==
    /\ pc[t] = "locked"
    /\ \E tableOk \in BOOLEAN :
         LET r == HandleFaultResult(err[t], tableOk) IN
         /\ pde' = r.pde
         /\ pte' = r.pte
         /\ alloc_list' = r.free
         /\ pc' = [pc EXCEPT ![t] = IF r.ok THEN "user" ELSE "kill"]
    /\ lock' = NoThread
    /\ UNCHANGED <<other, err, alive_seen, status, destroyed, allowed>>

\* fault_kill_thread counts the live threads under the PCB lock, then
\* releases it
KillCount(t) ==
    /\ pc[t] = "kill"
    /\ lock = NoThread
    /\ alive_seen' = [alive_seen EXCEPT ![t] =
                        Cardinality({u \in Threads : pc[u] \notin Gone})]
    /\ pc' = [pc EXCEPT ![t] = "vanish"]
    /\ UNCHANGED <<alloc_list, other, pde, pte, err, lock, status, destroyed,
                   allowed>>

\* ... and, without the lock, forces the abnormal status if it counted
\* itself alone, then vanishes (the thread becomes TERMINATED)
KillFinish(t) ==
    /\ pc[t] = "vanish"
    /\ status' = IF alive_seen[t] =< 1 THEN ABNORMAL ELSE status
    /\ pc' = [pc EXCEPT ![t] = "dead"]
    /\ UNCHANGED <<alloc_list, other, pde, pte, err, lock, alive_seen,
                   destroyed, allowed>>

\* a thread calls vanish: it becomes TERMINATED
Vanish(t) ==
    /\ pc[t] = "user"
    /\ pc' = [pc EXCEPT ![t] = "exited"]
    /\ UNCHANGED <<alloc_list, other, pde, pte, err, lock, alive_seen, status,
                   destroyed, allowed>>

\* the frame a page is mapped to in a live address space
MappedTo(v) ==
    IF ~destroyed /\ Lookup(pde, pte, v) = "PHYSICAL_FRAME_MAPPED"
    THEN pte[v].page_addr ELSE NoFrame

\* destruct_page_dir, once every thread has vanished: every mapped user
\* frame is freed, directory by directory and page by page
DestructPageDir ==
    /\ \A t \in Threads : pc[t] \in Gone
    /\ ~destroyed
    /\ \E nodeOk \in [Pages -> NodeOutcomes] :
         LET order == SetToSortSeq({v \in Pages : MappedTo(v) # NoFrame}, <)
             step(F, v) == FreeFrame(F, MappedTo(v), nodeOk[v])
         IN alloc_list' = FoldLeft(step, alloc_list, order)
    /\ destroyed' = TRUE
    /\ pde' = [d \in Dirs |-> PDE(FALSE, 0)]
    /\ UNCHANGED <<other, pte, pc, err, lock, alive_seen, status, allowed>>

\* the other process: alloc_frame pops the head of the pool
OtherAlloc ==
    /\ alloc_list # <<>>
    /\ other' = other \cup {Head(alloc_list)}
    /\ alloc_list' = Tail(alloc_list)
    /\ UNCHANGED <<pde, pte, pc, err, lock, alive_seen, status, destroyed,
                   allowed>>

\* the other process: free_frame of a frame it holds
OtherFree(f) ==
    /\ f \in other
    /\ other' = other \ {f}
    /\ \E nodeOk \in NodeOutcomes : alloc_list' = FreeFrame(alloc_list, f, nodeOk)
    /\ UNCHANGED <<pde, pte, pc, err, lock, alive_seen, status, destroyed,
                   allowed>>

Next ==
    \/ \E t \in Threads, v \in Pages, wr \in {0, 1} : Trap(t, v, wr)
    \/ \E t \in Threads : Lock(t) \/ HandleFault(t) \/ KillCount(t)
                          \/ KillFinish(t) \/ Vanish(t)
    \/ DestructPageDir
    \/ OtherAlloc
    \/ \E f \in Frames : OtherFree(f)

Spec == Init /\ [][Next]_vars

(***************************************************************************)
(* Properties.                                                             *)
(***************************************************************************)

\* Frame accounting across alloc_frame, free_frame, the fault handler's
\* mappings, the zero-frame upgrade and destruct_page_dir: every frame is
\* in exactly one place, once in the pool, held by the other process, or
\* mapped by exactly one page of the live address space.
FramesConserved ==
    \A f \in Frames :
        Cardinality({i \in 1..Len(alloc_list) : alloc_list[i] = f})
        + (IF f \in other THEN 1 ELSE 0)
        + Cardinality({v \in Pages : MappedTo(v) = f}) = 1

\* The ZFOD contract of handle_page_fault: a page the loader left
\* unavailable is never mapped, whichever thread faults on it and however
\* the faults interleave.
UnavailableNeverMapped ==
    \A v \in Pages : allowed[v] = PAGE_UNAVAILABLE => MappedTo(v) = NoFrame

\* alloc_list implements the abstract pool of FreeFrames: alloc_frame takes
\* the lowest free frame and free_frame only ever adds a frame, so the
\* address-ordered insertion of free_frame keeps the head the lowest.
Pool == INSTANCE FreeFrames WITH pool <- ToSet(alloc_list)
RefinesFreeFrames == Pool!Spec

\* handle_page_fault kills a thread only for an access the MMU would refuse
\* at the moment of the decision: a fault on a page that is by then mapped
\* with the access it needs is never fatal.
NoKillOfAccessiblePage ==
    [][\A t \in Threads :
         (pc[t] = "locked" /\ pc'[t] = "kill") => ~Accessible(err[t].v, err[t].wr)
      ]_vars

\* fault_kill_thread: when every thread of the process has died of a fault,
\* the process's exit status is the abnormal one.
FaultDeathAbnormal ==
    (\A t \in Threads : pc[t] = "dead") => status = ABNORMAL
================================================================================
