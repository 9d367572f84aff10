-------------------------------- MODULE Swexn ---------------------------------
(***************************************************************************)
(* Faults of one user thread through the trap dispatcher's one-shot swexn  *)
(* hand-off (kern/interrupt.c handle), the user handlers the libraries     *)
(* register (libautostack's handle_autostack, libthread's                  *)
(* handle_thread_crash) and the kernel's fault handlers                     *)
(* (kern/fault_handler.c: ZFOD page faults, fatal divide errors).          *)
(*                                                                         *)
(* Stack pages are numbered by depth: page 1 is the top page the loader    *)
(* writes argv into, pages 1..RegionPages are the stack region the loader *)
(* marks available, deeper pages are what autostack may grow into; Heap   *)
(* pages are what the program itself allocates with new_pages.  A handler *)
(* that ends in swexn(NULL, ..., ureg) resumes the faulting instruction,   *)
(* which traps again: `pending' is that instruction.                       *)
(***************************************************************************)
EXTENDS Naturals, FiniteSets

CONSTANTS
    RegionPages,   \* USER_STACK_LEN * 4 / PAGE_SIZE of load_executable
    MaxDepth,      \* deepest stack page the thread touches
    Heap,          \* pages the program passes to new_pages/remove_pages
    NewPagesEager, \* new_pages maps frames (TRUE) or only marks pages available
    AllocMayFail   \* whether the kernel can run out of frames for a page
                   \* or its page table

ASSUME RegionPages \in 1..MaxDepth /\ Heap \cap 1..MaxDepth = {}
ASSUME AllocMayFail \in BOOLEAN

Pages == 1..MaxDepth \cup Heap

(* The IDT that initialize_idt builds (kern/interrupt.c).  Vector numbers *)
(* are those of the wrap_handler<n> each gate is given; IDT_DE, IDT_NP,    *)
(* IDT_SS, IDT_GP and IDT_PF are the x86 exception vectors.                *)
IDT_DE == 0
IDT_NP == 11
IDT_SS == 12
IDT_GP == 13
IDT_PF == 14
KERNEL_PL == 0
USER_PL == 3
Vectors == 0..255
\* install_timer's register_timer and install_keyboard
TIMER_IDT_ENTRY == 32
KEY_IDT_ENTRY == 33
\* initialize_virtual_interrupt's gate for hypervisor calls
HV_INT == 222
\* the system-call vectors, each with handler_array[n] and a user gate
SyscallVecs == {65, 66, 68, 69, 70, 71, 72, 73, 74, 75, 76, 77, 78, 79, 80,
                81, 82, 83, 85, 87, 88, 89, 96, 98, 116}

\* add_trap_gate and add_interrupt_gate: the gate type and its DPL
TrapGate(dpl) == [type |-> "trap", dpl |-> dpl]
InterruptGate(dpl) == [type |-> "interrupt", dpl |-> dpl]

\* mutant: dummy gates open to user code
DummyGateUser(v) == TrapGate(USER_PL)

\* ADD_DUMMY_GATE: a trap gate with DPL 0 for a vector
DummyGate(v) == TrapGate(KERNEL_PL)

\* every vector first gets a dummy gate
DummyGates == [v \in Vectors |-> DummyGate(v)]

\* the gates after the device drivers, the system calls and the
\* hypervisor have installed theirs over the dummies
IDT == [v \in Vectors |->
          IF v \in SyscallVecs \cup {HV_INT} THEN TrapGate(USER_PL)
          ELSE IF v \in {TIMER_IDT_ENTRY, KEY_IDT_ENTRY}
               THEN InterruptGate(KERNEL_PL)
          ELSE DummyGates[v]]

\* handler_array: the kernel handler of each vector, "none" for NULL
HandlerArray == [v \in Vectors |->
    CASE v = IDT_PF -> "page_fault"
      [] v = IDT_SS -> "seg_fault"
      [] v = IDT_DE -> "div_zero"
      [] v = TIMER_IDT_ENTRY -> "timer"
      [] v = KEY_IDT_ENTRY -> "keyboard"
      [] v \in SyscallVecs -> "syscall"
      [] OTHER -> "none"]

\* the causes handle() offers to a registered swexn handler
SwexnCauses == {IDT_DE, IDT_NP, IDT_PF}

\* user `int n` instructions: every vector except the system calls whose
\* handlers replace or end the program (exec, halt, vanish, task_vanish)
\* or are modelled as actions of their own (new_pages, remove_pages, swexn)
IntVecs == Vectors \ {66, 73, 74, 85, 87, 96, 116}
Handlers == {"none", "autostack", "thread_crash"}
Mapping == {"none", "zero", "private"}
\* an instruction: read or write of a page, or a division by zero
Instr == [kind : {"read", "write"}, page : Pages] \cup [kind : {"divide"}]
         \cup [kind : {"int"}, vec : IntVecs]
Access(i) == i.kind \in {"read", "write"}
\* the handlers handle() can run, as the trap record names them
Ran == {"none", "swexn"} \cup {HandlerArray[v] : v \in Vectors}
NoInstr == [kind |-> "none"]

VARIABLES
    reg,        \* the thread's swexn registration
    avail,      \* pages whose available bits are PAGE_AVAILABLE
    map,        \* per page: not present, zero frame (read-only), private frame
    stackLow,   \* autostack's current_stack_low, as the depth of that page
    pending,    \* the instruction to re-execute, or NoInstr
    status,     \* "run", "killed" (fault_kill_thread), "vanished" (task_vanish(-1))
    endCause,   \* the instruction whose fault ended the thread, or NoInstr
    trap        \* auxiliary: the last trap, whether an int or a fault, and
                \* the handler handle() gave it

vars == <<reg, avail, map, stackLow, pending, status, endCause, trap>>

TypeOK ==
    /\ reg \in Handlers
    /\ avail \subseteq Pages /\ map \in [Pages -> Mapping]
    /\ stackLow \in 1..MaxDepth
    /\ pending \in Instr \cup {NoInstr} /\ endCause \in Instr \cup {NoInstr}
    /\ status \in {"run", "killed", "vanished"}
    /\ trap \in [src : {"none", "int", "fault"}, handler : Ran]

\* load_executable makes the stack region available and pushes argv, the
\* stack bounds and the return address into its top page; crt0 then calls
\* install_autostack(stack_high, stack_low)
Init ==
    /\ avail = 1..RegionPages
    /\ map = [d \in Pages |-> IF d = 1 THEN "private" ELSE "none"]
    /\ reg = "autostack"
    /\ stackLow = RegionPages
    /\ pending = NoInstr
    /\ status = "run"
    /\ endCause = NoInstr
    /\ trap = [src |-> "none", handler |-> "none"]

\* the instruction traps: an int, a divide, or an access that is not
\* present or writes a read-only page
Faults(i) ==
    \/ i.kind \in {"int", "divide"}
    \/ map[i.page] = "none"
    \/ i.kind = "write" /\ map[i.page] = "zero"

\* the not-present/present bit of the page-fault error code
Present(i) == map[i.page] # "none"

\* fault_kill_thread (handle_vanish of the thread)
Kill(i) ==
    /\ status' = "killed" /\ endCause' = i /\ pending' = NoInstr
    /\ UNCHANGED <<avail, map>>

\* the outcomes of map_zero_frame and map_new_frame: they fail when no
\* frame is left for the page or for its page table
MapOutcomes == IF AllocMayFail THEN BOOLEAN ELSE {TRUE}

\* handle_page_fault: not present and available: map the zero frame on a
\* read, a new zeroed frame on a write; present and zero frame: unmap it
\* and map a new frame.  The instruction then resumes.  Any other fault,
\* or a failing map (after which an upgraded page stays unmapped), ends
\* in fault_kill_thread.
KernelPageFault(i) ==
    LET d == i.page
        zfod == ~Present(i) /\ d \in avail
        upgrade == Present(i) /\ map[d] = "zero"
    IN IF zfod \/ upgrade
       THEN \E ok \in MapOutcomes :
              IF ok
              THEN /\ map' = [map EXCEPT ![d] = IF i.kind = "read" THEN "zero"
                                                 ELSE "private"]
                   /\ pending' = i
                   /\ UNCHANGED <<status, avail, endCause>>
              ELSE /\ status' = "killed" /\ endCause' = i /\ pending' = NoInstr
                   /\ map' = IF upgrade THEN [map EXCEPT ![d] = "none"] ELSE map
                   /\ UNCHANGED avail
       ELSE Kill(i)

\* ureg->cause: the exception vector of a fault; for `int n` the CPU
\* checks the gate's DPL against the user's privilege level 3 and raises
\* a general-protection fault instead when the gate is kernel only
Cause(i) ==
    CASE i.kind = "divide" -> IDT_DE
      [] i.kind = "int" -> IF IDT[i.vec].dpl = USER_PL THEN i.vec ELSE IDT_GP
      [] OTHER -> IDT_PF

\* handler_array[cause]: handle_page_fault; the system-call and device
\* handlers return to the next instruction; handle_div_zero_fault and
\* handle_seg_fault are fatal, and a NULL entry ends in fault_kill_thread.
\* A page fault raised by `int` carries no error code or cr2 of its own:
\* the model ends the thread.
KernelFault(i) ==
    LET h == HandlerArray[Cause(i)] IN
    CASE h = "page_fault" /\ Access(i) -> KernelPageFault(i)
      [] h \in {"syscall", "timer", "keyboard"} ->
           /\ pending' = NoInstr
           /\ UNCHANGED <<avail, map, status, endCause>>
      [] OTHER -> Kill(i)

\* new_pages(base, PAGE_SIZE): fails when the page is already allocated
NewPagesOk(d) == d \notin avail

\* new_pages on success
Allocate(d) ==
    /\ avail' = avail \cup {d}
    /\ map' = IF NewPagesEager THEN [map EXCEPT ![d] = "private"] ELSE map

AutostackHandlerKeep(i) ==
    IF \/ ~Access(i) \/ Present(i) \/ i.page # stackLow + 1
       \/ ~NewPagesOk(i.page)
    THEN /\ reg' = "autostack"
         /\ pending' = i
         /\ UNCHANGED <<avail, map, stackLow, status, endCause>>
    ELSE /\ Allocate(i.page)
         /\ stackLow' = i.page
         /\ reg' = "autostack"
         /\ pending' = i
         /\ UNCHANGED <<status, endCause>>

\* handle_autostack: not a page fault, a present-page fault, a fault
\* anywhere but the page just below current_stack_low, or a failing
\* new_pages: swexn(NULL, NULL, NULL, ureg) deregisters and resumes;
\* otherwise lower current_stack_low, re-register and resume
AutostackHandler(i) ==
    IF \/ ~Access(i) \/ Present(i) \/ i.page # stackLow + 1
       \/ ~NewPagesOk(i.page)
    THEN /\ reg' = "none"
         /\ pending' = i
         /\ UNCHANGED <<avail, map, stackLow, status, endCause>>
    ELSE /\ Allocate(i.page)
         /\ stackLow' = i.page
         /\ reg' = "autostack"
         /\ pending' = i
         /\ UNCHANGED <<status, endCause>>

\* handle_thread_crash: destruct the thread chain and task_vanish(-1)
ThreadCrashHandler(i) ==
    /\ status' = "vanished" /\ endCause' = i /\ pending' = NoInstr
    /\ UNCHANGED <<avail, map, stackLow>>

\* the thread executes instruction i (a new one, or the resumed one).  A
\* trap enters handle(): for a divide, segment-not-present or page fault
\* with a registered swexn handler, the registration is consumed and the
\* handler runs; otherwise handler_array[cause] runs
Execute(i) ==
    /\ status = "run"
    /\ pending \in {NoInstr, i}
    /\ IF ~Faults(i)
       THEN /\ pending' = NoInstr
            /\ UNCHANGED <<reg, avail, map, stackLow, status, endCause, trap>>
       ELSE LET swexn == Cause(i) \in SwexnCauses /\ reg # "none" IN
            /\ trap' = [src |-> IF i.kind = "int" THEN "int" ELSE "fault",
                         handler |-> IF swexn THEN "swexn"
                                     ELSE HandlerArray[Cause(i)]]
            /\ CASE ~swexn -> KernelFault(i) /\ UNCHANGED <<reg, stackLow>>
                 [] reg = "autostack" -> AutostackHandler(i)
                 [] OTHER -> ThreadCrashHandler(i) /\ reg' = "none"

\* the program's own new_pages of a heap page
NewPages(d) ==
    /\ status = "run" /\ pending = NoInstr
    /\ NewPagesOk(d) /\ Allocate(d)
    /\ UNCHANGED <<reg, stackLow, pending, status, endCause, trap>>

\* remove_pages of a heap page: unmapped and no longer available
RemovePages(d) ==
    /\ status = "run" /\ pending = NoInstr
    /\ d \in avail
    /\ avail' = avail \ {d}
    /\ map' = [map EXCEPT ![d] = "none"]
    /\ UNCHANGED <<reg, stackLow, pending, status, endCause, trap>>

\* thr_init: swexn(..., handle_thread_crash, ...) replaces the autostack
\* registration
ThrInit ==
    /\ status = "run" /\ pending = NoInstr
    /\ reg = "autostack"
    /\ reg' = "thread_crash"
    /\ UNCHANGED <<avail, map, stackLow, pending, status, endCause, trap>>

\* the process has ended
Ended == status # "run" /\ UNCHANGED vars

\* a single-threaded program (autostack only)
Next ==
    \/ \E i \in Instr : Execute(i)
    \/ \E d \in Heap : NewPages(d) \/ RemovePages(d)
    \/ Ended

Spec == Init /\ [][Next]_vars

\* the thread keeps executing: a resumed instruction is executed again
FairSpec == Spec /\ WF_vars(pending # NoInstr /\ Execute(pending))

\* a program that calls thr_init at some point
NextThreads == Next \/ ThrInit

SpecThreads == Init /\ [][NextThreads]_vars

-----------------------------------------------------------------------------
(* Properties *)

\* ZFOD is transparent: a fault on an available page never ends the thread
\* or its task, whichever handler the libraries have registered, as long
\* as the kernel has frames to map it (checked with AllocMayFail FALSE)
ZFODTransparent ==
    endCause \in Instr /\ Access(endCause) => endCause.page \notin avail

\* autostack grows the stack: once installed, a fault on the page just
\* below current_stack_low never ends the thread
GrowthServed ==
    endCause \in Instr /\ Access(endCause) => endCause.page # stackLow + 1

\* a user program's `int n`, for any n, reaches handle() only as a system
\* call (a vector whose gate initialize_idt opened with USER_PL) or as the
\* general-protection fault that ends the thread; it never runs the page
\* fault, segment, divide or device handlers with a cause it forged, nor
\* consumes the one-shot swexn registration
IntConfined == trap.src = "int" => trap.handler \in {"syscall", "none"}

\* a fault is resolved: the resumed instruction eventually completes (or
\* the thread ends), so no handler resumes it into the same fault forever
FaultsResolve == pending # NoInstr ~> pending = NoInstr \/ status # "run"
================================================================================
