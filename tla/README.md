# TLA+ models of the os_kernel teaching kernel

This directory holds TLA+ models of the kernel in `src/kern` and of the
user thread library in `src/user`, the TLC configurations that check them,
and `PROJECT.json`, which maps every definition to the source lines it
models and lists the runs, mutants, findings and hazards.

## 1. Inventory

### 1.1 Components, their state and their operations

| Component | Source | State | Operations |
|---|---|---|---|
| Control-block store | `kern/ctrl_blk.c` | `thread_lists[7]` (circular lists READY, RUNNING, TERMINATED, SLEEP, READLINE, DESCHEDULE, VANISH_WAIT); per TCB `state`, `blocking_detail`; per PCB `tcb_list`, `child_pcb_list`, `status`, `lock`; `thread_count` | `alter_state`, `thread_fork_ctrl_blk`, `fork_ctrl_blk`, `find_tcb_in_list`, `get_thread_alive_count`, `find_exited_child`, `unlock_children` |
| Scheduler | `kern/scheduler.c` | the READY list head | `round_robin`, `find_next_thread` |
| Context switcher | `kern/context_switcher.c` | RUNNING list, esp0 | `switch_context` (two `alter_state` calls, then register/cr3 swap) |
| Timer | `kern/timer.c` | `tick_count` | `handle_timer` (wake SLEEP head or round robin) |
| Keyboard | `kern/keyboard.c` | `scancode_buf` (ring of 1024) | `handle_keyboard` (push, wake first reader), `push_tail`, `pop_head`, `pop_tail`, `extract_ch` |
| Frame allocator | `kern/vm.c` 101-179 | `alloc_list` (ascending free frames, zero frame excluded), `vm_lock` | `init_allocator`, `alloc_frame`, `free_frame` |
| Page-directory manager | `kern/vm.c` 193-612 | PDEs/PTEs: not present + available bit, zero frame read-only, private frame | `construct_page_dir`, `destruct_page_dir`, `map_new_frame`, `map_zero_frame`, `unmap_frame`, `set_/get_access`, `set_/get_availability`, `check_user_page`, `find_frame` |
| Fault handler | `kern/fault_handler.c` | (uses PCB lock, page tables, status) | `handle_page_fault` (ZFOD), `fault_kill_thread`, segment/divide handlers |
| Trap dispatcher | `kern/interrupt.c` | `handler_array`, IDT, per-TCB swexn registration | `handle` (guest routing, one-shot swexn, table dispatch) |
| Guest virtualization | `kern/virtual_interrupt.c` | per-PCB `guest_resource` (`interrupt_enable_flag`, `esp0`, `virtual_idt`) | `handle_virtual_interrupt`, hypercalls (magic, exit, iret, setidt, enable, disable, print, cursor, color, setpd, adjustpg), `alter_page_dir`, `crash_guest` |
| Kernel mutex | `kern/mutex.c` | `lock_state`, `tid` hint | `mutex_lock`, `mutex_try_lock`, `mutex_unlock` |
| Loader | `kern/loader.c` | new page directory, availability bits | `load_executable` with `change_availability`, `map_and_clear`, `push_val` |
| Boot | `kern/kernel.c` | | `kernel_main` (init is forked off the root process, root becomes idle) |
| User mutex / cond / sem | `user/libthread/{mutex,cond,sem}.c` | lock bit + tid hint; waiter tid list; count | lock/unlock, wait/signal/broadcast over `deschedule`/`make_runnable` |
| User rwlock | `user/libthread/rwlock.c` | `rw_list` of waiters, mode, counts | `rwlock_lock`, `rwlock_unlock`, `rwlock_downgrade` |
| User threads | `user/libthread/thread.c` | `thread_info_chain` (stack, has_exited, joiner) | `thr_init`, `thr_create`, `thr_join`, `thr_exit`, `destruct_each_thread` |
| Autostack | `user/libautostack/autostack.c` | swexn registration | `install_autostack`, `handle_autostack` |

The system-call handlers (`handle_yield`, `handle_deschedule`,
`handle_make_runnable`, `handle_sleep`, `handle_vanish`, `handle_wait`,
`handle_readline`, `new_pages`, `remove_pages`, `swexn`) are declared in
`kern/inc/system_call.h` but their file is not in `src/`. Where a model needs
them they are written from the specification (section 4 and the system-call
surface in section 6) and marked `spec_modelled` in the map.

Interaction: every trap enters `handle` (interrupt.c), which routes to the
guest layer, a swexn handler, or `handler_array`. The timer and keyboard
handlers, sleep, yield, deschedule and vanish all end in `switch_context`,
which moves the outgoing and incoming TCBs between `thread_lists` through
`alter_state`. Page faults enter the ZFOD logic of `handle_page_fault`, which
allocates frames from the frame allocator; fork copies every page by its
class. The guest layer re-delivers traps into the guest's virtual IDT and
toggles page permissions with `alter_page_dir`. The user library builds its
locks on `xchange`, `yield`, `deschedule` and `make_runnable`.

### 1.2 The hard behaviours

* One CPU, mutual exclusion by disabling interrupts: timer and keyboard are
  interrupt gates, system calls and faults are trap gates and can be
  preempted anywhere the code re-enables interrupts.
* List discipline: `alter_state` computes the insertion point before it
  unlinks the node, with four insertion policies; the two calls of
  `switch_context` ignore its return value.
* The scheduler's head rotation and the READY grouping policy decide
  whether every ready thread eventually runs.
* A sleeping thread is woken by the tick only when it is the SLEEP head.
* ZFOD: the page-fault handler decides from the error code saved at fault
  time, then takes the PCB lock; another thread of the process may have
  mapped the page in between.
* Frame accounting across map, unmap, fork copy and rollback paths.
* Lock-bit-plus-yield mutexes whose tid hint is written after the bit.
* Condition variables built on deschedule/make_runnable with a reject flag
  and a retry loop.
* Guest-controlled indices and pointers (virtual IDT, iret frames).

### 1.3 What makes each component correct

* Thread lists: every created thread is in exactly the list its state and
  reason name, once; exactly one thread RUNNING; SLEEP sorted by wake time;
  same-process threads adjacent in READY; every ready thread eventually
  runs; every sleeper eventually wakes.
* Frame allocator / page directories: a frame is never both free and
  mapped, never mapped twice privately; the free list stays ascending and
  duplicate free; ZFOD upgrades once; fork reproduces each page class.
* Fault handler: a legal access to an available page never kills the
  thread, whatever the interleaving of threads of the process.
* Guest layer: no hypercall argument changes host state outside the
  guest's resource block; delivery disables the virtual flag.
* Locks: mutual exclusion; no lost wake-up in cond/sem; rwlock exclusion
  and progress, downgrade terminates.
* Thread library: a stack is freed once, and only after its thread stopped
  using it.

## 2. Plan

Modules are listed in the order they are built; the most important first.

1. `KernelThreads` (control-block store, scheduler, context switcher, timer,
   keyboard wake): `alter_state`, `switch_context`, `round_robin`,
   `find_next_thread`, `handle_timer`, `handle_keyboard`,
   `thread_fork_ctrl_blk` and `fork_ctrl_blk` (list part), and the
   spec-modelled yield, sleep, deschedule, make_runnable, readline and
   vanish. It refines `ThreadStates`, the abstract thread state machine of
   specification section 4.1.
2. `FrameAlloc` and `PageDir`: the free list and the ZFOD page classes;
   `ZFODFault` composes them with threads of one process faulting
   concurrently (`handle_page_fault`), `ForkCopy` with `fork_ctrl_blk`'s page
   copy and rollback. `FrameAlloc` refines an abstract set of free frames.
3. `GuestVirt`: `handle_virtual_interrupt` and the hypercall table.
4. `KernMutex` and `UserMutex`, `CondVar`/`Semaphore`, `RWLock`,
   `ThreadLib` (`thr_join`/`thr_exit` stack lifetime,
   `destruct_each_thread` as a sequence algorithm).
5. `ProcessWait` (built as planned under the name `ProcessLife`):
   wait/vanish with `find_exited_child`, `unlock_children` and
   `fault_kill_thread`, on the kernel mutex of `KernMutex`, which refines
   the abstract lock `KernLock`.

Runs and bounds are described in section 3 as they are added.

## 3. Modules and runs

Every module has a header comment saying which source it models and how
its data is abstracted. Every definition that models code is listed, with
its lines, in the `map` of `PROJECT.json`. Runs are listed in
`PROJECT.json`. The table below gives each run's question. A `pass` run
finishes without error. A `violation` run checks one property, and TLC
finds a counterexample that the code really produces (see `findings`).
Every property of a passing run has a mutant in `PROJECT.json`. The mutant
is a plausible bug in the mapped definition, and TLC finds it under the
run's own configuration.

The project has twelve runs: eleven that pass and one violation. Findings
that no run demonstrates are reproduced by configurations kept beside the
runs. Each such configuration checks one property of its module, and TLC
finds a counterexample. The tables mark these as "finding".

### 3.1 Kernel threads: `KernelThreads`, `ThreadStates`

* **State.** `KernelThreads` keeps:
  * `thread_lists` as sequences whose first element is the list head;
  * each TCB's state, blocking reason and relative wake time;
  * `tick_count`, which is implicit because wake times are relative;
  * the keyboard waiters.
* **Actions.**
  * The timer tick is `handle_timer` with `round_robin`, `find_next_thread`
    and `switch_context`.
  * The keyboard interrupt.
  * `thread_fork_ctrl_blk`.
  * The list-changing system calls: yield, sleep, deschedule,
    make_runnable, readline and vanish. Their handlers are not under `src/`,
    so they are modelled from specification section 4 and marked
    `spec_modelled`.
* **Atomicity.** Every action runs with interrupts disabled in the code,
  so each is one step.
* **Refinement.** `ThreadStates` is the abstract state machine of
  specification section 4.1. `KernelThreads` refines it through the map
  "the list that holds the thread".
* **Bounds.** Four TCB slots in three processes, with sleep arguments up to
  2 ticks. This is the smallest setting with:
  * two processes that have ready threads;
  * two sleepers with equal and with different wake times;
  * idle.
  `ReadyGrouped` needs five slots, so that one process has three threads;
  that state space is too large to check beside the other properties, and
  the property is left unchecked (see the READY-grouping hazard).
* **Fairness.** Weak fairness on the tick only. The timer interrupt fires
  whenever interrupts are enabled; nothing else is assumed about the
  scheduler.

| run | shows |
|---|---|
| threads_lists | lists match recorded states, one RUNNING thread, SLEEP sorted, every sleeper eventually runs, and `KernelThreads` implements `ThreadStates` |
| finding, `MCKernelThreadsLate.cfg` | threads due on the same tick wake one per tick |
| finding, `MCKernelThreadsStarve.cfg` | a sleeper taking the tick and `find_next_thread`'s own-process preference starve another process |

### 3.2 Memory: `FreeFrames`, `ZFODFault`, `ForkCopy`

**`FreeFrames`** is the allocator's promise: a pool from which the lowest
frame is handed out.

**`ZFODFault`** models three things:
* `alloc_list` as a sequence;
* the page directory of one process as PDE/PTE records;
* `handle_page_fault` of two threads faulting concurrently. It is split at
  the PCB lock, because the trap gate leaves interrupts enabled until that
  lock is taken.

Another process allocates and frees frames meanwhile. The free list
refines `FreeFrames` through `pool <- ToSet(alloc_list)`. The run has
three frames: with two, the free list holds at most one node when a frame
is freed, and `free_frame`'s walk (vm.c:162-164) never passes a node, so a
walk that stopped at the head would go unnoticed.

**`ForkCopy`** models `fork_ctrl_blk`:
* **The parent.** Every address space a process can have: each page
  unavailable, available, zero-mapped or privately mapped (read-only or
  read-write), with the page tables this implies. It has 0 or 1 allocation
  records.
* **The copy.** A step per page, following `check_user_page`. A
  not-present directory entry skips its whole page table.
* **Failures.** Every heap allocation may fail, and the pool has fewer
  frames than the parent has private pages. This exercises every one of
  the seven rollback paths.
* **Abstractions.** Contents are abstracted to "copied from page p". The
  heap objects the fork allocates are tagged, so a property can say
  exactly what each path must have released.

| run | shows |
|---|---|
| zfod_frames | every frame in exactly one place; unavailable pages never mapped; the list implements an address-ordered pool |
| zfod_stale_fault (violation) | a handler deciding from its stale error code kills a thread whose page a sibling has just mapped |
| finding, `MCZFODFaultStatus.cfg` | both threads die of faults yet the exit status is not -2 |
| finding, `MCZFODFaultLeak.cfg` | `free_frame`'s node malloc fails and the frame leaves the system |
| fork_copy | a successful fork reproduces each page's class, content and R/W bit in frames of its own; each failure path releases exactly what it built |

### 3.3 Virtualization: `GuestVirt`

* **State.** The guest's virtual IDT, its interrupt flag, the stack frames
  pushed by deliveries, and the scancode ring shared with host readers.
* **The guest is the environment.** It issues any hypercall with any
  argument class.
* **Bounds.**
  * a ring of 2, and 3 keys typed, so that the ring fills;
  * nesting of 2;
  * `irqno` arguments, including −1..−3 in the violation run.

| run | shows |
|---|---|
| guest_keys | keys reach readers and the guest in order, none consumed twice; devices reach the guest only when it enabled them |
| finding, `MCGuestVirtConfined.cfg` | `hv_setidt` with a negative `irqno` writes outside the virtual IDT |
| finding, `MCGuestVirtFault.cfg` | a fault is delivered while the guest has interrupts disabled |

### 3.4 User thread library: `RWLock`, `Semaphore`, `ThreadLib`, `Swexn`

**Shared modelling.** The xchg/yield mutex is modelled as an acquisition
that is enabled when the lock is free. `cond_wait` is three steps:
* release and enqueue;
* `deschedule`;
* re-lock once made runnable.

`cond_signal` holds the lock while it retries `make_runnable` until the
waiter has descheduled. Fairness:
* **Strong fairness** on re-acquiring a mutex. A spinning thread yields,
  so it wins whenever the lock is free infinitely often.
* **Weak fairness** on `deschedule` and on `make_runnable`.

**`RWLock`** models `rw_list` and the records' condition variables. The
bounds are three threads, with a fourth for the mixed run. `rwlock_lock`'s
malloc of its record may fail (`MallocMayFail`). The function then returns
at once, and because it returns nothing its caller goes on into the
critical section. `rwlock_writers` lets it fail. `rwlock_exclusion` does
not, because that path breaks exclusion, which is reported as a finding.
Callers pass a valid lock type, and `cond_init` on a record's own
condition variable cannot fail, so those early returns are not taken.

**`Semaphore`** runs four threads, each looping
`sem_wait`/critical section/`sem_signal`, on a count of 2.

**`ThreadLib`** models:
* the thread chain;
* `thr_create`, `wrap_func`, `thr_join`, `thr_exit`;
* `destruct_each_thread`, as a recursive operator over the chain;
* `handle_thread_crash`.

It has three threads, two of which may join the same child.

**`Swexn`** models one thread's faults through:
* the dispatcher's one-shot swexn hand-off;
* `handle_autostack`;
* `handle_thread_crash`;
* the kernel's ZFOD handler;
* the IDT that `initialize_idt` builds.

The IDT is a function over the 256 vectors. Each vector has the gate type
and DPL that `ADD_DUMMY_GATE`, `add_trap_gate` or `add_interrupt_gate`
gave it, and `HandlerArray` holds the matching `handler_array` entry. The
vector numbers come from the `wrap_handler<n>` each gate is given. The
thread may execute `int n` for any vector except the system calls whose
handlers end or replace the program, or are actions of their own. At a
kernel-only gate the CPU raises a general-protection fault instead. The
auxiliary variable `trap` records the last trap and the handler `handle`
gave it.

The kernel's ZFOD handler includes its failure paths: `map_zero_frame` or
`map_new_frame` may find no frame for the page or its page table
(`AllocMayFail`). The thread is then killed, and a zero-frame page being
upgraded stays unmapped.

Its bounds are a 2-page stack region, growth to depth 4, and one heap page.
The program keeps executing, so its resumed instruction is weakly fair.

| run | shows |
|---|---|
| rwlock_writers | grants in list order and waiting writers woken, also when a record's malloc fails |
| rwlock_exclusion | a writer holds the lock alone, across writer insertion, the unlock fall-through and the downgrade's retype (every malloc succeeds) |
| finding, `MCRWLockNoMem.cfg` | a failed record malloc lets the caller into its critical section beside a writer |
| finding, `MCRWLockMixed.cfg` | downgrade wakes a writer queued behind readers |
| finding, `MCRWLockHang.cfg` | downgrade's writer loop never advances and spins holding the mutex |
| semaphore_bound | at most 2 threads inside, count in range, no lost wake-up |
| threadlib_join_exit | no joiner left waiting on an exited thread, joiners return, the last `thr_exit` reaches `task_vanish` |
| finding, `MCThreadLibDoubleFree.cfg` | `destruct_each_thread` frees one stack repeatedly |
| finding, `MCThreadLibStack.cfg` | `thr_join` frees a stack still in use |
| finding, `MCThreadLibFork.cfg` | a failed `thread_fork` loses the exit status |
| swexn_zfod | a user `int n` only reaches a system call or the fatal general-protection path, never a fault or device handler or the swexn registration; every resumed instruction completes |
| finding, `MCSwexnGrowth.cfg` | a foreign fault deregisters autostack for good |
| finding, `MCSwexnThreads.cfg` | after `thr_init` a ZFOD fault kills the task, although the kernel has frames for it |

### 3.5 Process exit: `KernMutex`, `KernLock`, `ProcessWait`

**`KernMutex`** is the kernel mutex of `kern/mutex.c`, written as
subroutine steps that a caller enters with `CallLock` or `CallUnlock`:
* `MutexXchg` is the `xchange` of the `while` test;
* `MutexYield` reads the `tid` hint and calls `handle_yield`;
* `MutexSetTid` stores the caller's tid;
* `mutex_unlock` is two steps, `MutexUnlockTid` then `MutexUnlockState`.

A timer tick may switch threads between any two of these steps. The
variable `owner` is auxiliary: it names the thread whose exchange read
`UNLOCKED`, until `UNLOCKED` is stored back. With it as the refinement
mapping, the mutex implements `KernLock`, an abstract lock whose owner
takes it only when it is free.

**`ProcessWait`** puts two kinds of actor on the children's PCB locks:
* **The parent thread.** It loops in `wait`. It scans `child_pcb_list`
  with `find_exited_child`, which locks each child and counts its live
  threads with `get_thread_alive_count`. It then calls `unlock_children`,
  and either collects the exited child or blocks in `VANISH_WAIT`.
* **The children's threads.** Each takes its own PCB lock:
  * in `handle_page_fault`, which resolves the fault or goes on to
    `fault_kill_thread`;
  * in `fault_kill_thread`;
  * in `vanish`, where the last thread wakes the parent, found by
    `find_tcb_in_list`.

`handle_wait` and `handle_vanish` are not under `src/`. What they do
around these calls is taken from specification section 4 and marked
`spec_modelled`:
* the lock is held while the thread alive count changes;
* on a NULL result, `unlock_children(NULL)` and the block happen with
  interrupts off (variable `intoff`).

The bounds are two children, with two threads and one thread, and one page
fault per thread. Both orders of the child list are initial states. With
these bounds the model reaches:
* a scan that finds the first child, the second child, or no child;
* the fault path, the kill path and plain exit;
* a wake-up from `VANISH_WAIT`.

Fairness is weak, per thread. The timer's round robin runs every READY
thread, and a thread spinning in `mutex_lock` yields. The children's
programs are assumed to end, and each thread eventually calls `vanish`.
`CHECK_DEADLOCK` is off because the run ends when every child has been
collected.

| run | shows |
|---|---|
| wait_child_locks | the mutex refines `KernLock`, and its hint never names a past holder; every unlock is made by the holder; the parent holds no child lock outside the scan; no child is collected while a thread of it is still in `vanish`; every child is collected |

### 3.6 Exec: `LoadExec`

`LoadExec` models `load_executable` (`kern/loader.c` 127-554), which
replaces the caller's address space. Each step of the function is one
action:
* `ConstructPageDir`, `MallocName`, `MallocArray` and `CopyArg`: the new
  directory and the heap copies of the name and the arguments;
* `Switch`: the new directory goes into cr3;
* `MakeStack`: a guest's whole memory, or the stack pages of any other
  program, is made available, and a guest's is mapped;
* `PushStr`, `PushArgv` and `PushRegs`: the `push_val` calls for the
  strings, the argv array and the frame of `_main`;
* `ZeroStack`: the rest of the stack goes on the zero frame;
* `Sections`: the section stage of a program that is not a guest;
* `Finish`: the back-off, or the destruction of the old directory.

Every failure branch is the operator `Rollback` with the set of heap
objects that branch frees. The page-table operations are operators on
the record `vm`:
* `change_availability` and `change_access` are `ChangeAvailability`
  and `ChangeAccess`;
* `map_and_clear` is the recursive `MapFrom`;
* `push_val` is `PushVal`.
The record `vm` holds the new directory's entries (`map`, `rw`, `avail`),
its page tables, its bytes, the free frame count and `esp`. Values
pushed on the stack are stored as little-endian bytes. `getbytes` and the
ELF checks are taken to succeed, because they only read the RAM disk.

The address space is 8 pages of 16 bytes with two page tables:
* the sections are on pages 1-3, and page 4 is a gap;
* the stack is pages 5-7 (48 bytes);
* guest memory is pages 1-7.

The bounds cover these cases:
* three argument vectors: none; two arguments that fill 40 of the 48
  bytes, the second of length 4 so that it gets no padding; and two long
  ones whose frame for `_main` crosses `stack_low`;
* three layouts: a guest; sections on separate pages; `.data` sharing
  the `.rodata` page;
* 1, 4 or 9 free frames, so that a frame runs out in the guest mapping,
  in a string push and in the sections, or never;
* every `malloc` and every page-table `smemalign` may fail.
The load always ends, so `Terminated` is the only stuttering step, and
deadlock is checked.

| run | shows |
|---|---|
| load_exec | the stack holds the frame `_main` reads, and each argv entry points at a NUL-terminated copy of its argument; a failed load leaves the old address space, frames and heap as they were, and a successful one frees the old directory; `.data` and `.bss` are writable, and pages holding only `.text` or `.rodata` are read-only |
| finding, `MCLoadExecBss.cfg` | `.bss` that starts on the last `.rodata` page, with no `.data`, stays read-only |

### 3.7 Not modelled

These components are not modelled. Their status and reason are in the
`components` list of `PROJECT.json`:
* **Console, segmentation, boot and the guest programs.** They are I/O,
  hardware set-up or separate programs.
* **The kernel heap (`malloc_wrappers.c`, `mem_allocation.c`).** It is
  abstracted as an allocation that may fail.
* **`mutex_try_lock`.** No code under `src/` calls it. The other users of
  the kernel mutex (`vm_lock`, `output_lock`, `mem_allocation_lock`) are
  atomic sections in their modules. `KernMutex` shows that the mutex is a
  lock.
* **The fork, wait and vanish system-call handlers.** They are not under
  `src/`.

