------------------------------ MODULE GuestVirt -------------------------------
(***************************************************************************)
(* The guest-virtualization layer of src/kern/virtual_interrupt.c and the  *)
(* scancode buffer of src/kern/keyboard.c, for one guest process beside    *)
(* host processes that read the keyboard.                                  *)
(*                                                                         *)
(* The guest is the environment: while it runs it issues any hypercall     *)
(* with any argument class, and the hardware raises faults, timer and      *)
(* keyboard interrupts.  Each trap is handled by one step, as it runs with *)
(* interrupts disabled (interrupt gates) or touches only the guest's own   *)
(* PCB (the hypercall trap gate).  The host side keeps the keyboard        *)
(* handler and readline's consumption of scancodes; host scheduling is     *)
(* the choice of who runs after a tick.                                    *)
(*                                                                         *)
(* Scancodes are numbered in the order they are typed, so order and loss   *)
(* are visible.  The guest's stack frames pushed by deliveries are a       *)
(* ghost sequence recording the eflags IF bit pushed and the guest's own   *)
(* view of its interrupt state at the time (want).                         *)
(***************************************************************************)
EXTENDS Integers, Sequences, SequencesExt, FiniteSets

CONSTANTS
    VIRTUAL_IDT_LEN,   \* HV_KEYBOARD + 1
    TIMER_IDT_ENTRY,
    KEY_IDT_ENTRY,     \* HV_KEYBOARD
    FaultVectors,      \* the fault vectors the hardware raises in the guest
    Irqs,              \* irqno arguments of hv_setidt the guest passes
    Eips,              \* eip arguments of hv_setidt (0 is NULL)
    BUF_LEN,           \* capacity of scancode_buf
    MaxKeys,           \* bound: scancodes typed in a behaviour
    MaxNest            \* bound: delivery frames on the guest stack

ASSUME /\ KEY_IDT_ENTRY = VIRTUAL_IDT_LEN - 1
       /\ TIMER_IDT_ENTRY \in 0..(VIRTUAL_IDT_LEN - 1)
       /\ FaultVectors \subseteq 0..(VIRTUAL_IDT_LEN - 1)
       /\ Irqs \subseteq Int /\ Eips \subseteq Nat /\ 0 \in Eips
       /\ BUF_LEN \in Nat \ {0} /\ MaxKeys \in Nat /\ MaxNest \in Nat

NULL == 0
USER_MEM_START == 16777216   \* 0x1000000: guest address 0 in the host
Vectors == 0..(VIRTUAL_IDT_LEN - 1)

VARIABLES
    running,      \* whose thread runs: "guest" or "host"
    status,       \* "alive", "crashed" (GUEST_CRASH_STATUS) or "exited"
    flag,         \* guest_resource.interrupt_enable_flag
    esp0,         \* guest_resource.esp0
    idt,          \* guest_resource.virtual_idt
    pcb_intact,   \* the PCB fields laid out before guest_resource
    frames,       \* ghost: delivery frames: IF bit pushed, want, vector
    want,         \* ghost: the interrupt state the guest last asked for
    scancode_buf, \* keyboard.c: the ring, head first
    typed,        \* scancodes typed so far
    taken,        \* ghost: scancodes consumed, in order
    lost          \* ghost: scancodes dropped or discarded

vars == <<running, status, flag, esp0, idt, pcb_intact, frames, want,
          scancode_buf, typed, taken, lost>>
guestVars == <<flag, esp0, idt, pcb_intact, frames, want>>
keyVars == <<scancode_buf, typed, taken, lost>>

TypeOK ==
    /\ running \in {"guest", "host"}
    /\ status \in {"alive", "crashed", "exited"}
    /\ flag \in BOOLEAN
    /\ esp0 \in {NULL} \cup {e + USER_MEM_START : e \in Eips}
    /\ idt \in [Vectors -> {NULL} \cup {e + USER_MEM_START : e \in Eips}]
    /\ pcb_intact \in BOOLEAN
    /\ frames \in Seq([saved : BOOLEAN, want : BOOLEAN, vec : Vectors])
    /\ want \in BOOLEAN
    /\ scancode_buf \in Seq(1..MaxKeys) /\ Len(scancode_buf) =< BUF_LEN
    /\ typed \in 0..MaxKeys
    /\ taken \in Seq(1..MaxKeys)
    /\ lost \subseteq 1..MaxKeys

\* mutant: push_tail without the capacity check
PushTailNoBound(b, k) == Append(b, k)

\* push_tail: nothing is stored when the ring is full
PushTail(b, k) == IF Len(b) >= BUF_LEN THEN b ELSE Append(b, k)

\* the PCB is zero-initialised by fork_ctrl_blk and exec does not touch
\* guest_resource; the loader starts the guest in guest kernel mode
Init ==
    /\ running = "guest"
    /\ status = "alive"
    /\ flag = FALSE
    /\ esp0 = NULL
    /\ idt = [v \in Vectors |-> NULL]
    /\ pcb_intact = TRUE
    /\ frames = <<>>
    /\ want = FALSE
    /\ scancode_buf = <<>>
    /\ typed = 0
    /\ taken = <<>>
    /\ lost = {}

GuestRuns == running = "guest" /\ status = "alive"

\* crash_guest: hv_exit(GUEST_CRASH_STATUS), whose vanish ends the thread;
\* the guest's state is left as it was
Crash ==
    /\ status' = "crashed"
    /\ running' = "host"
    /\ UNCHANGED guestVars

(***************************************************************************)
(* Delivery into the virtual IDT (handle_virtual_interrupt, lines 137-224) *)
(* and the vector's frame on the guest stack.  The guest always runs with  *)
(* SEGSEL_GUEST_KERNEL_CS (the loader sets it and hv_iret keeps cs), so    *)
(* the frame goes on the guest's current stack; pushing it fails when the  *)
(* guest's esp is not in guest memory.  Deliver fixes the guest's state    *)
(* and status; the caller fixes who runs next.                            *)
(***************************************************************************)
Deliver(v) ==
    IF idt[v] = NULL
    THEN status' = "crashed" /\ UNCHANGED guestVars
    ELSE \E pushOk \in BOOLEAN :
           IF pushOk
           THEN /\ frames' = Append(frames, [saved |-> flag, want |-> want, vec |-> v])
                /\ flag' = FALSE
                /\ want' = FALSE
                /\ status' = status
                /\ UNCHANGED <<esp0, idt, pcb_intact>>
           ELSE status' = "crashed" /\ UNCHANGED guestVars

\* who runs once the trap is handled: the host when the guest is gone
RunNext(sw) == running' = IF status' = "alive" /\ ~sw THEN "guest" ELSE "host"

\* mutant: the tick is delivered without looking at the flag
GuestTimerNoFlag ==
    /\ GuestRuns
    /\ Len(frames) < MaxNest
    /\ \E sw \in BOOLEAN : Deliver(TIMER_IDT_ENTRY) /\ RunNext(sw)
    /\ UNCHANGED keyVars

\* a timer interrupt in the guest: the host's handle_timer runs (and may
\* switch to a host thread, sw), then the tick is delivered if the guest has
\* virtual interrupts enabled
GuestTimer ==
    /\ GuestRuns
    /\ Len(frames) < MaxNest
    /\ \E sw \in BOOLEAN :
         /\ IF flag THEN Deliver(TIMER_IDT_ENTRY)
                    ELSE UNCHANGED <<status>> /\ UNCHANGED guestVars
         /\ RunNext(sw)
    /\ UNCHANGED keyVars

\* a keystroke in the guest: push_tail of the new scancode, then pop_head
\* of the oldest one, which is delivered, or discarded when virtual
\* interrupts are disabled
GuestKey ==
    /\ GuestRuns
    /\ typed < MaxKeys
    /\ Len(frames) < MaxNest
    /\ LET n == typed + 1
           b == PushTail(scancode_buf, n)
           k == Head(b)
           dropped == IF Len(scancode_buf) >= BUF_LEN THEN {n} ELSE {}
       IN /\ typed' = n
          /\ scancode_buf' = Tail(b)
          /\ IF flag THEN Deliver(KEY_IDT_ENTRY)
                     ELSE UNCHANGED <<status>> /\ UNCHANGED guestVars
          /\ taken' = IF flag /\ status' = "alive" THEN Append(taken, k) ELSE taken
          /\ lost' = lost \cup dropped
                          \cup (IF flag /\ status' = "alive" THEN {} ELSE {k})
    /\ RunNext(FALSE)

\* a fault in the guest goes to the virtual IDT whatever the flag says
GuestFault(v) ==
    /\ GuestRuns
    /\ Len(frames) < MaxNest
    /\ Deliver(v)
    /\ RunNext(FALSE)
    /\ UNCHANGED keyVars

\* a host thread runs: the timer may schedule the guest again
HostTick ==
    /\ running = "host"
    /\ running' = IF status = "alive" THEN "guest" ELSE "host"
    /\ UNCHANGED <<status, keyVars>> /\ UNCHANGED guestVars

\* handle_keyboard while a host thread runs: push_tail
HostKey ==
    /\ running = "host"
    /\ typed < MaxKeys
    /\ typed' = typed + 1
    /\ scancode_buf' = PushTail(scancode_buf, typed + 1)
    /\ lost' = IF Len(scancode_buf) >= BUF_LEN THEN lost \cup {typed + 1} ELSE lost
    /\ UNCHANGED <<running, status, taken>> /\ UNCHANGED guestVars

\* mutant: the reader takes scancodes from the tail (pop_tail)
HostReadTail ==
    /\ running = "host"
    /\ scancode_buf # <<>>
    /\ \E n \in 1..Len(scancode_buf) :
         /\ taken' = taken \o SubSeq(scancode_buf, Len(scancode_buf) - n + 1,
                                      Len(scancode_buf))
         /\ scancode_buf' = SubSeq(scancode_buf, 1, Len(scancode_buf) - n)
    /\ UNCHANGED <<running, status, typed, lost>> /\ UNCHANGED guestVars

\* readline's extract_ch, with interrupts disabled, pops scancodes from the
\* head until one yields a character or the ring is empty: n of them
HostRead ==
    /\ running = "host"
    /\ scancode_buf # <<>>
    /\ \E n \in 1..Len(scancode_buf) :
         /\ taken' = taken \o SubSeq(scancode_buf, 1, n)
         /\ scancode_buf' = SubSeq(scancode_buf, n + 1, Len(scancode_buf))
    /\ UNCHANGED <<running, status, typed, lost>> /\ UNCHANGED guestVars

(***************************************************************************)
(* Hypercalls (the hvcall_handler_array).                                  *)
(***************************************************************************)
HvDisable ==
    /\ GuestRuns
    /\ flag' = FALSE /\ want' = FALSE
    /\ UNCHANGED <<running, status, esp0, idt, pcb_intact, frames>>
    /\ UNCHANGED keyVars

HvEnable ==
    /\ GuestRuns
    /\ flag' = TRUE /\ want' = TRUE
    /\ UNCHANGED <<running, status, esp0, idt, pcb_intact, frames>>
    /\ UNCHANGED keyVars

\* hv_setidt(irqno, eip): only irqno >= VIRTUAL_IDT_LEN is refused; a
\* negative irqno writes the word that far before virtual_idt: esp0 at -1,
\* the interrupt_enable_flag byte (low byte of the word) at -2, and the
\* PCB fields before guest_resource below that
HvSetIdt(irqno, eip) ==
    /\ GuestRuns
    /\ LET val == IF eip = NULL THEN NULL ELSE eip + USER_MEM_START IN
       CASE irqno >= VIRTUAL_IDT_LEN -> UNCHANGED guestVars
         [] irqno >= 0 ->
              /\ idt' = [idt EXCEPT ![irqno] = val]
              /\ UNCHANGED <<flag, esp0, pcb_intact, frames, want>>
         [] irqno = -1 ->
              /\ esp0' = val
              /\ UNCHANGED <<flag, idt, pcb_intact, frames, want>>
         [] irqno = -2 ->
              /\ flag' = (val % 256 # 0)
              /\ UNCHANGED <<esp0, idt, pcb_intact, frames, want>>
         [] OTHER ->
              /\ pcb_intact' = FALSE
              /\ UNCHANGED <<flag, esp0, idt, frames, want>>
    /\ UNCHANGED <<running, status>>
    /\ UNCHANGED keyVars

\* hv_iret(eip, eflags, esp, esp0, eax): crash unless esp0 is 0 and
\* check_eflags accepts; the flag follows the IF bit of the new eflags.
\* The guest returns from its innermost delivery frame, if any.
HvIret(esp0Arg, eflagsOk, ifBit) ==
    /\ GuestRuns
    /\ IF esp0Arg # NULL \/ ~eflagsOk
       THEN Crash
       ELSE /\ flag' = ifBit /\ want' = ifBit
            /\ frames' = IF frames = <<>> THEN frames ELSE Front(frames)
            /\ UNCHANGED <<running, status, esp0, idt, pcb_intact>>
    /\ UNCHANGED keyVars

\* print, set_term_color, set_cursor_pos, get_cursor_pos, print_at: the
\* arguments are checked (and the console call's result), the output lock
\* is held only around the console call; invalid arguments crash
HvConsole(op, argsOk) ==
    /\ GuestRuns
    /\ op \in {"print", "color", "set_cursor", "get_cursor", "print_at"}
    /\ IF argsOk THEN UNCHANGED <<running, status>> /\ UNCHANGED guestVars
                 ELSE Crash
    /\ UNCHANGED keyVars

\* hv_exit(status): the status is recorded and the thread vanishes
HvExit ==
    /\ GuestRuns
    /\ status' = "exited" /\ running' = "host"
    /\ UNCHANGED guestVars /\ UNCHANGED keyVars

\* hv_setpd and hv_adjustpg are not implemented, and a call number without
\* a handler falls through to the triple-fault path: the guest crashes
HvCrashing(call) ==
    /\ GuestRuns
    /\ call \in {"setpd", "adjustpg", "unknown"}
    /\ Crash
    /\ UNCHANGED keyVars

Next ==
    \/ GuestTimer \/ GuestKey \/ \E v \in FaultVectors : GuestFault(v)
    \/ HostTick \/ HostKey \/ HostRead
    \/ HvDisable \/ HvEnable
    \/ \E i \in Irqs, e \in Eips : HvSetIdt(i, e)
    \/ \E e \in {NULL, 1}, ok \in BOOLEAN, b \in BOOLEAN : HvIret(e, ok, b)
    \/ \E op \in {"print", "color", "set_cursor", "get_cursor", "print_at"},
          ok \in BOOLEAN : HvConsole(op, ok)
    \/ HvExit
    \/ \E c \in {"setpd", "adjustpg", "unknown"} : HvCrashing(c)

Spec == Init /\ [][Next]_vars

(***************************************************************************)
(* Properties                                                              *)
(***************************************************************************)

\* Every scancode typed is consumed once, by the guest's keyboard delivery
\* or by a host reader, or is lost (ring full, or popped by the guest's
\* keyboard path while its virtual interrupts are off); the consumers,
\* host and guest together, see scancodes in the order they were typed,
\* and nothing still buffered was typed before something consumed.
KeysInOrder ==
    LET tk == ToSet(taken)
        bf == ToSet(scancode_buf)
    IN /\ \A i \in 1..(Len(taken) - 1) : taken[i] < taken[i + 1]
       /\ \A a \in tk, b \in bf : a < b
       /\ tk \cup bf \cup lost = 1..typed
       /\ tk \cap bf = {} /\ tk \cap lost = {} /\ bf \cap lost = {}
       /\ Len(taken) = Cardinality(tk)
       /\ Len(scancode_buf) = Cardinality(bf)

\* A frame for a device interrupt (timer or keyboard) is pushed on the
\* guest's stack only when the guest last asked for virtual interrupts
\* (hv_enable, or hv_iret with IF set): handle_virtual_interrupt's flag
\* checks for the timer and the keyboard.
DeviceDelivered ==
    /\ Len(frames') > Len(frames)
    /\ Last(frames').vec \in {TIMER_IDT_ENTRY, KEY_IDT_ENTRY}
DevicesOnlyWhenWanted == [][DeviceDelivered => want]_vars

\* Nothing the guest does through a hypercall reaches host state outside
\* its virtual CPU: the PCB fields before guest_resource stay intact, and
\* the virtual interrupt flag and esp0 change only through hv_enable,
\* hv_disable and hv_iret (esp0 is never set by any of them).
GuestConfined == pcb_intact /\ flag = want /\ esp0 = NULL

\* Specification 4.6: if virtual delivery is disabled, a hardware fault in
\* the guest crashes it instead of being delivered (no frame is pushed
\* while the flag is clear).
FaultsOnlyWhenEnabled == [][Len(frames') > Len(frames) => flag]_vars
================================================================================
