------------------------------ MODULE LoadExec ------------------------------
(***************************************************************************)
(* load_executable (src/kern/loader.c): exec's replacement of the current  *)
(* address space by a new page directory holding the program's sections    *)
(* and a user stack that carries argc, argv, stack_high and stack_low for  *)
(* _main.  Every failure point rolls back: the old page directory comes    *)
(* back, the heap copies are freed and the new directory is destroyed.     *)
(*                                                                         *)
(* Memory is a small address space of NPages pages of PageSize bytes; the  *)
(* page-table entries of the new directory are map (none, zero, new), rw   *)
(* and avail, and its page tables one per Region.  Byte values are kept    *)
(* where the argument stack needs them: strings are sequences of non-zero  *)
(* bytes, pointers and integers are stored as 4 little-endian bytes.  The  *)
(* ELF file is abstracted to its section layout; getbytes is taken to      *)
(* succeed on an executable elf_load_helper accepted.                      *)
(***************************************************************************)
EXTENDS Integers, Sequences, FiniteSets

CONSTANTS PageSize,      \* PAGE_SIZE
          NPages,        \* pages of the address space; VIRTUAL_ADDR_END
          RegionPages,   \* pages mapped by one page table
          UserMemStart,  \* USER_MEM_START, the start of guest memory
          StackLen,      \* USER_STACK_LEN * sizeof(uint32_t)
          Argvs,         \* argument vectors exec may be given
          Layouts,       \* section layouts: [txt, rod, dat, bss |-> <<start, len>>]
          FreeChoices,   \* free frames when exec starts
          OldFrames,     \* frames of the old address space
          MallocMayFail

StackHigh == PageSize * NPages
Addrs == 0..(StackHigh - 1)
Pages == 0..(NPages - 1)
Region(p) == p \div RegionPages
Regions == {Region(p) : p \in Pages}
Garbage == 255   \* what a frame holds before map_and_clear clears it
\* Both stacks end at the top: VIRTUAL_ADDR_END, and for a guest
\* USER_MEM_START + GUEST_MEM_SIZE, the end of guest memory.
StackLow == StackHigh - StackLen
\* bool guest = simple_elf.e_txtstart < USER_MEM_START;
Guest(l) == l.txt[1] < UserMemStart
\* The page tables whose smemalign fails, when allocation can fail.
TableFails == IF MallocMayFail THEN SUBSET Regions ELSE {{}}

VARIABLES pc,        \* the step of load_executable
          result,    \* its return value once pc = "done"
          heap,      \* kernel heap objects it owns (PdObj, NameObj, ArrayObj, Strs)
          cr3,       \* the page directory in use: "old" or "new"
          oldpd,     \* the old page directory still exists
          allocList, \* the PCB's page_allocation_list is non-empty
          vm,        \* the new page directory, its memory and esp
          argv,      \* the argument vector
          argArr,    \* arg_array[i]: the user address of string i once pushed
          i,         \* the loop index of the copy and push loops
          layout,    \* the executable's sections
          argvp,     \* arg_array after the argv push: the user argv pointer
          free0      \* free frames when exec started (auxiliary)

vars == <<pc, result, heap, cr3, oldpd, allocList, vm, argv, argArr, i,
          layout, argvp, free0>>

\* A 32-bit value as the 4 bytes x86 stores, lowest first.
LE(v) == [k \in 1..4 |-> (v \div (256 ^ (k - 1))) % 256]

\* The pages a range [addr, addr + size) touches, lowest first.
PagesOf(addr, size) ==
    IF size = 0 THEN <<>>
    ELSE [k \in 1..((addr + size - 1) \div PageSize - addr \div PageSize + 1)
            |-> addr \div PageSize + k - 1]

\* A new page directory with nothing mapped (construct_page_dir).
EmptyDir(f) ==
    [map |-> [p \in Pages |-> "none"], rw |-> [p \in Pages |-> FALSE],
     avail |-> [p \in Pages |-> FALSE], tables |-> {},
     mem |-> [a \in Addrs |-> Garbage], free |-> f, esp |-> StackHigh,
     ok |-> TRUE]

\* set_availability on each page of the range; a page table is allocated
\* for a region that has none, and that smemalign fails for the regions
\* in bad.  A page that is already mapped makes it return -1.
ChangeAvailability(s, addr, size, bad) ==
    LET ps == {PagesOf(addr, size)[k] : k \in DOMAIN PagesOf(addr, size)}
        need == {Region(p) : p \in ps} \ s.tables
    IN
    IF ~s.ok THEN s
    ELSE IF (need \cap bad) # {} \/ \E p \in ps : s.map[p] # "none"
    THEN [s EXCEPT !.ok = FALSE]
    ELSE [s EXCEPT !.avail = [p \in Pages |-> @[p] \/ p \in ps],
                   !.tables = @ \cup need]

\* change_access: set_access fails on a page that is not mapped.
ChangeAccess(s, addr, size, rw) ==
    LET ps == {PagesOf(addr, size)[k] : k \in DOMAIN PagesOf(addr, size)} IN
    IF ~s.ok THEN s
    ELSE IF \E p \in ps : s.map[p] = "none" THEN [s EXCEPT !.ok = FALSE]
    ELSE [s EXCEPT !.rw = [p \in Pages |-> IF p \in ps THEN rw ELSE @[p]]]

\* Mutant: map_new_frame's failure on an empty frame pool is ignored.
RECURSIVE MapFromNoAllocCheck(_, _, _)
MapFromNoAllocCheck(s, ps, zero) ==
    IF ps = <<>> \/ ~s.ok THEN s
    ELSE LET p == Head(ps) IN
         IF s.map[p] # "none" THEN MapFromNoAllocCheck(s, Tail(ps), zero)
         ELSE IF ~s.avail[p] THEN [s EXCEPT !.ok = FALSE]
         ELSE IF zero
              THEN MapFromNoAllocCheck([s EXCEPT !.map[p] = "zero", !.rw[p] = FALSE],
                                       Tail(ps), zero)
         ELSE MapFromNoAllocCheck([s EXCEPT !.map[p] = "new", !.rw[p] = TRUE,
                                            !.free = @ - 1],
                                  Tail(ps), zero)

\* map_and_clear: walk the pages in order; a mapped page is kept, an
\* unavailable one fails, the others get the zero frame (read-only) or a
\* new frame, read-write and memset to 0.  What was mapped before a
\* failure stays mapped.
RECURSIVE MapFrom(_, _, _)
MapFrom(s, ps, zero) ==
    IF ps = <<>> \/ ~s.ok THEN s
    ELSE LET p == Head(ps) IN
         IF s.map[p] # "none" THEN MapFrom(s, Tail(ps), zero)
         ELSE IF ~s.avail[p] THEN [s EXCEPT !.ok = FALSE]
         ELSE IF zero
              THEN MapFrom([s EXCEPT !.map[p] = "zero", !.rw[p] = FALSE,
                                     !.mem = [a \in Addrs |->
                                                IF a \div PageSize = p THEN 0
                                                                       ELSE @[a]]],
                           Tail(ps), zero)
         ELSE IF s.free = 0 THEN [s EXCEPT !.ok = FALSE]
         ELSE MapFrom([s EXCEPT !.map[p] = "new", !.rw[p] = TRUE,
                                !.free = @ - 1,
                                !.mem = [a \in Addrs |->
                                           IF a \div PageSize = p THEN 0
                                                                  ELSE @[a]]],
                      Tail(ps), zero)

MapAndClear(s, addr, size, zero) == MapFrom(s, PagesOf(addr, size), zero)

\* push_val: the new esp is esp - size rounded down to a word; the range
\* is mapped, the bytes copied and the padding above them zeroed.
PushVal(s, bytes) ==
    LET sp == s.esp
        size == Len(bytes)
        ne == ((sp - size) \div 4) * 4
        t == MapAndClear(s, ne, sp - ne, FALSE)
    IN IF ~s.ok THEN s
       ELSE IF ne < 0 THEN [s EXCEPT !.ok = FALSE, !.esp = sp]
       ELSE IF ~t.ok THEN [t EXCEPT !.esp = sp]
       ELSE [t EXCEPT !.esp = ne,
                      !.mem = [a \in Addrs |->
                                 IF a >= ne /\ a < ne + size THEN bytes[a - ne + 1]
                                 ELSE IF a >= ne + size /\ a < sp THEN 0
                                 ELSE @[a]]]

\* destruct_page_dir: every new frame goes back to the free list.
FramesOf(s) == Cardinality({p \in Pages : s.map[p] = "new"})

\* push_val of each value in turn, stopping at the first failure (the ||
\* chain of the five pushes for _main).
RECURSIVE PushAll(_, _)
PushAll(s, vals) ==
    IF vals = <<>> \/ ~s.ok THEN s
    ELSE PushAll(PushVal(s, LE(Head(vals))), Tail(vals))

\* The argv array: arg_array's entries as 4-byte pointers, first lowest.
ArgvBytes ==
    [n \in 1..(4 * Len(argv)) |-> LE(argArr[(n - 1) \div 4 + 1])[((n - 1) % 4) + 1]]

\* Heap objects: the page directory, executable_name, arg_array and the
\* copy of argument j.
PdObj == <<"pd", 0>>
NameObj == <<"name", 0>>
ArrayObj == <<"array", 0>>
Strs(a, b) == {<<"str", j>> : j \in a..b}

Init ==
    /\ argv \in Argvs
    /\ layout \in Layouts
    /\ \E f \in FreeChoices : vm = EmptyDir(f) /\ free0 = f
    /\ pc = "construct"
    /\ result = 0
    /\ heap = {}
    /\ cr3 = "old"
    /\ oldpd = TRUE
    /\ allocList = TRUE
    /\ argArr = [k \in DOMAIN argv |-> 0]
    /\ i = 1
    /\ argvp = 0

\* A failure branch: set_cr3(old_cr3), free what is listed and
\* destruct_page_dir(new_page_dir), whose frames go back; return -1.
Rollback(s, freed) ==
    /\ cr3' = "old"
    /\ heap' = heap \ (freed \cup {PdObj})
    /\ vm' = [s EXCEPT !.free = @ + FramesOf(s)]
    /\ result' = -1
    /\ pc' = "done"
    /\ UNCHANGED <<oldpd, allocList, argv, argArr, i, layout, argvp, free0>>

\* construct_page_dir; NULL makes load_executable return -1 at once.
ConstructPageDir ==
    /\ pc = "construct"
    /\ \/ /\ MallocMayFail
          /\ result' = -1
          /\ pc' = "done"
          /\ UNCHANGED heap
       \/ /\ heap' = {PdObj}
          /\ pc' = "name"
          /\ UNCHANGED result
    /\ UNCHANGED <<cr3, oldpd, allocList, vm, argv, argArr, i, layout,
                   argvp, free0>>

\* malloc of executable_name, then the count of argc.
MallocName ==
    /\ pc = "name"
    /\ \/ /\ MallocMayFail
          /\ Rollback(vm, {})
       \/ /\ heap' = heap \cup {NameObj}
          /\ pc' = IF Len(argv) > 0 THEN "array" ELSE "switch"
          /\ UNCHANGED <<result, cr3, oldpd, allocList, vm, argv, argArr,
                         i, layout, argvp, free0>>

\* malloc of arg_array when argc > 0.
MallocArray ==
    /\ pc = "array"
    /\ \/ /\ MallocMayFail
          /\ Rollback(vm, {NameObj})
       \/ /\ heap' = heap \cup {ArrayObj}
          /\ pc' = "copy"
          /\ i' = 1
          /\ UNCHANGED <<result, cr3, oldpd, allocList, vm, argv, argArr,
                         layout, argvp, free0>>

\* One turn of the copy loop: malloc and strcpy of argvec[i]; a failure
\* frees the strings before i, the array and the name.
CopyArg ==
    /\ pc = "copy"
    /\ \/ /\ MallocMayFail
          /\ Rollback(vm, {NameObj, ArrayObj} \cup Strs(1, i - 1))
       \/ /\ heap' = heap \cup {<<"str", i>>}
          /\ pc' = IF i = Len(argv) THEN "switch" ELSE "copy"
          /\ i' = IF i = Len(argv) THEN 1 ELSE i + 1
          /\ UNCHANGED <<result, cr3, oldpd, allocList, vm, argv, argArr,
                         layout, argvp, free0>>

\* current_pcb_ptr->page_directory = new_page_dir; set_cr3(new_cr3).
Switch ==
    /\ pc = "switch"
    /\ cr3' = "new"
    /\ pc' = "stack"
    /\ UNCHANGED <<result, heap, oldpd, allocList, vm, argv, argArr, i,
                   layout, argvp, free0>>

\* The user stack: a guest gets all of guest memory made available and
\* mapped to new frames, any other program the stack pages made
\* available.  A failure frees every string, the array and the name.
MakeStack ==
    /\ pc = "stack"
    /\ \E bad \in TableFails :
         LET t == IF Guest(layout)
                  THEN MapAndClear(ChangeAvailability(vm, UserMemStart,
                                       StackHigh - UserMemStart, bad),
                                   UserMemStart, StackHigh - UserMemStart, FALSE)
                  ELSE ChangeAvailability(vm, StackLow, StackLen, bad)
         IN IF ~t.ok
            THEN Rollback(t, {NameObj, ArrayObj} \cup Strs(1, Len(argv)))
            ELSE /\ vm' = t
                 /\ pc' = IF Len(argv) > 0 THEN "pushstr" ELSE "pushregs"
                 /\ UNCHANGED <<result, heap, cr3, oldpd, allocList, argv,
                                argArr, i, layout, argvp, free0>>

\* Mutant: the string loop pushes strlen bytes, without the NUL.
PushStrNoNul ==
    /\ pc = "pushstr"
    /\ LET t == PushVal(vm, argv[i]) IN
       IF ~t.ok
       THEN Rollback(t, {NameObj, ArrayObj} \cup Strs(i, Len(argv)))
       ELSE /\ vm' = t
            /\ heap' = heap \ {<<"str", i>>}
            /\ argArr' = [argArr EXCEPT ![i] = t.esp]
            /\ pc' = IF i = Len(argv) THEN "pushargv" ELSE "pushstr"
            /\ i' = IF i = Len(argv) THEN 1 ELSE i + 1
            /\ UNCHANGED <<result, cr3, oldpd, allocList, argv, layout,
                           argvp, free0>>

\* Mutant: the failure branch frees the strings after i, not from i.
PushStrLeak ==
    /\ pc = "pushstr"
    /\ LET t == PushVal(vm, argv[i] \o <<0>>) IN
       IF ~t.ok
       THEN Rollback(t, {NameObj, ArrayObj} \cup Strs(i + 1, Len(argv)))
       ELSE /\ vm' = t
            /\ heap' = heap \ {<<"str", i>>}
            /\ argArr' = [argArr EXCEPT ![i] = t.esp]
            /\ pc' = IF i = Len(argv) THEN "pushargv" ELSE "pushstr"
            /\ i' = IF i = Len(argv) THEN 1 ELSE i + 1
            /\ UNCHANGED <<result, cr3, oldpd, allocList, argv, layout,
                           argvp, free0>>

\* One turn of the string loop: push_val of argument i with its NUL; a
\* failure frees the strings from i on, the array and the name.  On
\* success the copy is freed and arg_array[i] = esp.
PushStr ==
    /\ pc = "pushstr"
    /\ LET t == PushVal(vm, argv[i] \o <<0>>) IN
       IF ~t.ok
       THEN Rollback(t, {NameObj, ArrayObj} \cup Strs(i, Len(argv)))
       ELSE /\ vm' = t
            /\ heap' = heap \ {<<"str", i>>}
            /\ argArr' = [argArr EXCEPT ![i] = t.esp]
            /\ pc' = IF i = Len(argv) THEN "pushargv" ELSE "pushstr"
            /\ i' = IF i = Len(argv) THEN 1 ELSE i + 1
            /\ UNCHANGED <<result, cr3, oldpd, allocList, argv, layout,
                           argvp, free0>>

\* push_val of the argv array; on success it is freed and arg_array = esp.
PushArgv ==
    /\ pc = "pushargv"
    /\ LET t == PushVal(vm, ArgvBytes) IN
       IF ~t.ok
       THEN Rollback(t, {NameObj, ArrayObj})
       ELSE /\ vm' = t
            /\ heap' = heap \ {ArrayObj}
            /\ argvp' = t.esp
            /\ pc' = "pushregs"
            /\ UNCHANGED <<result, cr3, oldpd, allocList, argv, argArr, i,
                           layout, free0>>

\* The frame of _main: stack_low, stack_high, argv, argc and the return
\* address 0; a failure only clears success.
PushRegs ==
    /\ pc = "pushregs"
    /\ vm' = PushAll(vm, <<StackLow, StackHigh, argvp, Len(argv), 0>>)
    /\ pc' = "zerostack"
    /\ UNCHANGED <<result, heap, cr3, oldpd, allocList, argv, argArr, i,
                   layout, argvp, free0>>

\* map_and_clear(stack_low, esp - stack_low, true).  When esp is below
\* stack_low the uint32 size wraps and the walk runs up past the stack
\* into unmapped, unavailable pages, so it fails.
ZeroStack ==
    /\ pc = "zerostack"
    /\ vm' = IF ~vm.ok THEN vm
             ELSE IF vm.esp < StackLow THEN [vm EXCEPT !.ok = FALSE]
             ELSE MapAndClear(vm, StackLow, vm.esp - StackLow, TRUE)
    /\ pc' = "sections"
    /\ UNCHANGED <<result, heap, cr3, oldpd, allocList, argv, argArr, i,
                   layout, argvp, free0>>

MapSec(s, sec) == MapAndClear(s, sec[1], sec[2], FALSE)
Avail(s, sec, bad) == ChangeAvailability(s, sec[1], sec[2], bad)

\* Mutant: .data made read-write before .rodata is made read-only.
LoadSectionsDataFirst(s, l, bad) ==
    LET a == Avail(Avail(Avail(Avail(s, l.txt, bad), l.rod, bad), l.dat, bad),
                   l.bss, bad)
        m == MapSec(MapSec(MapSec(a, l.txt), l.rod), l.dat)
        c == ChangeAccess(ChangeAccess(ChangeAccess(m, l.txt[1], l.txt[2], FALSE),
                                       l.dat[1], l.dat[2], TRUE),
                          l.rod[1], l.rod[2], FALSE)
    IN MapAndClear(c, l.bss[1], l.bss[2], TRUE)

\* The sections of a program that is not a guest, each stage run only
\* while success holds: availability of .text, .rodata, .data and .bss;
\* new frames for .text, .rodata and .data (getbytes fills them); .text
\* and .rodata read-only, then .data read-write; .bss on the zero frame.
LoadSections(s, l, bad) ==
    LET a == Avail(Avail(Avail(Avail(s, l.txt, bad), l.rod, bad), l.dat, bad),
                   l.bss, bad)
        m == MapSec(MapSec(MapSec(a, l.txt), l.rod), l.dat)
        c == ChangeAccess(ChangeAccess(ChangeAccess(m, l.txt[1], l.txt[2], FALSE),
                                       l.rod[1], l.rod[2], FALSE),
                          l.dat[1], l.dat[2], TRUE)
    IN MapAndClear(c, l.bss[1], l.bss[2], TRUE)

\* The section stage.  A guest's sections are copied into guest memory,
\* which is mapped already; getbytes is taken to succeed.
Sections ==
    /\ pc = "sections"
    /\ \E bad \in TableFails :
         vm' = IF Guest(layout) THEN vm ELSE LoadSections(vm, layout, bad)
    /\ pc' = "finish"
    /\ UNCHANGED <<result, heap, cr3, oldpd, allocList, argv, argArr, i,
                   layout, argvp, free0>>

\* The end: back off when success is false; otherwise destroy the old
\* page directory, empty page_allocation_list, free the name, return 0.
Finish ==
    /\ pc = "finish"
    /\ IF ~vm.ok
       THEN Rollback(vm, {NameObj})
       ELSE /\ vm' = [vm EXCEPT !.free = @ + OldFrames]
            /\ oldpd' = FALSE
            /\ allocList' = FALSE
            /\ heap' = heap \ {NameObj}
            /\ pc' = "done"
            /\ UNCHANGED <<result, cr3, argv, argArr, i, layout, argvp, free0>>

\* load_executable has returned.
Terminated == pc = "done" /\ UNCHANGED vars

Next ==
    \/ ConstructPageDir \/ MallocName \/ MallocArray \/ CopyArg \/ Switch
    \/ MakeStack \/ PushStr \/ PushArgv \/ PushRegs \/ ZeroStack
    \/ Sections \/ Finish \/ Terminated

Spec == Init /\ [][Next]_vars

TypeOK ==
    /\ pc \in {"construct", "name", "array", "copy", "switch", "stack",
               "pushstr", "pushargv", "pushregs", "zerostack", "sections",
               "finish", "done"}
    /\ result \in {-1, 0}
    /\ cr3 \in {"old", "new"}
    /\ vm.free \in Nat /\ vm.esp \in 0..StackHigh
    /\ vm.mem \in [Addrs -> 0..255]
    /\ vm.map \in [Pages -> {"none", "zero", "new"}]

\* What _main reads from the user stack: a little-endian word, and a C
\* string up to its NUL.
Word(a) == vm.mem[a] + 256 * vm.mem[a + 1] + 65536 * vm.mem[a + 2]
                     + 16777216 * vm.mem[a + 3]
RECURSIVE CStr(_)
CStr(a) == IF a \notin Addrs \/ vm.mem[a] = 0 THEN <<>>
           ELSE <<vm.mem[a]>> \o CStr(a + 1)

Loaded == pc = "done" /\ result = 0
SecPages(sec) == {PagesOf(sec[1], sec[2])[k] : k \in DOMAIN PagesOf(sec[1], sec[2])}

\* After a successful exec the stack at esp is the frame _main expects
\* (return address 0, argc, argv, stack_high, stack_low), esp is word
\* aligned inside the stack, the whole stack is mapped, and argv[k]
\* points at a NUL-terminated copy of the k-th argument: push_val's
\* rounding and padding and the string loop of load_executable agree.
ArgsLaidOut ==
    Loaded =>
      LET e == vm.esp IN
      /\ e % 4 = 0 /\ StackLow <= e /\ e + 20 <= StackHigh
      /\ \A p \in SecPages(<<StackLow, StackLen>>) : vm.map[p] # "none"
      /\ Word(e) = 0 /\ Word(e + 4) = Len(argv)
      /\ Word(e + 12) = StackHigh /\ Word(e + 16) = StackLow
      /\ Len(argv) = 0 => Word(e + 8) = 0
      /\ \A k \in 1..Len(argv) : CStr(Word(Word(e + 8) + 4 * (k - 1))) = argv[k]

\* "No side effect will be made if the function fails": a failed
\* load_executable leaves the old directory in cr3, the free frames and
\* the allocation list as they were, and frees everything it allocated;
\* a successful one keeps only the new directory and gives back the old
\* one's frames.  Every rollback branch has its own list of frees.
LoadAccounted ==
    pc = "done" =>
      \/ /\ result = -1 /\ heap = {} /\ cr3 = "old"
         /\ oldpd /\ allocList /\ vm.free = free0
      \/ /\ result = 0 /\ heap = {PdObj} /\ cr3 = "new"
         /\ ~oldpd /\ ~allocList
         /\ vm.free + FramesOf(vm) = free0 + OldFrames

\* A loaded program's .text, .rodata and .data pages have frames of
\* their own, .data is writable, .bss is writable or on the zero frame
\* (which the ZFOD handler upgrades), and a page holding only .text or
\* .rodata is read-only: the order of change_access calls decides the
\* shared pages.
SectionsMapped ==
    Loaded /\ ~Guest(layout) =>
      LET l == layout
          code == SecPages(l.txt) \cup SecPages(l.rod)
      IN /\ \A p \in code \cup SecPages(l.dat) : vm.map[p] = "new"
         /\ \A p \in SecPages(l.dat) : vm.rw[p]
         /\ \A p \in SecPages(l.bss) : vm.rw[p] \/ vm.map[p] = "zero"
         /\ \A p \in code \ (SecPages(l.dat) \cup SecPages(l.bss)) : ~vm.rw[p]
=============================================================================
