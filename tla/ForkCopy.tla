------------------------------ MODULE ForkCopy --------------------------------
(***************************************************************************)
(* fork_ctrl_blk (kern/ctrl_blk.c): the copy of the running process's     *)
(* user address space into a new page directory, page by page in address  *)
(* order, by the class check_user_page (vm.c) gives each page, followed   *)
(* by the copy of the page allocation records, the TCB copy and its       *)
(* READY node.  Every kernel-heap allocation on the way may fail, and the *)
(* frame pool may run out; each failure takes its own rollback path.      *)
(*                                                                         *)
(* Pages are numbered in address order, PTEs to a page table.  A page's  *)
(* content is abstracted to the page it was copied from (the parent's     *)
(* frame of page p holds "p").  The heap objects the fork allocates are   *)
(* tagged pairs, so that a rollback can be checked to release exactly     *)
(* what its path has built.                                               *)
(***************************************************************************)
EXTENDS Naturals, FiniteSets

CONSTANTS
    Tables,         \* user page tables (page-directory entries) modelled
    PTEs,           \* pages per page table
    Frames,         \* the frame pool (alloc_list) when the fork starts
    AllocRecords,   \* most page_allocation_list records the parent holds
    MallocMayFail,  \* malloc/smemalign of the kernel heap may return NULL
    NoFrame

ASSUME Tables \in Nat \ {0} /\ PTEs \in Nat \ {0} /\ AllocRecords \in Nat

Pages == 1..(Tables * PTEs)
TableOf(p) == (p - 1) \div PTEs + 1
FirstOf(t) == (t - 1) * PTEs + 1
\* check_user_page's classes, with PTE_NOT_PRESENT split by the available bits
Classes == {"unavail", "avail", "zero", "frame"}
Access == {"RO", "RW"}
Heap ==
    ({"pd", "buf", "pcb", "tcb", "rnode"} \X {0})
    \cup ({"pt"} \X (1..Tables)) \cup ({"alloc"} \X (1..AllocRecords))

VARIABLES
    pcls,    \* the parent's page classes
    prw,     \* the parent's R/W bit of each mapped page
    ptab,    \* the parent's page tables present in its directory
    nalloc,  \* length of the parent's page_allocation_list
    ctab,    \* the child's page tables present in child_process_pd
    ccls,    \* the child's page classes
    crw,     \* the child's R/W bits
    cfr,     \* the frame each child page maps
    ccont,   \* the content of each child page, 0 when none was copied
    free,    \* the frame pool
    heap,    \* kernel-heap objects the fork holds
    pc,      \* where fork_ctrl_blk is
    cur,     \* current_page
    copied   \* allocation records copied into the child

vars == <<pcls, prw, ptab, nalloc, ctab, ccls, crw, cfr, ccont, free, heap,
          pc, cur, copied>>
parent == <<pcls, prw, ptab, nalloc>>

PCs == {"start", "buf", "pcb", "copy", "allocs", "tcb", "node", "done", "failed"}

TypeOK ==
    /\ pcls \in [Pages -> Classes] /\ prw \in [Pages -> Access]
    /\ ptab \subseteq 1..Tables /\ nalloc \in 0..AllocRecords
    /\ ctab \subseteq 1..Tables /\ ccls \in [Pages -> Classes]
    /\ crw \in [Pages -> Access] /\ cfr \in [Pages -> Frames \cup {NoFrame}]
    /\ ccont \in [Pages -> Pages \cup {0}]
    /\ free \subseteq Frames /\ heap \subseteq Heap
    /\ pc \in PCs /\ cur \in 1..(Cardinality(Pages) + 1)
    /\ copied \in 0..AllocRecords

\* the address spaces a running process can have: load_executable makes
\* sections available (creating their page tables), maps .text/.rodata/
\* .data to new frames and .bss to the zero frame, then sets R/W per
\* section; faults and new_pages add zero and new frames later.  A page
\* table is present when any of its pages is available; a directory entry
\* without a table always has its available bits clear.
Init ==
    /\ pcls \in [Pages -> Classes]
    /\ prw \in {f \in [Pages -> Access] :
                  \A p \in Pages : pcls[p] # "frame" => f[p] = "RO"}
    /\ ptab \in {T \in SUBSET (1..Tables) :
                   \A p \in Pages : pcls[p] # "unavail" => TableOf(p) \in T}
    /\ nalloc \in 0..AllocRecords
    /\ ctab = {}
    /\ ccls = [p \in Pages |-> "unavail"]
    /\ crw = [p \in Pages |-> "RO"]
    /\ cfr = [p \in Pages |-> NoFrame]
    /\ ccont = [p \in Pages |-> 0]
    /\ free = Frames
    /\ heap = {}
    /\ pc = "start" /\ cur = 1 /\ copied = 0

\* the outcomes of one kernel-heap allocation failing
Fails == IF MallocMayFail THEN BOOLEAN ELSE {FALSE}

Obj(kind) == <<kind, 0>>
Allocs(n) == {"alloc"} \X (1..n)

\* the child pages mapped to a frame of their own (never the zero frame)
ChildFrames == {cfr[p] : p \in {q \in Pages : ccls[q] = "frame"}}

\* destruct_page_dir(child_process_pd): free_frame of every present PTE
\* (the zero frame is never returned to the pool), sfree of every page
\* table and of the directory; `h' is the heap after the path's other
\* releases.  fork_ctrl_blk then returns -1.
DestructPageDir(h) ==
    /\ free' = free \cup ChildFrames
    /\ heap' = h \ ({Obj("pd")} \cup ({"pt"} \X ctab))
    /\ ctab' = {}
    /\ ccls' = [p \in Pages |-> "unavail"]
    /\ cfr' = [p \in Pages |-> NoFrame]
    /\ UNCHANGED <<crw, ccont>>
    /\ pc' = "failed"

\* construct_page_dir: the directory and the kernel's page tables
ConstructPageDir ==
    /\ pc = "start"
    /\ \E fail \in Fails :
         IF fail
         THEN pc' = "failed" /\ UNCHANGED heap
         ELSE heap' = heap \cup {Obj("pd")} /\ pc' = "buf"
    /\ UNCHANGED <<parent, ctab, ccls, crw, cfr, ccont, free, cur, copied>>

\* malloc of the copy buffer
MallocBuf ==
    /\ pc = "buf"
    /\ \E fail \in Fails :
         IF fail
         THEN DestructPageDir(heap)
         ELSE /\ heap' = heap \cup {Obj("buf")} /\ pc' = "pcb"
              /\ UNCHANGED <<ctab, ccls, crw, cfr, ccont, free>>
    /\ UNCHANGED <<parent, cur, copied>>

PushChildKeepBuf ==
    /\ pc = "pcb"
    /\ \E fail \in Fails :
         IF fail
         THEN DestructPageDir(heap)
         ELSE /\ heap' = heap \cup {Obj("pcb")} /\ pc' = "copy"
              /\ UNCHANGED <<ctab, ccls, crw, cfr, ccont, free>>
    /\ UNCHANGED <<parent, cur, copied>>

\* PUSH_BACK of the child PCB on the parent's child_pcb_list; on failure
\* free(buf) and destruct
PushChild ==
    /\ pc = "pcb"
    /\ \E fail \in Fails :
         IF fail
         THEN DestructPageDir(heap \ {Obj("buf")})
         ELSE /\ heap' = heap \cup {Obj("pcb")} /\ pc' = "copy"
              /\ UNCHANGED <<ctab, ccls, crw, cfr, ccont, free>>
    /\ UNCHANGED <<parent, cur, copied>>

\* check_user_page(parent_process_pd, page): the directory entry is not
\* present, the PTE is not present, or it maps the zero frame or another
CheckUserPage(p) ==
    CASE TableOf(p) \notin ptab                -> "PDE_NOT_PRESENT"
      [] pcls[p] \in {"unavail", "avail"}     -> "PTE_NOT_PRESENT"
      [] pcls[p] = "zero"                     -> "ZERO_FRAME_MAPPED"
      [] OTHER                                -> "NEW_FRAME_MAPPED"

\* set_availability(child_process_pd, page, a) allocates a page table when
\* the directory entry is not present and its (clear) available bits
\* differ from a; otherwise it only writes the PTE, or nothing
NeedsTable(p, a) == TableOf(p) \notin ctab /\ a # "unavail"

\* a failure inside the copy loop: POP_BACK of the child PCB, free(buf),
\* destruct_page_dir
CopyRollback == DestructPageDir(heap \ {Obj("pcb"), Obj("buf")})

CopyPageNoAccess ==
    /\ pc = "copy" /\ cur \in Pages
    /\ LET p == cur
           t == TableOf(p)
           a == IF pcls[p] = "unavail" THEN "unavail" ELSE "avail"
           new == IF NeedsTable(p, a) THEN {t} ELSE {}
       IN IF CheckUserPage(p) = "PDE_NOT_PRESENT"
          THEN /\ cur' = FirstOf(t + 1)
               /\ UNCHANGED <<ctab, ccls, crw, cfr, ccont, free, heap, pc>>
          ELSE \E fail \in Fails :
               IF (NeedsTable(p, a) /\ fail) \/ (CheckUserPage(p) = "NEW_FRAME_MAPPED" /\ free = {})
               THEN CopyRollback /\ UNCHANGED cur
               ELSE /\ ctab' = ctab \cup new
                    /\ heap' = heap \cup ({"pt"} \X new)
                    /\ ccls' = [ccls EXCEPT ![p] = pcls[p]]
                    /\ IF pcls[p] = "frame"
                       THEN LET f == CHOOSE f \in free : TRUE IN
                            /\ cfr' = [cfr EXCEPT ![p] = f]
                            /\ free' = free \ {f}
                            /\ ccont' = [ccont EXCEPT ![p] = p]
                            /\ crw' = [crw EXCEPT ![p] = "RW"]
                       ELSE /\ crw' = [crw EXCEPT ![p] = IF pcls[p] = "zero" THEN "RO" ELSE @]
                            /\ UNCHANGED <<cfr, free, ccont>>
                    /\ cur' = p + 1 /\ UNCHANGED pc
    /\ UNCHANGED <<parent, copied>>

\* one iteration of the copy loop, by check_user_page's class of the page:
\*  PDE_NOT_PRESENT: the entry's available bits are clear (no path sets
\*    them without a table), so nothing is set and the loop skips to the
\*    next page table;
\*  PTE_NOT_PRESENT: set_availability in the child to the parent's bits;
\*  ZERO_FRAME_MAPPED: set_availability, then map_zero_frame (read-only);
\*  NEW_FRAME_MAPPED: set_availability, map_new_frame (alloc_frame fails on
\*    an empty pool), memmove through buf under a transient CR3 switch,
\*    then set_access to the parent's R/W bit.
\* Any failure takes the copy-loop rollback.
CopyPage ==
    /\ pc = "copy" /\ cur \in Pages
    /\ LET p == cur
           t == TableOf(p)
           a == IF pcls[p] = "unavail" THEN "unavail" ELSE "avail"
           new == IF NeedsTable(p, a) THEN {t} ELSE {}
       IN IF CheckUserPage(p) = "PDE_NOT_PRESENT"
          THEN /\ cur' = FirstOf(t + 1)
               /\ UNCHANGED <<ctab, ccls, crw, cfr, ccont, free, heap, pc>>
          ELSE \E fail \in Fails :
               IF (NeedsTable(p, a) /\ fail) \/ (CheckUserPage(p) = "NEW_FRAME_MAPPED" /\ free = {})
               THEN CopyRollback /\ UNCHANGED cur
               ELSE /\ ctab' = ctab \cup new
                    /\ heap' = heap \cup ({"pt"} \X new)
                    /\ ccls' = [ccls EXCEPT ![p] = pcls[p]]
                    /\ IF pcls[p] = "frame"
                       THEN LET f == CHOOSE f \in free : TRUE IN
                            /\ cfr' = [cfr EXCEPT ![p] = f]
                            /\ free' = free \ {f}
                            /\ ccont' = [ccont EXCEPT ![p] = p]
                            /\ crw' = [crw EXCEPT ![p] = prw[p]]
                       ELSE /\ crw' = [crw EXCEPT ![p] = IF pcls[p] = "zero" THEN "RO" ELSE @]
                            /\ UNCHANGED <<cfr, free, ccont>>
                    /\ cur' = p + 1 /\ UNCHANGED pc
    /\ UNCHANGED <<parent, copied>>

\* the loop has passed the last user page: free(buf)
EndCopy ==
    /\ pc = "copy" /\ cur \notin Pages
    /\ heap' = heap \ {Obj("buf")} /\ pc' = "allocs"
    /\ UNCHANGED <<parent, ctab, ccls, crw, cfr, ccont, free, cur, copied>>

\* the rollback of the later steps: POP_FRONT every record copied so far,
\* POP_BACK of the child PCB, destruct_page_dir; `h' holds what the path
\* releases before that
LateRollback(h) == DestructPageDir(h \ (Allocs(copied) \cup {Obj("pcb")}))

\* PUSH_BACK of one of the parent's page_allocation_list records onto the
\* child's list
CopyAlloc ==
    /\ pc = "allocs" /\ copied < nalloc
    /\ \E fail \in Fails :
         IF fail
         THEN LateRollback(heap) /\ UNCHANGED copied
         ELSE /\ heap' = heap \cup Allocs(copied + 1) /\ copied' = copied + 1
              /\ UNCHANGED <<ctab, ccls, crw, cfr, ccont, free, pc>>
    /\ UNCHANGED <<parent, cur>>

\* PUSH_FRONT of the copy of the running TCB onto the child's tcb_list
PushTcb ==
    /\ pc = "allocs" /\ copied = nalloc
    /\ \E fail \in Fails :
         IF fail
         THEN LateRollback(heap)
         ELSE /\ heap' = heap \cup {Obj("tcb")} /\ pc' = "node"
              /\ UNCHANGED <<ctab, ccls, crw, cfr, ccont, free>>
    /\ UNCHANGED <<parent, cur, copied>>

\* malloc of the READY node, linked at the tail of READY with interrupts
\* disabled; on failure POP_BACK of the TCB first
LinkReady ==
    /\ pc = "node"
    /\ \E fail \in Fails :
         IF fail
         THEN LateRollback(heap \ {Obj("tcb")})
         ELSE /\ heap' = heap \cup {Obj("rnode")} /\ pc' = "done"
              /\ UNCHANGED <<ctab, ccls, crw, cfr, ccont, free>>
    /\ UNCHANGED <<parent, cur, copied>>

\* fork_ctrl_blk has returned
Returned == pc \in {"done", "failed"} /\ UNCHANGED vars

Next ==
    \/ ConstructPageDir \/ MallocBuf \/ PushChild
    \/ CopyPage \/ EndCopy \/ CopyAlloc \/ PushTcb \/ LinkReady
    \/ Returned

Spec == Init /\ [][Next]_vars

-----------------------------------------------------------------------------
(* Properties *)

\* what a page reads as: a page without a page table is unavailable
View(tab, cls, p) == IF TableOf(p) \in tab THEN cls[p] ELSE "unavail"

\* fork fidelity: a successful fork leaves the child with every page in
\* the parent's class, every private page in a frame of its own (not the
\* parent's, not in the pool, not shared with another child page) holding
\* the parent's content under the parent's R/W bit
ForkFaithful ==
    pc = "done" =>
        /\ \A p \in Pages : View(ctab, ccls, p) = View(ptab, pcls, p)
        /\ \A p \in Pages : pcls[p] = "frame" =>
               /\ ccont[p] = p /\ crw[p] = prw[p] /\ cfr[p] \notin free
               /\ \A q \in Pages \ {p} : ccls[q] = "frame" => cfr[q] # cfr[p]
        /\ \A p \in Pages : pcls[p] = "zero" => crw[p] = "RO"

\* the fork's accounting: a failed fork has released every heap object and
\* every frame it took on its rollback path; a successful one keeps only
\* the child's directory, tables, PCB, records, TCB and READY node, and
\* the pool has lost exactly the child's frames
ForkAccounted ==
    /\ pc = "failed" => heap = {} /\ free = Frames
    /\ pc = "done" =>
         /\ heap = {Obj("pd"), Obj("pcb"), Obj("tcb"), Obj("rnode")}
                   \cup ({"pt"} \X ctab) \cup Allocs(nalloc)
         /\ free \cup ChildFrames = Frames /\ free \cap ChildFrames = {}
================================================================================
