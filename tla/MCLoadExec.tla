----------------------------- MODULE MCLoadExec -----------------------------
(* An address space of 8 pages of 16 bytes, two page tables of 4 pages.   *)
(* Pages 1-3 hold the sections, page 4 is a gap, the stack is pages 5-7  *)
(* (48 bytes); guest memory is pages 1-7.                                *)
EXTENDS LoadExec

\* No arguments; two that fill the stack to 40 of its 48 bytes, the
\* second of length 4 so that a missing NUL is not hidden by padding;
\* two long ones whose frame for _main runs past stack_low.
MCArgvs == {<<>>, <<<<1>>, <<2, 2, 2, 2>>>>,
            <<<<1, 2, 1, 2, 1, 2, 1, 2, 1, 2, 1>>,
              <<2, 2, 2, 2, 2, 2, 2, 2, 2, 2, 2>>>>}

\* A guest (text below USER_MEM_START); sections on pages of their own
\* but .rodata sharing the last .text page; .data sharing the .rodata page.
MCLayouts ==
    {[txt |-> <<0, 8>>, rod |-> <<8, 0>>, dat |-> <<8, 0>>, bss |-> <<8, 0>>],
     [txt |-> <<16, 20>>, rod |-> <<36, 8>>, dat |-> <<48, 6>>, bss |-> <<54, 10>>],
     [txt |-> <<16, 20>>, rod |-> <<36, 8>>, dat |-> <<44, 6>>, bss |-> <<50, 12>>]}

\* .bss starting on the last .rodata page, with no .data.
MCLayoutsBss ==
    {[txt |-> <<16, 20>>, rod |-> <<36, 8>>, dat |-> <<44, 0>>, bss |-> <<44, 12>>]}
=============================================================================
