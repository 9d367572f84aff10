----------------------------- MODULE MCGuestVirt ------------------------------
(***************************************************************************)
(* Model values for GuestVirt: a virtual IDT of three vectors (a fault,    *)
(* the timer and the keyboard at the last index, as HV_KEYBOARD is), two   *)
(* handler addresses (NULL and one), a ring of two scancodes.              *)
(***************************************************************************)
EXTENDS GuestVirt

\* hv_setidt irqno arguments including negative ones, which the handler
\* accepts
MCIrqsNegative == {0, 1, 2, -1, -2, -3}
================================================================================
