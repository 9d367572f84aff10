----------------------------- MODULE ThreadStates -----------------------------
(***************************************************************************)
(* Abstract thread state machine of the control-block store (specification *)
(* section 4.1): NEW -> READY -> RUNNING -> {WAITING -> READY, TERMINATED}, *)
(* WAITING sub-typed by blocking reason, exactly one thread RUNNING on the  *)
(* single CPU.  A thread leaves WAITING only through the wake event of its *)
(* reason: sleepers and the first reader are switched to directly by the   *)
(* timer and keyboard handlers, descheduled threads are made runnable.     *)
(* KernelThreads refines this module: `where' is the list that holds the   *)
(* thread.                                                                 *)
(***************************************************************************)
EXTENDS FiniteSets

CONSTANTS Threads

VARIABLE where

Places == {"NEW", "READY", "RUNNING", "TERMINATED",
           "SLEEP", "READLINE", "DESCHEDULE", "VANISH_WAIT"}
Blocked == {"SLEEP", "READLINE", "DESCHEDULE", "VANISH_WAIT"}
\* reasons whose wake event hands the CPU to the woken thread directly
WakeToRun == {"SLEEP", "READLINE"}

RunningSet == {t \in Threads : where[t] = "RUNNING"}

TypeOK == where \in [Threads -> Places]

Init ==
    /\ where \in [Threads -> {"NEW", "READY", "RUNNING"}]
    /\ Cardinality(RunningSet) = 1

\* a created thread enters READY
Create(t) ==
    /\ where[t] = "NEW"
    /\ where' = [where EXCEPT ![t] = "READY"]

\* the running thread r gives the CPU to t and ends in `to'
Switch(r, t, to) ==
    /\ where[r] = "RUNNING"
    /\ where[t] \in {"READY"} \cup WakeToRun
    /\ r # t
    /\ where' = [where EXCEPT ![r] = to, ![t] = "RUNNING"]

\* a descheduled or vanish-waiting thread is made ready by its wake event
Unblock(t) ==
    /\ where[t] \in Blocked \ WakeToRun
    /\ where' = [where EXCEPT ![t] = "READY"]

Next ==
    \/ \E t \in Threads : Create(t)
    \/ \E r \in RunningSet, t \in Threads,
          to \in {"READY", "TERMINATED"} \cup Blocked : Switch(r, t, to)
    \/ \E t \in Threads : Unblock(t)

Spec == Init /\ [][Next]_where

\* The single CPU runs exactly one thread.
OneRunning == Cardinality(RunningSet) = 1
================================================================================
