---------------------------- MODULE MCProcessWait ----------------------------
(* ProcessWait for TLC: a parent with two children, the first with two     *)
(* threads and the second with one, each thread taking one page fault.     *)
EXTENDS ProcessWait

MCThreads == {"t1", "t2", "t3"}
MCActors == MCThreads \cup {"w"}
MCLocks == {"c1", "c2"}
MCProcOf == [t \in MCThreads |-> IF t = "t3" THEN "c2" ELSE "c1"]
=============================================================================
