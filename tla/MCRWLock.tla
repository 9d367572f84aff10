------------------------------- MODULE MCRWLock -------------------------------
(***************************************************************************)
(* Three threads on one reader/writer lock.                                *)
(***************************************************************************)
EXTENDS RWLock

\* two writers that also read, and a reader
MCOpsWriters == [t \in {1, 2, 3} |-> IF t = 3 THEN {"read"} ELSE {"read", "write"}]

\* a downgrading thread, a writer and two readers
MCOpsMixed == [t \in {1, 2, 3, 4} |-> CASE t = 1 -> {"downgrade"}
                                         [] t = 2 -> {"write"}
                                         [] OTHER -> {"read"}]
\* a downgrading thread, a writer and a reader
MCOpsDowngrade == [t \in {1, 2, 3} |-> CASE t = 1 -> {"downgrade"}
                                          [] t = 2 -> {"write"}
                                          [] OTHER -> {"read"}]
================================================================================
