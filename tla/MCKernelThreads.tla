---------------------------- MODULE MCKernelThreads ----------------------------
(* TCB slots: 1 is idle in the root process, 2 is init, 3 and 5 are       *)
(* threads init forks, 4 is the only thread of a child process of init.   *)
(* A configuration names the slots it uses.                               *)
EXTENDS KernelThreads, TLC

MCOwner == [t \in Threads |->
              ((1 :> "root") @@ (2 :> "init") @@ (3 :> "init") @@ (4 :> "child")
               @@ (5 :> "init"))[t]]
================================================================================
