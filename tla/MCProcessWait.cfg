CONSTANTS
  Waiter = "w"
  Threads <- MCThreads
  Actors <- MCActors
  Locks <- MCLocks
  ProcOf <- MCProcOf
  MaxFaults = 1
  NoTid = NoTid
  NoOwner = NoOwner
SPECIFICATION Spec
INVARIANT HintNamesHolder
INVARIANT UnlockByHolder
INVARIANT WaitReleases
INVARIANT ReapedQuiet
PROPERTY RefinesKernLock
PROPERTY AllCollected
CHECK_DEADLOCK FALSE
