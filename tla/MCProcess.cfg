\* Three slots for four pids, so a slot is used again, and three address
\* spaces, so that forks and execs can find none.
CONSTANTS
  PROC_MAX = 3
  MaxPid = 4
  Frame = {f1, f2, f3}
  KernelAs = KernelAs
  None = None
SPECIFICATION FairSpec
INVARIANTS OwnAddressSpace FramesOwned ZombiesReapable NoLostWakeup
PROPERTY WaitReturns
CHECK_DEADLOCK FALSE
