\* Init, a child, a grandchild and a great-grandchild.
CONSTANTS
  PROC_MAX = 4
  MaxPid = 4
  Frame = {f1, f2, f3, f4}
  KernelAs = KernelAs
  None = None
SPECIFICATION Spec
SYMMETRY Symmetry
INVARIANT InitNoLostWakeup
CHECK_DEADLOCK FALSE
