\* The device answers requests that the driver has given up.
CONSTANTS
  QSize = 16
  IdxMod = 32
  Lba = {p, q, r}
  CACHE_ENTRIES = 2
  Value = {v}
  Zero = Zero
  Garbage = Garbage
  None = None
  Late = TRUE
SPECIFICATION Spec
INVARIANT NeverPanics
CHECK_DEADLOCK FALSE
