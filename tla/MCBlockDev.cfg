\* Three blocks and two cache entries, so blocks are evicted; room for two
\* requests that are never answered; ring indices that wrap.
CONSTANTS
  QSize = 8
  IdxMod = 16
  Lba = {p, q, r}
  CACHE_ENTRIES = 2
  Value = {v, w}
  Zero = Zero
  Garbage = Garbage
  None = None
  Late = FALSE
SPECIFICATION Spec
SYMMETRY Symmetry
VIEW View
INVARIANTS WritesDurable CacheCoherent QueueSound
CHECK_DEADLOCK FALSE
