\* Four commits on eight blocks: both files can exist with data, which uses
\* six, so transactions run out of blocks and reuse those of old generations.
CONSTANTS
  f = f
  File = {f, g}
  Root = root
  Value = {v, w}
  t1 = t1
  t2 = t2
  Table = {t1, t2}
  TableOf <- OneApart
  Absent = Absent
  Empty = Empty
  Torn = Torn
  NBlocks = 8
  MaxGen = 5
  Ambiguous = FALSE
  Unreadable = FALSE
  MaxCommits = 3
SPECIFICATION MCSpec
SYMMETRY Symmetry
INVARIANTS CrashRecoverable CleanAndCurrent FileSound CanEmpty
PROPERTIES IsAtomicStore IsByteArray
CHECK_DEADLOCK FALSE
