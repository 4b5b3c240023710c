\* The superblock write may report an error after it has landed.
CONSTANTS
  f = f
  File = {f, g}
  Root = root
  Value = {v, w}
  t1 = t1
  t2 = t2
  Table = {t1, t2}
  TableOf <- OneApart
  Absent = Absent
  Empty = Empty
  Torn = Torn
  NBlocks = 8
  MaxGen = 4
  Ambiguous = TRUE
  Unreadable = FALSE
SPECIFICATION Spec
SYMMETRY Symmetry
INVARIANT CrashRecoverable
CHECK_DEADLOCK FALSE
