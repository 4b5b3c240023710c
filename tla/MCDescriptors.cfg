\* A graph of five nodes, descriptors for two processes; seven changes to the
\* directory that is scanned; three keys pressed or released, for a ring with
\* room for two characters.
CONSTANTS
  Name = {"a", "b", "dev", "console"}
  Dot = "."
  DotDot = ".."
  TooLong = "too-long"
  Dev = "dev"
  Console = "console"
  NodeCount = 6
  EdgesPerBlock = 2
  PathMax = 3
  Proc = {p1, p2}
  FdMax = 2
  MaxFile = 3
  Path <- Paths
  RawPath <- RawPaths
  OldPath <- OldPaths
  NewPath <- NewPaths
  Flags <- OpenFlags
  MaxOps = 7
  Thread = {a, b, c}
  reader0 = a
  reader1 = b
  None = None
  Reader = {t1, t2}
  RingSize = 3
  MaxLen = 2
  MaxKeys = 3
  WireMax = 1
  NULL = NULL
SPECIFICATION MCSpec
SYMMETRY Interchangeable
CONSTRAINT Budget
INVARIANTS
  OpenNodesLive
  CountsExact
  TreeSound
  DotDotLexical
  NothingMissed
  PairSound
  InputExact
  ReaderNotMissed
\* The last process may exit, both ends of a pair may be closed, and no key
\* need be pressed.
CHECK_DEADLOCK FALSE
