\* Two processes read from the same pipe.
CONSTANTS
  Thread = {a, b, c}
  MayRead = {a, b}
  MayWrite = {a, b, c}
  Cap = 2
  MaxLen = 2
  MaxBytes = 2
  None = None
SPECIFICATION Spec
INVARIANT ReaderNotStranded
CHECK_DEADLOCK FALSE
