\* One process reads a pipe, two others write: the ring of two bytes wraps,
\* fills and drains, and writes are cut short.  Two threads read the console;
\* two keys are pressed or released.
CONSTANTS
  Thread = {a, b, c}
  MayRead = {a}
  MayWrite = {b, c}
  Cap = 2
  MaxLen = 2
  MaxBytes = 3
  None = None
  Reader = {t1, t2}
  RingSize = 3
  MaxRead = 2
  MaxKeys = 2
  WireMax = 1
  NULL = NULL
SPECIFICATION MCSpec
INVARIANTS StreamIntact NoUseAfterFree NotStranded
PROPERTIES HangupReleases ReadReturns
\* Everybody may have closed the pipe, and no key need be pressed.
CHECK_DEADLOCK FALSE
