\* One end closes while the other side waits.
CONSTANTS
  Thread = {a, b}
  MayRead <- Anyone
  MayWrite <- Anyone
  Cap = 2
  MaxLen = 2
  MaxBytes = 2
  None = None
SPECIFICATION Spec
SYMMETRY Symmetry
INVARIANT PeerSeesHangup
CHECK_DEADLOCK FALSE
