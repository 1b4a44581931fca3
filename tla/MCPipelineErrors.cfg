SPECIFICATION Spec
CONSTANTS
  MayFail <- MCOpen
  MaxPending = 4
INVARIANTS
  CaptureErrorReported
