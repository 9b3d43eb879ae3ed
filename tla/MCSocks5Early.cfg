\* Bytes behind the request, while the target is being connected.
CONSTANTS
  V4 = 3
  V6 = 5
  Port = 1
  Names = {0, 1}
  RingSize = 6
  MaxWindow = 12
  Word = 32
  MaxBytes = 9
SPECIFICATION Spec
INVARIANT EarlyDataForwarded
CHECK_DEADLOCK FALSE
