\* A ring of three bytes: every alignment of cur and end, transfers that fill
\* it, empty it, wrap, and ask for more than it holds.
CONSTANTS
  N = 3
  Byte = {0, 1}
  MaxLen = 4
SPECIFICATION Spec
INVARIANTS TypeOK IndicesAgree
PROPERTIES NoTruncation ImplementsQueue
CHECK_DEADLOCK TRUE
