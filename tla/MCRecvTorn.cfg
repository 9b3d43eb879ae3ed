\* The connection is cut within a DATA frame of the control stream.
CONSTANTS
  Work = {"s3"}
  HdrLen = 2
  MaxPayload = 2
  RingSize = 3
  MaxFrames = 4
  MaxLater = 4
  MaxMain = 4
  MaxConn = 2
SPECIFICATION Spec
INVARIANTS HeadersAligned
CHECK_DEADLOCK FALSE
