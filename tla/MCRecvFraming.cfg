\* Headers and payloads of two bytes, rings of three, one work stream: it takes
\* seven frames on the first connection, three of them for the control stream,
\* to open the stream, half-close it and fill its ring; four on the second.
CONSTANTS
  Work = {"s3"}
  HdrLen = 2
  MaxPayload = 2
  RingSize = 3
  MaxFrames = 7
  MaxLater = 4
  MaxMain = 3
  MaxConn = 2
SPECIFICATION Spec
INVARIANTS FramingExact RingsExact
CHECK_DEADLOCK FALSE
