\* The local service waits for an answer after its last bytes filled the window.
CONSTANTS
  MaxWindow = 6
  RingSize = 2
  Chunk = 1
  Frame = 1
  MaxUp = 9
  MaxDown = 1
  MaxMinor = 1
SPECIFICATION FairSpec
PROPERTIES TailNotStranded
CHECK_DEADLOCK FALSE
