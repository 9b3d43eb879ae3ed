\* Bytes enough in one direction to exhaust a window, use the ring and be credited,
\* and a few in the other; frames as large as rx_ring, closes from both sides.
CONSTANTS
  MaxWindow = 12
  RingSize = 4
  Chunk = 2
  Frame = 4
  MaxUp = 16
  MaxDown = 14
  MaxMinor = 1
SPECIFICATION FairSpec
INVARIANTS TypeOK NoLostWakeup WakesTooLateOnly TxRingFits FramesHonest FinIsLast
  SendCreditConserved UplinkExact WindowStaysOpen RecvCreditConserved DownlinkExact
PROPERTIES ReadResumes ClosedIsFreed
CHECK_DEADLOCK FALSE
