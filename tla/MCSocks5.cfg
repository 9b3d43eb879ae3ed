\* Addresses of 3 (IPv4), 5 (IPv6) and 3 or 4 (names) bytes, and enough bytes
\* behind them to be parsed again, to fill the ring and to earn credit.
CONSTANTS
  V4 = 3
  V6 = 5
  Port = 1
  Names = {0, 1}
  RingSize = 6
  MaxWindow = 12
  Word = 32
  MaxBytes = 9
SPECIFICATION FairSpec
INVARIANTS ForwardsExactly CreditAgrees
PROPERTIES EarlyBytesLeave
CHECK_DEADLOCK FALSE
