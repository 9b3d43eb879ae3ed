\* Two services, three work connections, three failures; the timeout is as short
\* as load_config admits.
CONSTANTS
  NumServices = 2
  HbInterval = 2
  HbTimeout = 2
  MaxReq = 3
  MaxFaults = 3
SPECIFICATION FairSpec
INVARIANTS CryptoAgrees RegistersFirst StreamIdsFresh RequestsAnswered SilenceNoticed
PROPERTIES Recovers NoFalseTimeout
CHECK_DEADLOCK TRUE
