\* Two services, so that a registration can be half done; one failure, which is
\* one reconnection beyond the one the opening frame causes; a work connection
\* besides the one of each login; a user with a byte that may come with
\* StartWorkConn and one that comes later.
CONSTANTS
  NumServices = 2
  MaxFaults = 1
  MaxAsks = 1
  MaxUsers = 1
  MaxDown = 2
SPECIFICATION FairSpec
INVARIANTS RequestsServed ClientOutlivesUse TunnelIntact
PROPERTIES LogsInAgain
CHECK_DEADLOCK FALSE
