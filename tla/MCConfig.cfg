\* Two services; enough lines for a complete service of type http with
\* locations, or for two of which one lacks something.
CONSTANTS
  Services = {"s1", "s2"}
  CommonLines <- MCCommonLines
  ServiceLines <- MCServiceLines
  NULL = NULL
  MaxLines = 4
  MaxConns = 2
SPECIFICATION Spec
INVARIANTS OrderIndependent TunnelsHaveTarget Reannounced
CHECK_DEADLOCK FALSE
