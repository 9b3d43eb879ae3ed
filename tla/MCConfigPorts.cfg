\* One service of which the file gives the type only.
CONSTANTS
  Services = {"s1"}
  CommonLines <- MCCommonLines
  ServiceLines <- MCTypeLines
  NULL = NULL
  MaxLines = 2
  MaxConns = 1
SPECIFICATION Spec
INVARIANT PortsFound
CHECK_DEADLOCK FALSE
