SPECIFICATION VnetSpec
CONSTANTS
  VnetConn = {}
  VnetIP = {ip1}
  RouteIP = ip1
  Plug = {1}
  MaxErrors = 30
INVARIANT BackoffAtLeastBase
CHECK_DEADLOCK FALSE
