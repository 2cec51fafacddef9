SPECIFICATION FairSpec
CONSTANTS
  None = None
  Conn = {k1, k2}
  User = {u1, u2}
  PoolCount = 1
  Slack = 0
INVARIANTS WorkConnsHeld Replenished
PROPERTY UserSettles
CHECK_DEADLOCK FALSE
