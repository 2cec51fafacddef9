SPECIFICATION FairSpec
CONSTANTS
  None = None
  Name = {n1}
  Wrapper = {w1, w2, w3}
  NameOf <- OneName
  Monitored = {w1}
  MaxFailed = 1
  SendRoom = 2
INVARIANT ListedIsLive
INVARIANT UnclaimedIsWithdrawn
PROPERTY UnhealthyStops
PROPERTY RemovedForgotten
CHECK_DEADLOCK FALSE
