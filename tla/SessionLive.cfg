SPECIFICATION SumSpec
CONSTANTS
  r1 = r1
  r2 = r2
  Session = {s1, s2}
  MaxVersion = 2
  NoSession = NoSession
  Round = {r1, r2}
  Incarnation = {i1, i2}
  NoProxy = NoProxy
  Lane = {l1}
  BusCap = 1
  WireCap = 1
INVARIANTS TypeOK SessionsSafe
  
CHECK_DEADLOCK FALSE
