CONSTANTS
  None = None
  c1 = c1  c2 = c2  c3 = c3  r1 = r1  r2 = r2  id1 = id1
  Ctl = {c1, c2}
  RunID = {r1, r2}
  ClientID = {id1}
  MayStop = TRUE
  ClientOf <- MCClientOf
SPECIFICATION FairSpec

PROPERTIES WaiterReleased ImplementsTable
CHECK_DEADLOCK FALSE
