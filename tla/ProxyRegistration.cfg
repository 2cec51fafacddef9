SPECIFICATION FairSpec
CONSTANTS
  None = None
  a = a
  b = b
  p1 = p1
  p2 = p2
  p3 = p3
  p4 = p4
  m1 = m1
  m2 = m2
  n1 = n1
  n2 = n2
  n3 = n3
  AnyPort = 0
  MaxTry = 5
  Mux <- Mux2
  Ctl = {a, b}
  Port = {1, 2}
  Pxy = {p1, p2, p3, p4}
  Owner = {p1, p2, p3, p4, m1, m2}
  PortName = {n1, n2, n3, "@1", "@2"}
  Kind <- TCPKind
  Want <- TCPWant
  CtlOf <- TCPCtl
  NameOf <- TCPName
  MaxPorts = 1
INVARIANTS
  NameOwned
  PortsPartitioned
  PortHeld
PROPERTY DrainFinishes
CHECK_DEADLOCK FALSE
