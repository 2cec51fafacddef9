SPECIFICATION Spec
CONSTANTS
  None = None
  a = a
  b = b
  p1 = p1
  p2 = p2
  p3 = p3
  p4 = p4
  m1 = m1
  m2 = m2
  n1 = n1
  n2 = n2
  n3 = n3
  AnyPort = 0
  MaxTry = 5
  Mux <- Mux1
  Ctl = {a, b}
  Port = {1}
  Pxy = {p1, p2, p3}
  Owner = {p1, p2, p3, m1}
  PortName = {n1, n2, "@1"}
  Kind <- UDPKind
  Want <- UDPWant
  CtlOf <- UDPCtl
  NameOf <- UDPName
  MaxPorts = 1
INVARIANTS
  LimitExact
  GoneLeavesNothing
CHECK_DEADLOCK FALSE
