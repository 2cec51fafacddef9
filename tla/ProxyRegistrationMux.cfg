SPECIFICATION Spec
CONSTANTS
  None = None
  a = a
  b = b
  p1 = p1
  p2 = p2
  p3 = p3
  p4 = p4
  m1 = m1
  m2 = m2
  n1 = n1
  n2 = n2
  n3 = n3
  AnyPort = 0
  MaxTry = 5
  Mux <- Mux2
  Ctl = {a, b}
  Port = {1, 2}
  Pxy = {p1, p2}
  Owner = {p1, p2, m1, m2}
  PortName = {n1, n2, "@1", "@2"}
  Kind <- MixKind
  Want <- MixWant
  CtlOf <- MixCtl
  NameOf <- MixName
  MaxPorts = 0
INVARIANT MuxPortReserved
CHECK_DEADLOCK FALSE
