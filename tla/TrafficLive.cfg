SPECIFICATION SumSpec
CONSTANTS
  p1 = p1
  p2 = p2
  tg = tg
  hg = hg
  mg = mg
  ng = ng
  None = None
  Port = {1}
  AnyPort = 0
  Owner = {p1, p2}
  PortName = {p1, p2}
  NameOf <- MCNameOf
  MaxTry = 5
  GroupName = {tg, hg, mg, ng}
  KindOf <- MCKindOf
  GroupConfs <- MCGroupConfs
  Object = {o1, o2, o3}
  User = {u1, u2}
  Domain <- MCDomain
  HTTPUser = {""}
  AllUsers = ""
  NoRoute = NoRoute
  MuxProxy = {p1, p2}
  MuxConfs <- MCMuxConfs
  MuxConn = {1, 2}
  MuxHost <- MCDomain
  RelayKind = {"udp", "tcpudp"}
  SWork = {w1, w2}
  SAddr = {a1, a2}
  SendCap = 1
  NoWork = NoWork
  FAddr = {a1, a2}
  FSock = {s1, s2}
  NoSock = NoSock
  CKind = {"udp", "tcpudp", "pe"}
  CWork = {w1, w2}
  NoCWork = NoCWork
  SKind = {"sudp", "stcpsudp"}
  Stream = {s1}
  VCap = 1
  NoStream = NoStream
  HoleSocket = {k1, k2}
  NoHole = NoHole
  TunnelUser = {u1}
  Datagrams = Datagrams
  MaxTunnels = 2
  VisitorName <- MCVisitorName
  VisitorConfigs <- MCVisitorConfigs
  Channel = {ch1, ch2}
  WorkID = {w1, w2}
  VnetConn = {}
  VnetIP = {ip1}
  RouteIP = ip1
  Plug = {1}
  MaxErrors = 1
  AdmUser = {"u1", "u2"}
  UserAddr <- MCUserAddr
  Doors <- MCDoors
  FWConfigs <- MCFWConfigs
  FWFirst <- MCFWFirst
  HomeCases <- MCHomeCases
  VerdictTTL = 1
  RepTTL = 1
  ErrTTL = 1
  QueryTime = 0
  MaxPuts = 0
INVARIANTS TypeOK SharedEndpointHeld DatagramsSafe
PROPERTIES  DatagramPathsEnd  VisitorsServe
CHECK_DEADLOCK FALSE
