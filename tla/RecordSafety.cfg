SPECIFICATION SumSpec
CONSTANTS
  PeerOf <- MCPeerOf
  PeerUse = {"t1", "t2", "u1", "t3"}
  MaxCount = 1
  MaxDays = 5
  DayHours = {24, 25}
  ReserveDays = 3
  NoStats = NoStats
  MetricConn = {c1, c2}
  TypeOfInc <- MCTypeOfInc
  NameOfInc <- MCNameOfInc
  Incarnation = {1, 2, 3}
  MetricType = {"tcp", "udp"}
  MetricName = {"a", "b"}
  MaxStreams = 2
  MaxBytes = 2
  MaxReports2 = 2
  Duration = 5
  Factor = 2
  MaxDuration = 20
  FastRetryCount = 3
  FastRetryDelay = 2
  FastRetryWindow = 40
  Spread = {0, 5}
  Lasts = {0, 50}
  NatAddrs <- MCNatAddrs
  LocalIP = {9}
  MaxRounds = 4
  MaxReports = 6
  StunServers = 2
  Entry <- MCEntry
  ConfFiles <- MCConfFiles
  VnetConn = {v1, v2}
  VnetIP = {ip1, ip2}
  RouteIP = ip1
  Plug = {}
  MaxErrors = 1
  TokenLife = 2
  AuthCases <- MCAuthCases
INVARIANTS TypeOK  RetriesPaced  VnetRoutesLive RefusedForCause
PROPERTIES StoreDurable ConfigRuns
CHECK_DEADLOCK FALSE
