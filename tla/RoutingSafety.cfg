SPECIFICATION SumSpec
CONSTANTS
  pa = pa
  pb = pb
  pc = pc
  ga = ga
  gb = gb
  Domain <- MCDomain
  HTTPUser = {"", "u"}
  AllUsers = ""
  NoRoute = NoRoute
  Location <- MCLocation
  Request <- MCRequest
  MaxRoutes = 3
  HTTPProxy = {pa, pb, pc}
  HTTPGroup = {ga, gb}
  HTTPObject = {o1, o2, o3, o4}
  HTTPConfs <- MCHTTPConfs
  HTTPRequest = {"get", "connect"}
  HTTPAsk <- MCHTTPAsk
  AdmUser = {"u1", "u2"}
  UserAddr <- MCUserAddr
  Doors <- MCDoors
  FWConfigs <- MCFWConfigs
  FWFirst <- MCFWFirst
  HomeCases <- MCHomeCases
  VerdictTTL = 1
  RepTTL = 1
  ErrTTL = 1
  QueryTime = 0
  MaxPuts = 1
  PluginOrder <- MCPluginOrder
  SupportCases <- MCSupportCases
  Note = {n1, n2}
  MaxCloses = 3
INVARIANT TypeOK
PROPERTIES HTTPRouted EntryChecked
CHECK_DEADLOCK FALSE
