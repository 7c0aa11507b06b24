\* The services that share no state, each on a small instance of its own: the bounds are
\* those of the modules' CONSTANTS.  A service rests when its requests have been served.
SPECIFICATION PlatformSpec
CONSTANTS
  MemItem = {m1, m2}
  MemRequests = 3
  MemWorker = W
  NoMem = NoMem
  MemEvents = 1
  MaxAttempts = 3
  MaxMemFaults = 1
  AccUser = {u1, u2}
  AccRequests = 3
  NoUser = NoUser
  MaxTokens = 3
  MaxPasswords = 2
  MaxFailures = 1
  AccOverlap = 2
  AcUser = {u1}
  AcGroup = {g1, g2}
  AcTool = {x1}
  AcRules = 2
  AcRequest = {q1}
  NoGroup = NoGroup
  AcMover = {v1}
  AcRequests = 6
  StrSession = {s1}
  StrRequests = 3
  StrSlots = 2
  NoStr = NoStr
  a1 = a1
  a2 = a2
  ModId = {a1, a2}
  ModAdmins = 2
  NoMod = NoMod
  ModBegins <- OneBegins
  ModRetries = 1
  ModCrashes = 1
  CirExec = {e1, e2}
  NoExec = NoExec
  CirThreshold = 2
  CirRetries = 1
  CirUpdates = 1
  CirStates = 2
  ScConns = 2
  ScRes = {r1}
  ScAll = ScAll
  ScKinds = {"list", "one"}
  ScEdits = 2
  ScWorker = TRUE
  ScRestarts = 1
  TpEdits = 2
  TpTurns = 1
  TpExternal = TRUE
  SkNames = 2
  SkShipped = {1}
  SkRequests = 2
  SkCrashes = 1
  SdRefs = 1
  SdFaults = 1
  KnSpace = {k1, k2}
  KnConn = {c1, c2}
  NoConn = NoConn
  KnRequests = 3
  KnFaults = 1
  AtUpload = {p1, p2, p3}
  AtCrashes = 1
  AtSizes = 2
  TlSteps = 2
  TlKeep = 2
  TlMessages = 6
  TlChars = 7
  TlRoom = 2
  TlSingles = 4
  McpCall = {b1, b2, b3}
  McpNone = McpNone
VIEW OwnState
INVARIANTS PlatformTypeOK ErasedForGood RotatedOnce OldSessionsEnd OneRulePerTool NothingInherited
  NothingHeld RouterCurrent ResolvedRuns CircuitHolds ClientFresh RecordedScopeHolds CallsAllowed
  ResultsResolve ImagesResolve SpacesConnected
  DelegatedOnce WindowWhole
PROPERTIES PointsConverge ReplacedAtOnce AdminRemains StreamsEnd BuiltinStays SentOnceBeforeStop
CHECK_DEADLOCK FALSE
