SPECIFICATION FrontSpec
CONSTANTS
  v1 = v1  v2 = v2
  Conns = {p1, p2, p3}  Hvs = {h1}  NoHv = NoHv  w1 = w1  w2 = w2  Frames <- SomeFrames  Daemons <- SomeDaemons
  MaxEntries = 1  MaxEngines = 2
  Clients = {p1, p2}  Absent = Absent
  Requests <- ServerRequests  Environments <- ServerEnvironments  Caps <- TokenCaps
  MaxChainDepth = 2  MaxTokens = 3  MaxTime = 1  MaxValidity = 1
  RecallMax = 1  RecallWindow = 1  MaxCalls = 3
  Keys = {k1, k2}  TenantOf <- OneTenant  Limits = {0, 1}  NoKey = NoKey  DefaultLimit = 1
  RefreshInterval = 1  MaxStale = 2  RefreshTimeout = 2  RateWindow = 2  MaxBacklog = 1
  WasiCallers = {c1, c2}  WasiTools <- DiskTools  TreeDirs <- Disk  TreeFiles = {}  TreeLinks <- DiskLinks
  OtherEntries <- DiskEntries  OtherLinks <- DiskSwaps  WorkDir <- DiskWork  NoPath = NoPath
  Lines <- ManifestLines  NoValue = NoValue  MaxLines = 5
  Verifiers = {v1, v2}  ClockOffset <- Clocks  NoKeys = NoKeys
  Startups <- RecallStartups  Envelopes <- RecallEnvelopes  Contexts <- RecallContexts
  MaxClock = 6  MaxTtl = 3  FutureSkew = 1  OperationTimeout = 1
  PurgeBatch = 1  PurgeMargin = 2  MaxAccepted = 2
INVARIANTS NoInstanceLost ShortageIsTransient
  WithinOperatorPolicy NegotiationNarrows AttestedOnlyVerified CapsuleReachesCaller
  AuthorityFromLiveRoot 
  RevokedKeyExpires RateBounded
  ManifestIsFaithful ReplayDetected ConflictRowStays
SYMMETRY Symmetry
CHECK_DEADLOCK FALSE
