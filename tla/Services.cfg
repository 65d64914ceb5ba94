SPECIFICATION ServiceSpec
CONSTANTS
  i1 = i1  i2 = i2  i3 = i3  s1 = s1  s2 = s2  s3 = s3  pA = pA  pB = pB
  Threads = {p1, p2}  Pages = {pA, pB}  Memories <- TwoPages
  Capacity = 2  MaxDiffDepth = 2  Persist = FALSE  MaxIds = 4  MaxRollbacks = 1
  Tasks = {p1, p2}  Kinds <- EventKinds  TimelineAttempts = 2  MaxReplays = 2  MaxEvents = 2
  Runs = {p1, p2}  Ticks = 2  Permits = 1  TotalInstances = 1  Nothing = Nothing
  Callers = {p1, p2}  Instincts = {i1, i2, i3}  Category <- CategoryOf  Description <- AdviceOf
  Applicable = {i1, i2, i3}  Failures = {"TRAP_UNREACHABLE", "TIMEOUT"}  MinConfidence <- Half  MaxRetries = 2  MaxActs = 4
  Advisors = {p1, p2}  LlmBudget = 1  MaxMinutes = 2  MaxConsults = 4
  Branches = 3  Slots = 2
  Snapshots = {s1, s2, s3}  SnapshotDigest <- DigestOf  Malformed = Malformed
  MaxSteps = 6  MaxFaults = 2
  Sites = {p1, p2}  MaxHeads = 4  MaxMillis = 1  MaxLogical = 3
INVARIANTS GenerationIsDepth RestoreFaithful
  AckedChainVerifies SpooledIsAccounted
  TimeoutsAreIsolated TimedOutWorkerStops
  CreditsAreEarned FilesLagInFlight OverrunNeedsReset
  WinnerHoldsSlot DeliveredInOrder OkMeansReplicated HeadsAreLeaves HlcCausal
PROPERTIES StoreSpec OrphansStayLost
SYMMETRY Symmetry
CHECK_DEADLOCK FALSE
