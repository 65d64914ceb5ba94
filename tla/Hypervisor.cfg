SPECIFICATION HypervisorSpec
CONSTANTS
  a = a  b = b
  Threads = {t1, t2}  Capacity = 1  MaxDiffDepth = 1  Persist = TRUE  MaxIds = 3
  Differential = TRUE  Sizes = {1}  Manual = TRUE  MaxCalls = 3
  Callers = {t1, t2}  Tools = {toolA, toolB}
  MaxFuel = 3  Floor = 2  MinSamples = 2  MaxSamples = 2  Percent = 50  Demands = {3}
INVARIANTS TelemetryExact UnrestoredIsLost GrowthBounded FilesRestoreFaithful
SYMMETRY Sym
CHECK_DEADLOCK FALSE
