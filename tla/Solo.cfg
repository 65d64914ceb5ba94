SPECIFICATION SoloSpec
CONSTANTS
  t1 = t1  t2 = t2  a = a  b = b  h = h
  Callers = {t1}  Tools = {a}  MaxFuel = 5  Floor = 2
  MinSamples = 3  MaxSamples = 4  Percent = 75  Demands = {9}
  Threads = {t1}  Differential = TRUE  Capacity = 1  MaxDiffDepth = 2
  Sizes = {0, 1, 2}  Persist = FALSE  Manual = FALSE  MaxIds = 5  MaxCalls = 6
INVARIANTS RollbackNeverRefused CurrentIsRoot RollbackPairMatches
PROPERTIES SoloBudgetRecovers CallsReturn RequestsAnswered RegistryRecovers
CHECK_DEADLOCK FALSE
