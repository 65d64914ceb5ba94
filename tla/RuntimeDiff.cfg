SPECIFICATION Spec
CONSTANTS
  Threads = {t1}
  Differential = TRUE
  Capacity = 2
  MaxDiffDepth = 2
  Sizes = {1, 2}
  Persist = FALSE
  Manual = FALSE
  MaxIds = 3
  MaxCalls = 3
INVARIANTS DiffsKeepWorking
CHECK_DEADLOCK FALSE
