SPECIFICATION Spec
CONSTANTS
  Conns = {c1}
  Hvs = {h1, h2}
  w1 = w1  w2 = w2
  Frames <- OneFrame  Daemons <- OneDaemon
  MaxEntries = 1
  MaxEngines = 2
  NoHv = NoHv
INVARIANTS CachedModuleRuns
CHECK_DEADLOCK FALSE
