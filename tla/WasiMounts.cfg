SPECIFICATION MountRun
CONSTANTS
  WasiCallers = {c1}  WasiTools <- OneTool  TreeDirs <- Disk  TreeFiles = {}  TreeLinks <- DiskLinks
  OtherEntries <- DiskEntries  OtherLinks <- OneSwap  WorkDir <- DiskWork  NoPath = NoPath
  Caps = {}  MaxChainDepth = 1  MaxTokens = 0  MaxTime = 0
INVARIANT MountsAreAuthorized
CHECK_DEADLOCK FALSE
