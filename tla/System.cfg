SPECIFICATION Spec
CONSTANTS
  Threads = {"m", "n", "c", "d"}
  Priority <- MCPriority
  Layouts <- MCLayouts
  MaxTokens = 2
  Pids = {1, 2, 3}
  Emulated = {1, 2}
  Tids = {1, 2}
  Regs = {0, 26}
  Addrs = {0, 1, 2}
  Present = {1, 2}
  Bytes = {7, 35}
  MaxThreads = 1
  MaxAttached = 1
  MaxEdits = 1
  PipeSize = 5
  Lengths = {1, 4}
  MaxBytes = 6
  MaxCalls = 3
INVARIANTS MemoryAccounted SessionsServed CommandsDelivered SectionsServed ObserverRight PipesServed TitlesRight WaitersServed InspectionRight
CHECK_DEADLOCK FALSE
