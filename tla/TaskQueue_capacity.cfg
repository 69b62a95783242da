SPECIFICATION Spec
CONSTANTS
  Agents = {a1}
  Issues = {}
  Chats = {c1}
  Runs = {ap}
  Runtimes = {r1}
  Handlers = {g1, g2}
  Sweepers = {g1, g2}
  Archivable = {}
  IssueMoves = {}
  StatusEdits = {}
  MaxAttempts = 1
  MaxConcurrent = 1
  MaxTasks = 3
  MaxEnqueues = 3
  MaxStops = 0
  MaxCrashes = 0
  None = None
  ChatAgent <- MCChatAgent
SYMMETRY Goroutines
INVARIANTS
  OvercommitBound
