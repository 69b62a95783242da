SPECIFICATION Spec
CONSTANTS
  Agents = {a1}
  Issues = {}
  Chats = {c1}
  Runs = {}
  Runtimes = {r1}
  Handlers = {g1, g2}
  Sweepers = {g1, g2}
  Archivable = {}
  IssueMoves = {}
  StatusEdits = {}
  MaxAttempts = 1
  MaxConcurrent = 2
  MaxTasks = 2
  MaxEnqueues = 2
  MaxStops = 0
  MaxCrashes = 0
  None = None
  ChatAgent <- MCChatAgent
SYMMETRY Goroutines
INVARIANTS
  ChatSerial
