SPECIFICATION Spec
CONSTANTS
  Agents = {a1}
  Issues = {i1}
  Chats = {}
  Runs = {ap}
  Runtimes = {r1}
  Handlers = {g1, g2}
  Sweepers = {g1, g2}
  Archivable = {}
  IssueMoves = {}
  StatusEdits = {}
  MaxAttempts = 2
  MaxConcurrent = 1
  MaxTasks = 3
  MaxEnqueues = 2
  MaxStops = 0
  MaxCrashes = 1
  None = None
  ChatAgent <- MCChatAgent
SYMMETRY Goroutines
INVARIANTS
  TypeOK
  IssueSerial
  ClaimedOnce
  RetryLineage
  RetryOwed
PROPERTIES
  LaneSpec
  FinishedForGood
