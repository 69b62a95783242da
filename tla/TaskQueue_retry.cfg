SPECIFICATION LiveSpec
CONSTANTS
  Agents = {a1}
  Issues = {i1}
  Chats = {}
  Runs = {}
  Runtimes = {r1}
  Handlers = {g1}
  Sweepers = {g2}
  Archivable = {}
  IssueMoves = {}
  StatusEdits = {}
  MaxAttempts = 2
  MaxConcurrent = 1
  MaxTasks = 4
  MaxEnqueues = 2
  MaxStops = 0
  MaxCrashes = 0
  None = None
  ChatAgent <- MCChatAgent
PROPERTIES
  RetryHappens
