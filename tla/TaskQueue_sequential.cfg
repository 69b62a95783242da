SPECIFICATION Spec
CONSTANTS
  Agents = {a1}
  Issues = {i1}
  Chats = {c1}
  Runs = {}
  Runtimes = {r1}
  Handlers = {g1}
  Sweepers = {g1}
  Archivable = {}
  IssueMoves = {"in_progress", "cancelled"}
  StatusEdits = {"idle", "working"}
  MaxAttempts = 2
  MaxConcurrent = 2
  MaxTasks = 3
  MaxEnqueues = 2
  MaxStops = 1
  MaxCrashes = 0
  None = None
  ChatAgent <- MCChatAgent
INVARIANTS
  StatusSettled
  ChatSerial
PROPERTIES
  ResetOnlyStuck
