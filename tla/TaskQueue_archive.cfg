SPECIFICATION FairSpec
CONSTANTS
  Agents = {a1}
  Issues = {i1}
  Chats = {}
  Runs = {ap}
  Runtimes = {r1, r2}
  Handlers = {g1}
  Sweepers = {g1}
  Archivable = {a1}
  IssueMoves = {"cancelled"}
  StatusEdits = {}
  MaxAttempts = 1
  MaxConcurrent = 1
  MaxTasks = 2
  MaxEnqueues = 2
  MaxStops = 0
  MaxCrashes = 0
  None = None
  ChatAgent <- MCChatAgent
INVARIANTS
  ArchivedQuiet
PROPERTIES
  InFlightEnds
