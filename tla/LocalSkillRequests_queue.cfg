\* Two listings in the sorted set; a command that fails may have been executed.
SPECIFICATION Spec
CONSTANTS
  r1 = r1
  r2 = r2
  w1 = w1
  Requests = {r1, r2}
  Handlers = {w1}
  Kind = "list"
  PendingTimeout = 1
  RunningTimeout = 2
  Retention = 3
  Patience = 1
  MaxPops = 2
  MaxReports = 1
  MaxFaults = 1
  MaxAge = 3
  Unsure = TRUE
  None = None
INVARIANT AckSettles
PROPERTY QueueDrains
\* Every record is gone in the end.
CHECK_DEADLOCK FALSE
