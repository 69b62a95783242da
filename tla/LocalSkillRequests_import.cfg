\* One import, two calls served at once, three faults.
SPECIFICATION Spec
CONSTANTS
  r1 = r1
  w1 = w1
  w2 = w2
  Requests = {r1}
  Handlers = {w1, w2}
  Kind = "import"
  PendingTimeout = 1
  RunningTimeout = 2
  Retention = 3
  Patience = 1
  MaxPops = 2
  MaxReports = 2
  MaxFaults = 3
  MaxAge = 3
  Unsure = FALSE
  None = None
INVARIANTS TypeOK HandedOnce NotStranded AckSettles CompletedExists
PROPERTIES RunningTimesOut HandoffSpec
\* Every record is gone in the end.
CHECK_DEADLOCK FALSE
