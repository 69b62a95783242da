SPECIFICATION Spec
CONSTANTS
  Users = {u1, u2}
  Calls = {c1, c2, c3}
  None = None
  Patient = FALSE
  Faults = {}
  MaxFaults = 0
  MaxActs = 3
  MaxTasks = 0
INVARIANTS
  DaemonIsUsers
CHECK_DEADLOCK FALSE
