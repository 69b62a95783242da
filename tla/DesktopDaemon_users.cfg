SPECIFICATION FairSpec
CONSTANTS
  Users = {u1, u2}
  Calls = {c1, c2, c3}
  None = None
  Patient = TRUE
  Faults = {"mint", "kill", "boot", "slow", "cli", "quit"}
  MaxFaults = 1
  MaxActs = 3
  MaxTasks = 1
INVARIANTS
  TypeOK
  DaemonIsUsers
  SidecarTruthful
  LoggedOutClean
PROPERTIES
  LoginRuns
  VersionCatchesUp
  ShownSettles
CHECK_DEADLOCK FALSE
