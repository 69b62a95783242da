SPECIFICATION Spec
CONSTANTS
  Keys = {"issue", "subscribers"}
  Hooks <- MCHooks
  Absent = Absent
  MaxWrites = 2
  MaxFaults = 2
INVARIANTS
  TypeOK
  FreshWhenQuiet
  NoPhantom
  NeverWaits
CHECK_DEADLOCK FALSE
