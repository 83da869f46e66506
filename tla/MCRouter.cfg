CONSTANTS
  Key = {a, b}
  Lbc = Lbc
  None = None
  Partial = Partial
  Pid = {p1, p2}
  MaxFaults = 2
  MaxChanges = 2
SPECIFICATION Spec
INVARIANTS TypeOK StaleIsAbandoned SyncCatchesUp
PROPERTIES EventuallyFresh
CHECK_DEADLOCK FALSE
