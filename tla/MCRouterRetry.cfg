CONSTANTS
  Key = {a}
  Lbc = Lbc
  None = None
  Partial = Partial
  Pid = {p1, p2}
  MaxFaults = 0
  MaxChanges = 2
SPECIFICATION Spec
CHECK_DEADLOCK FALSE
PROPERTY RequeuedIsRetried
