CONSTANTS
  Item = {a, b, c, d}
  Worker = {w1, w2, w3}
  None = None
SPECIFICATION Spec
INVARIANTS TypeOK QueueIsDirtyAndIdle OneWorkerPerItem NoLostWakeup
PROPERTIES AddedIsHandedOut ImplementsWorkSet
CHECK_DEADLOCK FALSE
