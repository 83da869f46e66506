SPECIFICATION Spec
CONSTANTS
  Watch = {w1, w2, w3}
  None = none
  MaxEvents = 2
CHECK_DEADLOCK FALSE
INVARIANTS ClosedExactlyOnce NoEventLost
PROPERTY EndIsSeen
