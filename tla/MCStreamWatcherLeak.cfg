SPECIFICATION Spec
CONSTANTS
  Watch = {w1, w2}
  None = none
  MaxEvents = 2
CHECK_DEADLOCK FALSE
PROPERTY StopClosesChannel
