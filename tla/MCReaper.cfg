CONSTANTS
  Proc = {p1, p2, p3, p4}
  None = None
SPECIFICATION ReaperSpec
INVARIANTS ZombiesAreAnnounced
PROPERTIES NoZombieStays CommandReturns
CHECK_DEADLOCK FALSE
