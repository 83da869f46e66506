CONSTANTS
  Client = {w, c1, c2}
  Worker = w
  Capacity = 2
  MaxTick = 7
SPECIFICATION LimiterSpec
SYMMETRY ClientSymmetry
INVARIANTS SleepersAreTheDebt RateIsBounded TwoReloadsPerToken
