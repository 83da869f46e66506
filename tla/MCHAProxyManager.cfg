CONSTANTS
  Config = {c1, c2, bad}
  Refused = {bad}
  Accepts <- AcceptsAllButRefused
  Partial = Partial
  Pid = {p1, p2, p3}
  None = None
  MaxFaults = 3
SPECIFICATION Spec
INVARIANTS TypeOK OnlyPidFileRuns NeverPartial OkMeansLoaded
PROPERTIES KeepsServing ReloadRevives
