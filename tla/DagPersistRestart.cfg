SPECIFICATION Spec
CONSTANTS
  s1 = s1
  s2 = s2
  Sessions = {s1, s2}
  Kinds = {"dag"}
  MaxTerminal = 1
  MaxPlans = 2
  MaxVer = 0
  MaxCalls = 1
  MaxOps = 1
  MaxLoads = 4
  MaxStops = 1
SYMMETRY Interchangeable
INVARIANTS
  TypeOK
PROPERTIES
  LiveRunsStay
  RestoreSkipsOnlyTaken
CHECK_DEADLOCK FALSE
