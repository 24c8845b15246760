SPECIFICATION Spec
CONSTANTS
  s1 = s1
  s2 = s2
  Sessions = {s1, s2}
  Kinds = {"dag"}
  MaxTerminal = 1
  MaxPlans = 2
  MaxVer = 0
  MaxCalls = 1
  MaxOps = 0
  MaxLoads = 3
  MaxStops = 1
PROPERTIES
  RestoredOnStart
CHECK_DEADLOCK FALSE
