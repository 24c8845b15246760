SPECIFICATION Spec
CONSTANTS
  s1 = s1
  s2 = s2
  Sessions = {s1}
  Kinds = {"dag"}
  MaxTerminal = 1
  MaxPlans = 1
  MaxVer = 0
  MaxCalls = 1
  MaxOps = 0
  MaxLoads = 1
  MaxStops = 1
PROPERTIES
  InFlightSurvivesExit
CHECK_DEADLOCK FALSE
