SPECIFICATION FairSpec
CONSTANTS
  s1 = s1
  s2 = s2
  Sessions = {s1, s2}
  Kinds = {"dag"}
  MaxTerminal = 1
  MaxPlans = 2
  MaxVer = 1
  MaxCalls = 1
  MaxOps = 1
  MaxLoads = 2
  MaxStops = 0
INVARIANTS
  SavedWhenQuiet
PROPERTIES
  EventuallySaved
CHECK_DEADLOCK FALSE
