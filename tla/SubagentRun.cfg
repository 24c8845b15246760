SPECIFICATION Spec
CONSTANTS
  Messages = {0, 1, 2}
  Steers = 2
  MaxIterations = 2
  QueueMode = "All"
  Jobs = {self, j1}
  Self = self
  MaxJobs = 1
CHECK_DEADLOCK FALSE
INVARIANTS
  TypeOK
  ReportIsHonest
  NoOrphanRun
  RegistryBounded
  FinishedIsSettled
PROPERTIES
  EvictionOrder
  SteeringIsMailbox
  RunReturns
