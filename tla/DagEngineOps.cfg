SPECIFICATION FairSpec
CONSTANTS
  N = 3
  t1 = t1
  t2 = t2
  Threads = {t1, t2}
  Graphs <- Ordered
  FailFast = {"off"}
  MaxConcurrency = 1
  OpKinds = {"retry", "skip", "clear", "wait"}
  MaxOps = 1
INVARIANTS
  KahnFindsCycles
  ClosureIsReachability
  ReconcileSound
  ReconcileComplete
  JobTableExact
  BlockedCascades
  NeverStuck
  OvershootBounded
PROPERTIES
  ReportIsCurrent
  RunSettles
CHECK_DEADLOCK FALSE
