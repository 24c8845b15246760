SPECIFICATION Spec
CONSTANTS
  N = 2
  t1 = t1
  t2 = t2
  Threads = {t1, t2}
  Graphs <- AllGraphs
  FailFast = {"on", "off"}
  MaxConcurrency = 1
  OpKinds = {"retry", "skip", "cancel", "clear", "crash"}
  MaxOps = 2
CONSTRAINT Explored
SYMMETRY Permuted
INVARIANTS
  TypeOK
  StartedAfterDeps
  ClosedRunIsSettled
  SnapshotSound
PROPERTIES
  DoneIsFinal
  DurableDone
  ImplementsRun
CHECK_DEADLOCK FALSE
