SPECIFICATION Spec
CONSTANTS
  N = 1
  t1 = t1
  t2 = t2
  Threads = {t1, t2}
  Graphs <- Ordered
  FailFast = {"off"}
  MaxConcurrency = 1
  OpKinds = {"retry", "cancel"}
  MaxOps = 2
SYMMETRY Permuted
PROPERTIES
  ReportIsCurrent
CHECK_DEADLOCK FALSE
