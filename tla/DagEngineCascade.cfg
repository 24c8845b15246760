SPECIFICATION Spec
CONSTANTS
  N = 3
  t1 = t1
  t2 = t2
  Threads = {t1, t2}
  Graphs <- Backward
  FailFast = {"off"}
  MaxConcurrency = 1
  OpKinds = {}
  MaxOps = 0
SYMMETRY Permuted
INVARIANTS
  BlockedCascades
CHECK_DEADLOCK FALSE
