SPECIFICATION Spec
CONSTANTS
  N = 2
  t1 = t1
  t2 = t2
  Threads = {t1, t2}
  Graphs <- Ordered
  FailFast = {"off"}
  MaxConcurrency = 1
  OpKinds = {"retry"}
  MaxOps = 1
SYMMETRY Permuted
INVARIANTS
  WithinBudget
CHECK_DEADLOCK FALSE
