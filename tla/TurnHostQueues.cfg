SPECIFICATION Spec
CONSTANTS
  Messages = {0, 1, 2}
  MaxMessages = 2
  MaxIterations <- NoCap
  QueueMode = "All"
  Writers = {"turn", "host", "trigger"}
  MaxRetries = 0
  MaxCompactions = 0
  MaxCrashes = 0
  MaxRows = 4
CHECK_DEADLOCK FALSE
INVARIANTS
  AnsweredAtRest
