SPECIFICATION Spec
CONSTANTS
  Messages = {0, 1, 2}
  MaxMessages = 2
  MaxIterations <- NoCap
  QueueMode = "All"
  Writers = {"turn", "host", "trigger"}
  MaxRetries = 1
  MaxCompactions = 1
  MaxCrashes = 1
  MaxRows = 4
CONSTRAINT Explored
CHECK_DEADLOCK FALSE
INVARIANTS
  TypeOK
  ExactlyOnce
  MemoryMirrorsLog
  RestartLosesNothing
  ConversationAnswered
  QueueIsServed
