SPECIFICATION FairSpec
CONSTANTS
  Sides <- MCSides
  Plan <- MCPlan
  Sizes <- MCSizes
  Ids <- MCIds
  QueueSize = 1
  CtrlSize = 1
  Window = 1
  MaxSends = 2
INVARIANTS
  ClosesAfterSending
PROPERTIES
  KeepsPromise
  CloseCompletes
CHECK_DEADLOCK FALSE
