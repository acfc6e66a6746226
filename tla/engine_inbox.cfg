SPECIFICATION Spec
CONSTANTS
  p1 = p1
  p2 = p2
  Reqs <- OneSlot
  StepIds <- Ids
  NoStep <- Null
  StateKeys <- Keys
  Workflows <- StepFlows
  Surfaces <- Inbox
  Overlap = FALSE
  MaxCalls = 7
  MaxFails = 2
CHECK_DEADLOCK FALSE
PROPERTY KeepsLifecycle
