SPECIFICATION Spec
CONSTANTS
  p1 = p1
  p2 = p2
  Reqs <- OneSlot
  StepIds <- Ids
  NoStep <- Null
  StateKeys <- Keys
  Workflows <- SkippingFlow
  Surfaces <- Inbox
  Overlap = FALSE
  MaxCalls = 7
  MaxFails = 0
CHECK_DEADLOCK FALSE
PROPERTY FollowsNextStepId
