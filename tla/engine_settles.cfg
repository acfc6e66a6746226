SPECIFICATION FairSpec
CONSTANTS
  p1 = p1
  p2 = p2
  Reqs <- Slots
  StepIds <- Ids
  NoStep <- Null
  StateKeys <- Keys
  Workflows <- StepFlows
  Surfaces <- NoTransitions
  Overlap = TRUE
  MaxCalls = 4
  MaxFails = 0
CHECK_DEADLOCK FALSE
INVARIANT IdleMeansSettled
PROPERTY RequestsFinish
