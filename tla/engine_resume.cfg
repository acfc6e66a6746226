SPECIFICATION Spec
CONSTANTS
  p1 = p1
  p2 = p2
  Reqs <- Slots
  StepIds <- Ids
  NoStep <- Null
  StateKeys <- Keys
  Workflows <- LinearFlow
  Surfaces <- Inbox
  Overlap = TRUE
  MaxCalls = 3
  MaxFails = 0
SYMMETRY SlotSymmetry
CHECK_DEADLOCK FALSE
INVARIANT ResumesWhenTaskCompleted
