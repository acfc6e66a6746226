SPECIFICATION Spec
CONSTANTS
  p1 = p1
  p2 = p2
  Reqs <- Slots
  StepIds <- Ids
  NoStep <- Null
  StateKeys <- Keys
  Workflows <- AnyFlow
  Surfaces <- Anything
  Overlap = TRUE
  MaxCalls = 4
  MaxFails = 1
SYMMETRY SlotSymmetry
CHECK_DEADLOCK FALSE
INVARIANTS
  TypeOK
  WaitingHasTask
  DecisionsAudited
  HistoryExplainsState
  MovesAreConfigured
