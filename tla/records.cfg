SPECIFICATION Spec
CONSTANTS
  Entities = {"orders", "people", "items"}
  Rows = {"r1", "r2", "r3"}
  Workflows = {"w1", "w2"}
  Requests = {p1, p2}
  Null = "null"
  Slugs = {"order", "employee", "item"}
  Related <- RelatedDefinition
  Linked <- Links2
  Automation <- Automations
  CreatedSlug = "order"
  InitialTables <- Tables
  Inputs <- Filled
  Designs <- Forms
  InitialEntities <- DefinitionsAtStart
  MaxEntities = 3
  MaxRequests = 2
  MaxChanges = 1
SYMMETRY Same
CHECK_DEADLOCK FALSE
INVARIANTS
  TypeOK
  DuplicateHasCause
  RecordsHaveDefinition
  OneDefinitionPerSlug
  StoredRecordsAreValid
  
  AuditTellsTruth
  LookupLossHasCause
