SPECIFICATION MCSpec
CONSTANTS
  Workflows = {"w1", "w2", "w3"}
  StateIds = {"s1", "s2", "s3", "s4"}
  TransitionIds = {"t1", "t2"}
  StepIds = {"a1", "a2"}
  Executions = {"x1"}
  Requests = {"p1", "p2"}
  Null = "null"
  Keys = {"new", "done"}
  Templates <- Library
  RoleNames = {"manager", "guest"}
  Slugs = {"order"}
  InitialTables <- Tables
  InitialRoles <- Roles
  MaxWorkflows = 2
  MaxRequests = 2
  CatalogKeys = {"onboarding", "leave"}
  Clerks = {"c1", "c2"}
  NoKey = "none"
  MaxRelease = 2
  MaxRounds = 4
CHECK_DEADLOCK FALSE
INVARIANTS
  TypeOK
  NothingIsOrphaned
  OneStatePerKey
  OnlyCompleteRuns
  DeploymentsSettle
  LimitOvershootHasCause
  SecondRoleHasCause
  CatalogHolds
