SPECIFICATION MCSpec
CONSTANTS
  Actors = {a1, a2}
  Nobody = "nobody"
  Files = {"f1", "f2", "f3", "f4"}
  Blueprints = {"inventory", "standard"}
  MaxVisits = 3
  Payers = {a1, a2}
  PlanIds = {"i1", "i2", "i3"}
  PlanNames = {"starter", "pro"}
  FreeName = "free"
  Payments = {"t1"}
  Nothing = "nothing"
  MaxOrders = 4
  Callers = {a1, a2}
  UserIds = {"u1", "u2", "u3"}
  Nil = "nil"
  Emails = {"e1", "e2"}
  SuperEmail = "e1"
  Companies = {"m1"}
  RoleIds = {"r1", "r2"}
  MaxUsers = 2
  MaxCalls = 3
SYMMETRY Same
CHECK_DEADLOCK FALSE
INVARIANTS
  TenancyHolds
  SettingsLossHasCause
  BlueprintSeededOnce
  BillingHolds
  AccountsHold
  UserLossHasCause
  LinkWorksOnce
