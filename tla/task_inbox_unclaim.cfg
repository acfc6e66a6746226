SPECIFICATION Spec
CONSTANTS
  ana = ana
  ben = ben
  none = none
  unlimited = unlimited
  Users <- People
  NoUser = none
  NoLimit = unlimited
  Roles = {"r1", "r2"}
  TaskRole = "r1"
  Admins <- Bosses
  InitialRoles <- RolesAtStart
  RoleLimit <- LimitOfRole
  Overrides <- OverrideValues
  Amount = 7
  MaxTime = 1
  MaxChanges = 0
CHECK_DEADLOCK FALSE
PROPERTY UnclaimReleases
