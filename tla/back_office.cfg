SPECIFICATION MCSpec
CONSTANTS
  Clerks = {"c1", "c2"}
  Staff = {"s1"}
  Rows = {"r1", "r2"}
  Adjustments = {"j1"}
  NewStatuses = {"on_leave"}
  Nought = "nought"
  MaxHits = 4
  Keepers = {"k1", "k2"}
  AccountIds = {"n1", "n2", "n3"}
  ForeignIds = {"f1"}
  Codes = {"1000", "2000"}
  SeedCodes = {"1000", "2000"}
  NoCode = "none"
  MaxEntries = 3
  Forms <- Specimens
  Sellers = {"u1", "u2"}
  ProductIds = {"p1", "p2"}
  Types = {"png", "jpg"}
  NoProduct = "no_product"
  MaxErrands = 4
CHECK_DEADLOCK FALSE
INVARIANTS
  AttendanceHolds
  LedgerHolds
  ImagesHold
