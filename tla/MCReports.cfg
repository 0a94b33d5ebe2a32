CONSTANTS
  Components = {"rows", "board", "shortages", "scans", "comparisons", "preparations", "cycles", "literals"}
  NoUser = NoUser
  u1 = u1
  s1 = s1
  p1 = p1
  p2 = p2
  Services = {s1}
  Parts = {p1, p2}
  Users = {u1}
  ServicePrice <- MCServicePrice
  PartPrice <- MCPartPrice
  MaxPlanned = 1
  Discounts = {3}
  MaxGenerations = 2
  MaxKey = 2
SPECIFICATION ReportsSpec
CHECK_DEADLOCK FALSE
INVARIANT RowsTellTheOrder
INVARIANT ListingsAreTrue
INVARIANT ScansAreTrue
INVARIANT ChecksAreTrue
PROPERTY KeepsWorkOrder
PROPERTY RowsKeepTheirKeys
