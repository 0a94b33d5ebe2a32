CONSTANTS
  Components = {"requests", "summary", "mails"}
  Services = {s1}
  Parts = {p1}
  Users = {u1}
  NoUser = NoUser
  ServicePrice <- MCServicePrice
  PartPrice <- MCPartPrice
  MaxPlanned = 1
  Discounts = {1}
  MaxGenerations = 2
  Requests = {c1, c2}
  MaxVersion = 7
  MaxMailed = 5
  MaxOnTheWay = 2
  MaxUnsent = 1
SPECIFICATION OrderSpec
SYMMETRY Symmetry
CHECK_DEADLOCK FALSE
INVARIANT CurrentCopyIsStored
INVARIANT ReadersAreToldTheTruth
PROPERTY ImplementsWorkOrder
