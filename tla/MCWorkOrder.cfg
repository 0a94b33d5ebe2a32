CONSTANTS
  s1 = s1
  p1 = p1
  p2 = p2
  Services = {s1}
  Parts = {p1, p2}
  Users = {u1}
  NoUser = NoUser
  ServicePrice <- MCServicePrice
  PartPrice <- MCPartPrice
  MaxPlanned = 2
  Discounts = {1, 4}
  MaxGenerations = 2
SPECIFICATION Spec
CHECK_DEADLOCK FALSE
INVARIANT PendingWhileAwaiting
INVARIANT ExecutionIsApproved
INVARIANT WithdrawnPartsAreApproved
INVARIANT QuoteStillHolds
INVARIANT DecidedOnQuotedTotal
INVARIANT FrozenCharge
INVARIANT ChargedWithinApproval
PROPERTY ApprovedRoundIsLocked
