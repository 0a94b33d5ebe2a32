CONSTANTS
  w1 = w1
  w2 = w2
  r1 = r1
  Withdrawals = {w1}
  Returns = {r1}
  Units <- MCUnits
  OnHand = 1
  Planned = 1
  Workers = {k1}
  MaxAttempts = 2
  FaultKinds = {"lost commit"}
  MaxFaults = 1
SPECIFICATION Spec
CHECK_DEADLOCK FALSE
INVARIANT UndoneNeverSaved
