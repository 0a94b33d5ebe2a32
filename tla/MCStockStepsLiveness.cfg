CONSTANTS
  w1 = w1
  w2 = w2
  r1 = r1
  Withdrawals = {w1, w2}
  Returns = {r1}
  Units <- MCUnits
  OnHand = 1
  Planned = 2
  Workers = {k1, k2}
  MaxAttempts = 2
  FaultKinds = {"crash", "error", "stall"}
  MaxFaults = 1
SPECIFICATION FairSpec
CHECK_DEADLOCK FALSE
PROPERTY StepsAreApplied
