CONSTANTS
  w1 = w1
  w2 = w2
  r1 = r1
  Withdrawals = {w1, w2}
  Returns = {r1}
  Units <- MCUnevenUnits
  OnHand = 3
  Planned = 3
  Workers = {k1, k2}
  MaxAttempts = 2
  FaultKinds = {"crash", "error", "lost answer"}
  MaxFaults = 2
SPECIFICATION Spec
CHECK_DEADLOCK FALSE
SYMMETRY WorkerSymmetry
INVARIANT NothingIsOrphaned
