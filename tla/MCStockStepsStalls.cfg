CONSTANTS
  w1 = w1
  w2 = w2
  r1 = r1
  Withdrawals = {w1, w2}
  Returns = {r1}
  Units <- MCUnits
  OnHand = 2
  Planned = 2
  Workers = {k1, k2}
  MaxAttempts = 1
  FaultKinds = {"error", "lost answer", "stall"}
  MaxFaults = 2
SPECIFICATION Spec
CHECK_DEADLOCK FALSE
SYMMETRY Symmetry
INVARIANT UndoneNeverSaved
INVARIANT UnitsAreConserved
INVARIANT LedgersAgree
INVARIANT RestoresAreCovered
INVARIANT OnlySavedIsClosed
INVARIANT VisitIsClosed
