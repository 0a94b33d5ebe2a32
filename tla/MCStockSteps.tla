----------------------------- MODULE MCStockSteps -----------------------------
EXTENDS StockSteps, TLC

CONSTANTS w1, w2, r1

\* One unit each, so that withdrawals are interchangeable.
MCUnits == [op \in Operations |-> 1]
Symmetry == Permutations(Withdrawals) \cup Permutations(Workers)

\* Withdrawals that the shelf covers one at a time, and a return of both.
MCUnevenUnits == [op \in Operations |-> IF op = w1 THEN 1 ELSE 2]
WorkerSymmetry == Permutations(Workers)
===============================================================================
