----------------------------- MODULE MCWorkOrder -----------------------------
EXTENDS WorkOrder, TLC

CONSTANTS s1, p1, p2

MCServicePrice == [s \in Services |-> 3]
MCPartPrice == [p \in Parts |-> IF p = p1 THEN 1 ELSE 2]
==============================================================================
