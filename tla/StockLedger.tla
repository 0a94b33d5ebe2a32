------------------------------ MODULE StockLedger ------------------------------
(***************************************************************************)
(* The inventory side of a work order: the count of one inventory item and *)
(* the stock movements that one work order made on it.  Every operation is *)
(* a use case that locks the item in a transaction of its own, so each is  *)
(* one step, except where a read is made outside the lock.                 *)
(*                                                                         *)
(* A CONSUMPTION is a row of movements, in the order they occurred.  The   *)
(* RETURNs that undo it are its column returned, by the operation each was *)
(* tagged with: inventory reads nothing else of them.                      *)
(***************************************************************************)
EXTENDS Integers, Sequences, FiniteSetsExt, Functions

CONSTANTS
  Withdrawals,  \* operation ids of withdrawals
  Returns,      \* operation ids of returns
  Units,        \* the units that each withdrawal or return asks for
  OnHand        \* the count before the first operation

Operations == Withdrawals \cup Returns

ASSUME StockAssumption ==
  /\ IsFiniteSet(Operations)
  /\ Withdrawals \cap Returns = {}
  /\ Units \in [Operations -> Nat \ {0}]
  /\ OnHand \in Nat

VARIABLES
  quantityOnHand,  \* the count of the item
  movements        \* the consumptions of the work order, oldest first

ledgerVars == <<quantityOnHand, movements>>

MovementStatus == {"PENDING", "SETTLED", "WRITTEN_OFF"}

Consumption ==
  [operation : Withdrawals, quantity : Nat, status : MovementStatus, confirmed : BOOLEAN,
   returned : [Operations -> Nat], lost : Nat]

LedgerInit == quantityOnHand = OnHand /\ movements = << >>

\* NET_REMAINING_EXPR
Remaining(m) == m.quantity - SumFunction(m.returned)
Left == [i \in DOMAIN movements |-> Remaining(movements[i])]
Outstanding(S) == SumFunctionOnSet(Left, S)

OfOperation(w) == {i \in DOMAIN movements : movements[i].operation = w}

\* Mutation: a consumption counts as soon as it is written, as before confirmed_at.
OpenUnconfirmed(m) == m.status = "PENDING"

\* CONFIRMED_CONSUMPTION: a consumption counts once its work order confirmed it.
Open(m) == m.status = "PENDING" /\ m.confirmed

-------------------------------------------------------------------------------
(* The operations. *)

Insufficient(w) == quantityOnHand < Units[w]

\* consume: one movement, tagged with the operation, and the count it takes.
Consume(w) ==
  /\ ~Insufficient(w)
  /\ quantityOnHand' = quantityOnHand - Units[w]
  /\ movements' = Append(movements,
       [operation |-> w, quantity |-> Units[w], status |-> "PENDING", confirmed |-> FALSE,
        returned |-> [op \in Operations |-> 0], lost |-> 0])

\* The rows that give back a draw each, in RETURNs of one operation.
Returned(op, draw) ==
  /\ quantityOnHand' = quantityOnHand + SumFunction(draw)
  /\ movements' = [i \in DOMAIN movements |->
                     [movements[i] EXCEPT !.returned[op] = @ + draw[i]]]

\* Mutation: an undo gives the quantity of a consumption back, not what is left.
LeftOfWhole(w) ==
  [i \in DOMAIN movements |-> IF i \in OfOperation(w) THEN movements[i].quantity ELSE 0]

\* findPendingConsumptionsOfOperation: whatever its status or confirmation, what
\* is left of the consumption of an operation.
LeftOf(w) ==
  [i \in DOMAIN movements |-> IF i \in OfOperation(w) THEN Remaining(movements[i]) ELSE 0]
NothingLeftOf(w) == \A i \in OfOperation(w) : Remaining(movements[i]) = 0

UndoConsumption(w) == Returned(w, LeftOf(w))

ConfirmConsumption(w) ==
  /\ movements' = [i \in DOMAIN movements |->
       IF i \in OfOperation(w) THEN [movements[i] EXCEPT !.confirmed = TRUE] ELSE movements[i]]
  /\ UNCHANGED quantityOnHand

\* hasReturnOfOperation
HasReturnOf(op) == \E i \in DOMAIN movements : movements[i].returned[op] > 0

OpenRows == {i \in DOMAIN movements : Open(movements[i])}

\* Mutation: a restore asks every open consumption for all of its line.
DrawFromEach(r) ==
  [i \in DOMAIN movements |->
     IF i \in OpenRows THEN Min({Units[r], Remaining(movements[i])}) ELSE 0]

\* A restore draws from the open consumptions, newest first, until its line is
\* covered: from each what the newer ones leave to draw.
Draw(r) ==
  [i \in DOMAIN movements |->
     IF i \notin OpenRows THEN 0
     ELSE LET needed == Units[r] - Outstanding({j \in OpenRows : j > i})
          IN Max({0, Min({needed, Remaining(movements[i])})})]

Uncovered(r) == ~HasReturnOf(r) /\ Outstanding(OpenRows) < Units[r]

\* A repeat changes nothing, and a line that is not covered throws.
Restore(r) ==
  /\ ~Uncovered(r)
  /\ IF HasReturnOf(r) THEN UNCHANGED ledgerVars ELSE Returned(r, Draw(r))

\* Mutation: a settlement closes the consumptions of withdrawals in flight too.
SettleAll ==
  /\ movements' = [i \in DOMAIN movements |->
       IF movements[i].status = "PENDING"
       THEN [movements[i] EXCEPT !.status = "SETTLED"] ELSE movements[i]]
  /\ UNCHANGED quantityOnHand

\* settle: every open consumption, whatever is left of it.
Settle ==
  /\ movements' = [i \in DOMAIN movements |->
       IF i \in OpenRows THEN [movements[i] EXCEPT !.status = "SETTLED"] ELSE movements[i]]
  /\ UNCHANGED quantityOnHand

\* Mutation: a write-off loses the quantity of a consumption, not what is left.
WriteOffWhole ==
  [i \in {j \in OpenRows : Remaining(movements[j]) > 0} |-> movements[i].quantity]

\* Mutation: the update does not require the rows to be pending still.
WriteOffTwice(candidates) ==
  /\ movements' = [i \in DOMAIN movements |->
       IF i \in DOMAIN candidates
       THEN [movements[i] EXCEPT !.status = "WRITTEN_OFF", !.lost = @ + candidates[i]]
       ELSE movements[i]]
  /\ UNCHANGED quantityOnHand

\* writeOff reads what is left of the open consumptions, and then updates the
\* ones that are still pending and records what it read as lost.
WriteOffCandidates ==
  [i \in {j \in OpenRows : Remaining(movements[j]) > 0} |-> Remaining(movements[i])]

WriteOff(candidates) ==
  /\ movements' = [i \in DOMAIN movements |->
       IF i \in DOMAIN candidates /\ movements[i].status = "PENDING"
       THEN [movements[i] EXCEPT !.status = "WRITTEN_OFF", !.lost = @ + candidates[i]]
       ELSE movements[i]]
  /\ UNCHANGED quantityOnHand
===============================================================================
