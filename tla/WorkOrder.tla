------------------------------ MODULE WorkOrder ------------------------------
(***************************************************************************)
(* A work order whose commands take effect one at a time, which is what    *)
(* the application promises its users.  WorkOrderStore implements it with  *)
(* concurrent requests and a version guard.                                *)
(***************************************************************************)
EXTENDS WorkOrderAggregate

VARIABLES
  wo,     \* the work order
  links   \* the decision links mailed so far

vars == <<wo, links>>

Edit == AddService(wo, wo') \/ PlanPart(wo, wo') \/ RemoveItem(wo, wo')
          \/ AssignMechanic(wo, wo')
Diagnose == StartDiagnosis(wo, wo')
Quote == CompleteDiagnosis(wo, wo') \/ SubmitSupplementaryBudget(wo, wo')
Decide == ApproveBudget(wo, wo', links) \/ RejectBudget(wo, wo', links)
MoveParts == WithdrawParts(wo, wo') \/ ReturnParts(wo, wo')
Close == ApplyDiscount(wo, wo') \/ Complete(wo, wo') \/ Deliver(wo, wo') \/ Cancel(wo, wo')

Init == wo = Opened /\ links = {}

Next ==
  \/ Quote /\ links' = links \cup Mailed(wo')
  \/ (Edit \/ Diagnose \/ Decide \/ MoveParts \/ Close) /\ UNCHANGED links

Spec == Init /\ [][Next]_vars

-------------------------------------------------------------------------------
(* Properties. *)

\* The columns of the work order row and of its items and budgets.
TypeOK == IsWorkOrder(wo)

\* A round is pending exactly while the work order awaits approval, and it is
\* the last one.  A cancellation leaves the pending round as it was.
PendingWhileAwaiting ==
  /\ wo.status = "AWAITING_APPROVAL" => PendingRounds(wo) = {Len(wo.budgets)}
  /\ wo.status # "CANCELED" /\ PendingRounds(wo) # {} => wo.status = "AWAITING_APPROVAL"

\* Nothing is executed, completed or delivered, and no second round is
\* quoted, before the customer approved the first round.
ExecutionIsApproved ==
  wo.status \in {"IN_EXECUTION", "COMPLETED", "DELIVERED"} \/ Len(wo.budgets) > 1
    => /\ wo.budgets # << >>
       /\ wo.budgets[1].status = "APPROVED"
       /\ wo.executionStarted

\* A part off the shelf belongs to an approved round and stays within the
\* quantity the customer approved.
WithdrawnPartsAreApproved ==
  \A p \in Parts :
    /\ wo.parts[p].withdrawn <= wo.parts[p].planned
    /\ wo.parts[p].withdrawn > 0 => wo.parts[p].round \in ApprovedRounds(wo)

ServicesOf(w, r) == {s \in Services : w.services[s] = r}
PartsOf(w, r) == {p \in Parts : w.parts[p].round = r}

\* The total of a round is the price of the items attached to it for as long
\* as the round exists: once quoted, an item is locked in.
QuoteStillHolds ==
  \A r \in DOMAIN wo.budgets :
    wo.budgets[r].total =
      ServicesTotal(ServicesOf(wo, r)) + PlannedTotal(wo, PartsOf(wo, r))

\* A decision taken through a mailed link is taken on the total that mail
\* showed, although a rejected round is generated again under the same id.
DecidedOnQuotedTotal ==
  \A r \in DOMAIN wo.budgets :
    wo.budgets[r].decision.by = "link" =>
      wo.budgets[r].decision.total = wo.budgets[r].total

\* The charged total is what the approved rounds come to, less a discount that
\* does not exceed it, from the completion on.
FrozenCharge ==
  wo.status \in {"COMPLETED", "DELIVERED"} =>
    wo.discount <= Charge(wo) /\ wo.charged = Charge(wo) - wo.discount

\* No customer is charged more than the budgets approved.
ChargedWithinApproval ==
  wo.status \in {"COMPLETED", "DELIVERED"} =>
    wo.charged <= Total([r \in ApprovedRounds(wo) |-> wo.budgets[r].total])

\* What the customer approved stays as approved: no command changes an
\* approved round or moves an item into it or out of it.
ApprovedRoundsKept ==
  \A r \in ApprovedRounds(wo) :
    /\ r \in DOMAIN wo'.budgets /\ wo'.budgets[r] = wo.budgets[r]
    /\ ServicesOf(wo', r) = ServicesOf(wo, r)
    /\ PartsOf(wo', r) = PartsOf(wo, r)
    /\ \A p \in PartsOf(wo, r) : wo'.parts[p].planned = wo.parts[p].planned
ApprovedRoundIsLocked == [][ApprovedRoundsKept]_vars
==============================================================================
