-------------------------- MODULE WorkOrderAggregate --------------------------
(***************************************************************************)
(* The WorkOrder aggregate: one visit of a vehicle, its service and part   *)
(* items, its budget rounds and the figures it closes with.                *)
(*                                                                         *)
(* The aggregate runs purely in memory, so this module has no variables.   *)
(* A command is a relation Cmd(w, v) between the aggregate w it was called *)
(* on and the aggregate v it leaves: the guards are the errors it throws,  *)
(* v is what its assignments make.  A command that throws relates w to     *)
(* nothing.  WorkOrder.tla runs the commands one at a time;                *)
(* WorkOrderStore.tla runs them as the application does, on copies loaded  *)
(* by concurrent requests and saved under a version guard.                 *)
(***************************************************************************)
EXTENDS Integers, Sequences, FiniteSetsExt

CONSTANTS
  Services,       \* identities of the service items that may be added
  Parts,          \* identities of the part items that may be planned
  Users,          \* users who may act as, or be assigned as, mechanic
  NoUser,         \* the null of a user column
  ServicePrice,   \* price of each service item, in cents
  PartPrice,      \* unit price of each part item, in cents
  MaxPlanned,     \* bound: the largest planned quantity a command asks for
  Discounts,      \* the discount amounts a command asks for
  MaxGenerations  \* bound: how many times a budget round is generated

ASSUME PricesAssumption ==
  /\ ServicePrice \in [Services -> Nat]
  /\ PartPrice \in [Parts -> Nat]
ASSUME BoundsAssumption ==
  /\ MaxPlanned \in Nat
  /\ MaxGenerations \in Nat \ {0}
  /\ Discounts \subseteq Nat
ASSUME ItemsAssumption == IsFiniteSet(Services) /\ IsFiniteSet(Parts)
ASSUME UsersAssumption == NoUser \notin Users

-------------------------------------------------------------------------------
(* The state of the aggregate. *)

WorkOrderStatus == {"RECEIVED", "IN_DIAGNOSIS", "AWAITING_APPROVAL", "IN_EXECUTION",
                    "COMPLETED", "DELIVERED", "CANCELED"}
BudgetStatus == {"PENDING", "APPROVED", "REJECTED"}

\* An item's budgetRound: Absent is no item at all, Draft the null of an item
\* not quoted yet, and a positive number the round it is attached to.
Absent == -1
Draft == 0
ItemRound == Nat \cup {Absent}

PartItem == [round : ItemRound, planned : Nat, withdrawn : Nat]
NoPart == [round |-> Absent, planned |-> 0, withdrawn |-> 0]

\* The null of chargedTotal, which is only set at completion.
NotCharged == -1

\* How a round was decided: not at all, in the application, or by a link.
Undecided == [by |-> "nobody", total |-> 0]
InApplication == [by |-> "application", total |-> 0]
ByLink(link) == [by |-> "link", total |-> link.total]

Opened ==
  [status           |-> "RECEIVED",
   mechanic         |-> NoUser,
   services         |-> [s \in Services |-> Absent],
   parts            |-> [p \in Parts |-> NoPart],
   budgets          |-> << >>,
   executionStarted |-> FALSE,
   discount         |-> 0,
   charged          |-> NotCharged]

IsSequence(s) == s \in Seq({s[i] : i \in DOMAIN s})

\* The shape of a work order.  Its amounts are sums, which have no type here:
\* what they come to is for QuoteStillHolds and FrozenCharge to say.
IsBudget(b) ==
  /\ b = [status |-> b.status, total |-> b.total, generation |-> b.generation,
          decision |-> b.decision]
  /\ b.status \in BudgetStatus
  /\ b.generation \in 1 .. MaxGenerations
  /\ b.decision.by \in {"nobody", "application", "link"}

IsWorkOrder(w) ==
  /\ w = [status |-> w.status, mechanic |-> w.mechanic, services |-> w.services,
          parts |-> w.parts, budgets |-> w.budgets,
          executionStarted |-> w.executionStarted, discount |-> w.discount,
          charged |-> w.charged]
  /\ w.status \in WorkOrderStatus
  /\ w.mechanic \in Users \cup {NoUser}
  /\ w.services \in [Services -> ItemRound]
  /\ w.parts \in [Parts -> PartItem]
  /\ IsSequence(w.budgets)
  /\ \A r \in DOMAIN w.budgets : IsBudget(w.budgets[r])
  /\ w.executionStarted \in BOOLEAN
  /\ w.discount \in Nat

CANCELABLE_STATES == {"RECEIVED", "IN_DIAGNOSIS", "AWAITING_APPROVAL", "IN_EXECUTION"}
ITEM_EDITABLE_STATES == {"RECEIVED", "IN_DIAGNOSIS", "IN_EXECUTION"}
PART_PLANNABLE_STATES == {"RECEIVED", "IN_DIAGNOSIS", "IN_EXECUTION"}
MECHANIC_ASSIGNABLE_TERMINAL_STATES == {"DELIVERED", "CANCELED"}

-------------------------------------------------------------------------------
(* Items. *)

AddService(w, v) ==
  \E s \in Services :
    /\ w.status \in ITEM_EDITABLE_STATES
    /\ w.services[s] = Absent
    /\ v = [w EXCEPT !.services[s] = Draft]

PlanPart(w, v) ==
  \E p \in Parts, q \in 1 .. MaxPlanned :
    /\ w.status \in PART_PLANNABLE_STATES
    /\ w.parts[p].round = Absent
    /\ v = [w EXCEPT !.parts[p] = [round |-> Draft, planned |-> q, withdrawn |-> 0]]

\* Mutation: a quoted item is removed like a draft.
RemoveItemQuoted(w, v) ==
  /\ w.status \in ITEM_EDITABLE_STATES
  /\ \E s \in Services : w.services[s] # Absent /\ v = [w EXCEPT !.services[s] = Absent]

\* Only a draft item can be removed: once quoted, an item is locked in.
RemoveItem(w, v) ==
  /\ w.status \in ITEM_EDITABLE_STATES
  /\ \/ \E s \in Services : /\ w.services[s] = Draft
                            /\ v = [w EXCEPT !.services[s] = Absent]
     \/ \E p \in Parts : /\ w.parts[p].round = Draft
                         /\ v = [w EXCEPT !.parts[p] = NoPart]

AssignMechanic(w, v) ==
  \E m \in Users :
    /\ w.status \notin MECHANIC_ASSIGNABLE_TERMINAL_STATES
    /\ v = [w EXCEPT !.mechanic = m]

-------------------------------------------------------------------------------
(* Budget rounds. *)

\* Mutation: a round takes in the parts of earlier rounds as well.
EligiblePartsOfAnyRound(w, r) == {p \in Parts : w.parts[p].round # Absent}

\* The items a round takes in: the drafts, and those already attached to it.
EligibleServices(w, r) == {s \in Services : w.services[s] \in {Draft, r}}
EligibleParts(w, r) == {p \in Parts : w.parts[p].round \in {Draft, r}}

HasItemsForRound(w, r) == EligibleServices(w, r) \cup EligibleParts(w, r) # {}

Total(amounts) == MapThenSumSet(LAMBDA x : amounts[x], DOMAIN amounts)

ServicesTotal(S) == Total([s \in S |-> ServicePrice[s]])
PlannedTotal(w, S) == Total([p \in S |-> PartPrice[p] * w.parts[p].planned])
WithdrawnTotal(w, S) == Total([p \in S |-> PartPrice[p] * w.parts[p].withdrawn])

RoundTotal(w, r) ==
  ServicesTotal(EligibleServices(w, r)) + PlannedTotal(w, EligibleParts(w, r))

AttachedTo(w, r) ==
  [w EXCEPT
     !.services = [s \in Services |->
                     IF s \in EligibleServices(w, r) THEN r ELSE w.services[s]],
     !.parts = [p \in Parts |->
                  IF p \in EligibleParts(w, r)
                  THEN [w.parts[p] EXCEPT !.round = r] ELSE w.parts[p]]]

Generated(total, generation) ==
  [status |-> "PENDING", total |-> total, generation |-> generation, decision |-> Undecided]

StartDiagnosis(w, v) ==
  \E actor \in Users :
    /\ w.status = "RECEIVED"
    /\ v = [w EXCEPT !.status = "IN_DIAGNOSIS",
                     !.mechanic = IF @ = NoUser THEN actor ELSE @]

\* A first round is opened, or a rejected one generated again in place.
FirstRound(w) ==
  LET total == RoundTotal(w, 1) IN
  IF w.budgets = << >> THEN <<Generated(total, 1)>>
  ELSE [w.budgets EXCEPT ![1] = Generated(total, @.generation + 1)]

CompleteDiagnosis(w, v) ==
  /\ w.status = "IN_DIAGNOSIS"
  /\ HasItemsForRound(w, 1)
  /\ w.budgets # << >> => /\ w.budgets[1].status = "REJECTED"
                          /\ w.budgets[1].generation < MaxGenerations
  /\ v = [AttachedTo(w, 1) EXCEPT !.status = "AWAITING_APPROVAL",
                                  !.budgets = FirstRound(w)]

\* Mutation: a supplementary budget while the last one still awaits its decision.
SubmitSupplementaryBudgetEarly(w, v) ==
  LET next == Len(w.budgets) + 1 IN
    /\ w.status \in {"AWAITING_APPROVAL", "IN_EXECUTION"}
    /\ v = [AttachedTo(w, next) EXCEPT
              !.status = "AWAITING_APPROVAL",
              !.budgets = Append(w.budgets, Generated(RoundTotal(w, next), 1))]

SubmitSupplementaryBudget(w, v) ==
  LET next == Len(w.budgets) + 1 IN
    /\ w.status = "IN_EXECUTION"
    /\ HasItemsForRound(w, next)
    /\ v = [AttachedTo(w, next) EXCEPT
              !.status = "AWAITING_APPROVAL",
              !.budgets = Append(w.budgets, Generated(RoundTotal(w, next), 1))]

\* The budget a decision applies to: the pending round of the application, or
\* the round a link names, which must still be in the generation of the link.
PendingRounds(w) == {r \in DOMAIN w.budgets : w.budgets[r].status = "PENDING"}

\* The mail of a quoted round: its link names the round and its generation,
\* and the text shows the total.
LinkOf(w, r) == [round |-> r, generation |-> w.budgets[r].generation,
                 total |-> w.budgets[r].total]
Mailed(w) == {LinkOf(w, r) : r \in PendingRounds(w)}

\* Mutation: the link names a budget by its id alone, as it did before the hash.
LinkNamesBudget(w, link) == link.round \in DOMAIN w.budgets

LinkIsCurrent(w, link) ==
  /\ link.round \in DOMAIN w.budgets
  /\ w.budgets[link.round].generation = link.generation

MayDecide(w, r) ==
  /\ w.status = "AWAITING_APPROVAL"
  /\ r \in PendingRounds(w)

Decided(budget, status, decision) ==
  [budget EXCEPT !.status = status, !.decision = decision]

Approved(w, r, decision) ==
  [w EXCEPT !.budgets[r] = Decided(@, "APPROVED", decision),
            !.status = "IN_EXECUTION",
            !.executionStarted = TRUE]

\* Mutation: a rejected first round goes on to execution like a later one.
RejectedIntoExecution(w, r, decision) ==
  [w EXCEPT !.budgets[r] = Decided(@, "REJECTED", decision),
            !.status = "IN_EXECUTION"]

Rejected(w, r, decision) ==
  [w EXCEPT !.budgets[r] = Decided(@, "REJECTED", decision),
            !.status = IF r = 1 THEN "IN_DIAGNOSIS" ELSE "IN_EXECUTION"]

ApproveBudget(w, v, links) ==
  \/ \E r \in PendingRounds(w) : MayDecide(w, r) /\ v = Approved(w, r, InApplication)
  \/ \E link \in links : /\ LinkIsCurrent(w, link)
                         /\ MayDecide(w, link.round)
                         /\ v = Approved(w, link.round, ByLink(link))

RejectBudget(w, v, links) ==
  \/ \E r \in PendingRounds(w) : MayDecide(w, r) /\ v = Rejected(w, r, InApplication)
  \/ \E link \in links : /\ LinkIsCurrent(w, link)
                         /\ MayDecide(w, link.round)
                         /\ v = Rejected(w, link.round, ByLink(link))

-------------------------------------------------------------------------------
(* Parts on and off the shelf.  A batch is checked whole before any line is *)
(* applied, and names an item at most once.                                 *)

Batches == UNION {[items -> 1 .. MaxPlanned] : items \in (SUBSET Parts) \ {{}}}

ApprovedRounds(w) == {r \in DOMAIN w.budgets : w.budgets[r].status = "APPROVED"}

\* Mutation: any planned part may leave the shelf.
WithdrawableUnapproved(w, p, q) == w.parts[p].withdrawn + q <= w.parts[p].planned

\* Mutation: a withdrawal may pass the planned quantity.
WithdrawableUnbounded(w, p, q) ==
  /\ w.parts[p].round \in ApprovedRounds(w)
  /\ w.parts[p].withdrawn <= w.parts[p].planned

Withdrawable(w, p, q) ==
  /\ w.parts[p].round \in ApprovedRounds(w)
  /\ w.parts[p].withdrawn + q <= w.parts[p].planned

WithdrawParts(w, v) ==
  \E lines \in Batches :
    /\ w.status = "IN_EXECUTION"
    /\ \A p \in DOMAIN lines : Withdrawable(w, p, lines[p])
    /\ v = [w EXCEPT !.parts = [p \in Parts |->
              IF p \in DOMAIN lines
              THEN [w.parts[p] EXCEPT !.withdrawn = @ + lines[p]] ELSE w.parts[p]]]

ReturnParts(w, v) ==
  \E lines \in Batches :
    /\ w.status = "IN_EXECUTION"
    /\ \A p \in DOMAIN lines : /\ w.parts[p].round # Absent
                               /\ w.parts[p].withdrawn - lines[p] >= 0
    /\ v = [w EXCEPT !.parts = [p \in Parts |->
              IF p \in DOMAIN lines
              THEN [w.parts[p] EXCEPT !.withdrawn = @ - lines[p]] ELSE w.parts[p]]]

-------------------------------------------------------------------------------
(* Closing. *)

\* chargedTotalBeforeDiscount: the services of approved rounds, and the parts
\* of approved rounds by what was withdrawn of them.
Charge(w) ==
  ServicesTotal({s \in Services : w.services[s] \in ApprovedRounds(w)})
    + WithdrawnTotal(w, {p \in Parts : w.parts[p].round \in ApprovedRounds(w)})

ApplyDiscount(w, v) ==
  \E amount \in Discounts :
    /\ w.status \in {"IN_EXECUTION", "COMPLETED"}
    /\ amount <= Charge(w)
    /\ v = [w EXCEPT !.discount = amount,
                     !.charged = IF w.status = "COMPLETED" THEN Charge(w) - amount ELSE @]

\* Mutation: completion trusts the check applyDiscount made earlier.
CompleteTrusting(w, v) ==
  /\ w.status = "IN_EXECUTION"
  /\ v = [w EXCEPT !.status = "COMPLETED", !.charged = Charge(w) - w.discount]

Complete(w, v) ==
  /\ w.status = "IN_EXECUTION"
  /\ w.discount <= Charge(w)
  /\ v = [w EXCEPT !.status = "COMPLETED", !.charged = Charge(w) - w.discount]

Deliver(w, v) ==
  /\ w.status = "COMPLETED"
  /\ v = [w EXCEPT !.status = "DELIVERED"]

Cancel(w, v) ==
  /\ w.status \in CANCELABLE_STATES
  /\ v = [w EXCEPT !.status = "CANCELED"]
===============================================================================
