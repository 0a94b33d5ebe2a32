--------------------------- MODULE WorkOrderProofs ---------------------------
(***************************************************************************)
(* The invariants of WorkOrder hold for every set of services, parts and   *)
(* users, every price and every bound; the store implements the work order *)
(* for any number of requests, and so inherits them; so do the rows it is  *)
(* kept in.  Its summary and its mails may be relied on while it changes.  *)
(***************************************************************************)
EXTENDS WorkOrderRows, WorkOrderView, SequenceTheorems,
        FiniteSetTheorems, SumLemmas, TLAPS

-------------------------------------------------------------------------------
(* What each command of the aggregate does, column by column, for every value *)
(* of the constants.                                                          *)

\* A sequence is one over any set its elements are in.
LEMMA SequenceOfItsElements ==
  ASSUME NEW S, NEW T, NEW t \in Seq(S), \A i \in 1 .. Len(t) : t[i] \in T
  PROVE  t \in Seq(T)
  OBVIOUS

\* Replacing one element of a sequence.
LEMMA SequenceReplaced ==
  ASSUME NEW s, IsSequence(s), NEW r \in DOMAIN s, NEW b, NEW t, t = [s EXCEPT ![r] = b]
  PROVE  /\ IsSequence(t)
         /\ DOMAIN t = DOMAIN s
         /\ Len(t) = Len(s)
         /\ t[r] = b
         /\ \A i \in DOMAIN s : i # r => t[i] = s[i]
<1>1. DOMAIN s = 1 .. Len(s) /\ Len(s) \in Nat /\ s = [i \in DOMAIN s |-> s[i]]
  BY DEF IsSequence
<1>2. DOMAIN t = 1 .. Len(s) /\ t = [i \in 1 .. Len(s) |-> t[i]]
  BY <1>1
<1> DEFINE S == {s[i] : i \in DOMAIN s} \cup {b}
<1>3. s \in Seq(S)
  BY DEF IsSequence
<1>4. Len(t) = Len(s)
  BY <1>1, <1>3, ExceptSeq
<1>5. t \in Seq(S)
  BY <1>1, <1>3, ExceptSeq
<1>6. t \in Seq({t[i] : i \in DOMAIN t})
  <2> DEFINE T == {t[i] : i \in DOMAIN t}
  <2>1. \A i \in 1 .. Len(t) : t[i] \in T
    BY <1>1, <1>2, <1>4
  <2> HIDE DEF S, T
  <2>2. t \in Seq(T)
    BY <1>5, <2>1, SequenceOfItsElements
  <2> QED BY <2>2 DEF T
<1> QED BY <1>1, <1>2, <1>4, <1>6 DEF IsSequence

\* Appending to a sequence.
LEMMA SequenceAppended ==
  ASSUME NEW s, IsSequence(s), NEW b
  PROVE  LET t == Append(s, b) IN
         /\ IsSequence(t)
         /\ Len(s) \in Nat
         /\ DOMAIN s = 1 .. Len(s)
         /\ Len(t) = Len(s) + 1
         /\ DOMAIN t = 1 .. Len(s) + 1
         /\ t[Len(t)] = b
         /\ \A i \in DOMAIN s : t[i] = s[i]
<1> DEFINE t == Append(s, b)
<1>1. Len(s) \in Nat /\ DOMAIN s = 1 .. Len(s)
  BY DEF IsSequence
<1>2. /\ Len(t) = Len(s) + 1
      /\ t[Len(t)] = b
      /\ \A i \in DOMAIN s : t[i] = s[i]
  BY DEF IsSequence
<1>3. DOMAIN t = 1 .. Len(t)
  BY DEF IsSequence
<1>4. IsSequence(t)
  <2> DEFINE S == {s[i] : i \in DOMAIN s} \cup {b}
             T == {t[i] : i \in DOMAIN t}
  <2>1. s \in Seq(S)
    BY DEF IsSequence
  <2>2. t \in Seq(S)
    BY <2>1
  <2>3. \A i \in 1 .. Len(t) : t[i] \in T
    BY <1>3
  <2> HIDE DEF S, T
  <2>4. t \in Seq(T)
    BY <2>2, <2>3, SequenceOfItsElements
  <2> QED BY <2>4 DEF T, IsSequence
<1> QED BY <1>1, <1>2, <1>3, <1>4

\* A sum over planned quantities depends on those quantities alone.
LEMMA PlannedTotalKept ==
  ASSUME NEW w, NEW v, NEW S, \A p \in S : v.parts[p].planned = w.parts[p].planned
  PROVE  PlannedTotal(v, S) = PlannedTotal(w, S)
<1>1. [p \in S |-> PartPrice[p] * v.parts[p].planned] =
        [p \in S |-> PartPrice[p] * w.parts[p].planned]
  OBVIOUS
<1> QED BY <1>1 DEF PlannedTotal

\* A sum over withdrawn quantities is the same for the same part items.
LEMMA WithdrawnTotalKept ==
  ASSUME NEW w, NEW v, NEW S, v.parts = w.parts
  PROVE  WithdrawnTotal(v, S) = WithdrawnTotal(w, S)
<1>1. [p \in S |-> PartPrice[p] * v.parts[p].withdrawn] =
        [p \in S |-> PartPrice[p] * w.parts[p].withdrawn]
  OBVIOUS
<1> QED BY <1>1 DEF WithdrawnTotal

\* The charge depends on the items and the budgets alone (chargedTotalBeforeDiscount).
LEMMA ChargeKept ==
  ASSUME NEW w, NEW v, v.services = w.services, v.parts = w.parts, v.budgets = w.budgets
  PROVE  Charge(v) = Charge(w)
<1>1. ApprovedRounds(v) = ApprovedRounds(w)
  BY DEF ApprovedRounds
<1> QED BY <1>1, WithdrawnTotalKept DEF Charge

(* The record of a work order, column by column.  A command is a record update;
   the lemmas on effects below name every column of the record it leaves. *)
Is(w, status, mechanic, services, parts, budgets, started, discount, charged) ==
  w = [status |-> status, mechanic |-> mechanic, services |-> services, parts |-> parts,
       budgets |-> budgets, executionStarted |-> started, discount |-> discount,
       charged |-> charged]

IsRecord(w) ==
  Is(w, w.status, w.mechanic, w.services, w.parts, w.budgets, w.executionStarted, w.discount,
     w.charged)

\* A record made column by column has those columns.
LEMMA RecordOf ==
  ASSUME NEW w, NEW status, NEW mechanic, NEW services, NEW parts, NEW budgets, NEW started,
         NEW discount, NEW charged,
         Is(w, status, mechanic, services, parts, budgets, started, discount, charged)
  PROVE  /\ IsRecord(w)
         /\ w.status = status /\ w.mechanic = mechanic /\ w.services = services
         /\ w.parts = parts /\ w.budgets = budgets /\ w.executionStarted = started
         /\ w.discount = discount /\ w.charged = charged
  BY DEF Is, IsRecord

\* The type of each column of a work order.
LEMMA Columns ==
  ASSUME NEW w, IsWorkOrder(w)
  PROVE  /\ w.status \in WorkOrderStatus /\ w.mechanic \in Users \cup {NoUser}
         /\ w.services \in [Services -> ItemRound] /\ w.parts \in [Parts -> PartItem]
         /\ w.executionStarted \in BOOLEAN /\ w.discount \in Nat
  BY DEF IsWorkOrder

\* A record with typed columns and typed budgets is a work order.
LEMMA TypeOfNewRecord ==
  ASSUME NEW v, IsRecord(v), IsSequence(v.budgets),
         \A i \in DOMAIN v.budgets : IsBudget(v.budgets[i]),
         v.status \in WorkOrderStatus, v.mechanic \in Users \cup {NoUser},
         v.services \in [Services -> ItemRound], v.parts \in [Parts -> PartItem],
         v.executionStarted \in BOOLEAN, v.discount \in Nat
  PROVE  IsWorkOrder(v)
  BY DEF Is, IsRecord, IsWorkOrder

\* A record that keeps the budgets of a work order, with typed columns, is one.
LEMMA TypeKept ==
  ASSUME NEW w, NEW v, IsWorkOrder(w), IsRecord(v), v.budgets = w.budgets,
         v.status \in WorkOrderStatus, v.mechanic \in Users \cup {NoUser},
         v.services \in [Services -> ItemRound], v.parts \in [Parts -> PartItem],
         v.executionStarted \in BOOLEAN, v.discount \in Nat
  PROVE  IsWorkOrder(v)
  BY DEF Is, IsRecord, IsWorkOrder, IsSequence

\* A decided budget keeps its total and its generation.
LEMMA BudgetChanged ==
  ASSUME NEW x, IsBudget(x), NEW status \in BudgetStatus,
         NEW d, d.by \in {"nobody", "application", "link"},
         NEW b, b = Decided(x, status, d)
  PROVE  /\ IsBudget(b) /\ b.status = status /\ b.decision = d
         /\ b.total = x.total /\ b.generation = x.generation
<1>1. b = [status |-> status, total |-> x.total, generation |-> x.generation, decision |-> d]
  BY DEF IsBudget, Decided
<1> QED BY <1>1 DEF IsBudget

\* A generated budget is pending and undecided.
LEMMA GeneratedIsBudget ==
  ASSUME NEW total, NEW generation \in 1 .. MaxGenerations,
         NEW b, b = Generated(total, generation)
  PROVE  /\ IsBudget(b) /\ b.status = "PENDING" /\ b.total = total
         /\ b.generation = generation /\ b.decision.by = "nobody"
  BY DEF Generated, IsBudget, BudgetStatus, Undecided

\* addService adds one draft service.
LEMMA AddServiceEffect ==
  ASSUME NEW w, NEW v, IsWorkOrder(w), AddService(w, v)
  PROVE  \E s \in Services :
           /\ w.status \in ITEM_EDITABLE_STATES
           /\ w.services[s] = Absent
           /\ Is(v, w.status, w.mechanic, [w.services EXCEPT ![s] = Draft], w.parts,
                 w.budgets, w.executionStarted, w.discount, w.charged)
  BY DEF IsWorkOrder, AddService, Is

\* planPart adds one draft part, nothing of it withdrawn.
LEMMA PlanPartEffect ==
  ASSUME NEW w, NEW v, IsWorkOrder(w), PlanPart(w, v)
  PROVE  \E p \in Parts, q \in 1 .. MaxPlanned :
           /\ w.status \in PART_PLANNABLE_STATES
           /\ w.parts[p].round = Absent
           /\ Is(v, w.status, w.mechanic, w.services,
                 [w.parts EXCEPT ![p] = [round |-> Draft, planned |-> q, withdrawn |-> 0]],
                 w.budgets, w.executionStarted, w.discount, w.charged)
  BY DEF IsWorkOrder, PlanPart, Is

\* removeItem removes one draft item.
LEMMA RemoveItemEffect ==
  ASSUME NEW w, NEW v, IsWorkOrder(w), RemoveItem(w, v)
  PROVE  /\ w.status \in ITEM_EDITABLE_STATES
         /\ \/ \E s \in Services :
                 /\ w.services[s] = Draft
                 /\ Is(v, w.status, w.mechanic, [w.services EXCEPT ![s] = Absent], w.parts,
                       w.budgets, w.executionStarted, w.discount, w.charged)
            \/ \E p \in Parts :
                 /\ w.parts[p].round = Draft
                 /\ Is(v, w.status, w.mechanic, w.services, [w.parts EXCEPT ![p] = NoPart],
                       w.budgets, w.executionStarted, w.discount, w.charged)
  BY DEF IsWorkOrder, RemoveItem, Is

\* assignMechanic sets the mechanic.
LEMMA AssignMechanicEffect ==
  ASSUME NEW w, NEW v, IsWorkOrder(w), AssignMechanic(w, v)
  PROVE  \E m \in Users : Is(v, w.status, m, w.services, w.parts, w.budgets,
                              w.executionStarted, w.discount, w.charged)
  BY DEF IsWorkOrder, AssignMechanic, Is

\* startDiagnosis sets the status and, where there is none, the mechanic.
LEMMA StartDiagnosisEffect ==
  ASSUME NEW w, NEW v, IsWorkOrder(w), StartDiagnosis(w, v)
  PROVE  \E actor \in Users :
           /\ w.status = "RECEIVED"
           /\ Is(v, "IN_DIAGNOSIS", IF w.mechanic = NoUser THEN actor ELSE w.mechanic,
                 w.services, w.parts, w.budgets, w.executionStarted, w.discount, w.charged)
  BY DEF IsWorkOrder, StartDiagnosis, Is

\* Moving parts changes the withdrawn quantities alone, and raises only those
\* of approved rounds.
PartsMoved(w, parts) ==
  /\ parts \in [Parts -> PartItem]
  /\ \A p \in Parts :
       /\ parts[p].round = w.parts[p].round
       /\ parts[p].planned = w.parts[p].planned
       /\ parts[p].withdrawn <= w.parts[p].withdrawn
            \/ /\ parts[p].withdrawn <= w.parts[p].planned
               /\ w.parts[p].round \in ApprovedRounds(w)

\* withdrawParts raises withdrawn quantities of approved rounds up to the planned ones.
LEMMA WithdrawPartsEffect ==
  ASSUME NEW w, NEW v, IsWorkOrder(w), WithdrawParts(w, v)
  PROVE  \E parts :
           /\ w.status = "IN_EXECUTION"
           /\ PartsMoved(w, parts)
           /\ Is(v, w.status, w.mechanic, w.services, parts, w.budgets, w.executionStarted,
                 w.discount, w.charged)
<1>1. PICK lines \in Batches :
        /\ w.status = "IN_EXECUTION"
        /\ \A p \in DOMAIN lines : Withdrawable(w, p, lines[p])
        /\ v = [w EXCEPT !.parts = [p \in Parts |->
                  IF p \in DOMAIN lines
                  THEN [w.parts[p] EXCEPT !.withdrawn = @ + lines[p]] ELSE w.parts[p]]]
  BY DEF WithdrawParts
<1> DEFINE parts == [p \in Parts |->
                       IF p \in DOMAIN lines
                       THEN [w.parts[p] EXCEPT !.withdrawn = @ + lines[p]] ELSE w.parts[p]]
<1>2. \A p \in DOMAIN lines : lines[p] \in Nat
  BY BoundsAssumption DEF Batches
<1>3. ASSUME NEW p \in Parts
      PROVE  /\ parts[p] \in PartItem
             /\ parts[p].round = w.parts[p].round
             /\ parts[p].planned = w.parts[p].planned
             /\ parts[p].withdrawn <= w.parts[p].withdrawn
                  \/ /\ parts[p].withdrawn <= w.parts[p].planned
                     /\ w.parts[p].round \in ApprovedRounds(w)
  <2>1. w.parts[p] \in PartItem
    BY DEF IsWorkOrder
  <2> QED BY <1>1, <1>2, <2>1 DEF Withdrawable, PartItem
<1>4. PartsMoved(w, parts)
  BY <1>3 DEF PartsMoved
<1>5. Is(v, w.status, w.mechanic, w.services, parts, w.budgets, w.executionStarted,
         w.discount, w.charged)
  BY <1>1 DEF IsWorkOrder, Is
<1> HIDE DEF parts
<1> QED BY <1>1, <1>4, <1>5

\* returnParts lowers withdrawn quantities.
LEMMA ReturnPartsEffect ==
  ASSUME NEW w, NEW v, IsWorkOrder(w), ReturnParts(w, v)
  PROVE  \E parts :
           /\ w.status = "IN_EXECUTION"
           /\ PartsMoved(w, parts)
           /\ Is(v, w.status, w.mechanic, w.services, parts, w.budgets, w.executionStarted,
                 w.discount, w.charged)
<1>1. PICK lines \in Batches :
        /\ w.status = "IN_EXECUTION"
        /\ \A p \in DOMAIN lines : w.parts[p].withdrawn - lines[p] >= 0
        /\ v = [w EXCEPT !.parts = [p \in Parts |->
                  IF p \in DOMAIN lines
                  THEN [w.parts[p] EXCEPT !.withdrawn = @ - lines[p]] ELSE w.parts[p]]]
  BY DEF ReturnParts
<1> DEFINE parts == [p \in Parts |->
                       IF p \in DOMAIN lines
                       THEN [w.parts[p] EXCEPT !.withdrawn = @ - lines[p]] ELSE w.parts[p]]
<1>2. \A p \in DOMAIN lines : lines[p] \in Nat
  BY BoundsAssumption DEF Batches
<1>3. ASSUME NEW p \in Parts
      PROVE  /\ parts[p] \in PartItem
             /\ parts[p].round = w.parts[p].round
             /\ parts[p].planned = w.parts[p].planned
             /\ parts[p].withdrawn <= w.parts[p].withdrawn
  <2>1. w.parts[p] \in PartItem
    BY DEF IsWorkOrder
  <2> QED BY <1>1, <1>2, <2>1 DEF PartItem
<1>4. PartsMoved(w, parts)
  BY <1>3 DEF PartsMoved
<1>5. Is(v, w.status, w.mechanic, w.services, parts, w.budgets, w.executionStarted,
         w.discount, w.charged)
  BY <1>1 DEF IsWorkOrder, Is
<1> HIDE DEF parts
<1> QED BY <1>1, <1>4, <1>5

\* The closing commands change the status and the figures alone.
LEMMA CloseEffect ==
  ASSUME NEW w, NEW v, IsWorkOrder(w),
         \/ ApplyDiscount(w, v) \/ Complete(w, v) \/ Deliver(w, v) \/ Cancel(w, v)
  PROVE  \E status \in WorkOrderStatus, discount \in Nat :
           LET charged == IF status = "COMPLETED" THEN Charge(w) - discount ELSE w.charged IN
           /\ Is(v, status, w.mechanic, w.services, w.parts, w.budgets, w.executionStarted,
                 discount, charged)
           /\ w.status # "DELIVERED"
           /\ \/ /\ status = w.status /\ w.status \in {"IN_EXECUTION", "COMPLETED"}
                 /\ discount <= Charge(w)
              \/ status = "COMPLETED" /\ w.status = "IN_EXECUTION" /\ discount <= Charge(w)
              \/ status = "DELIVERED" /\ w.status = "COMPLETED" /\ discount = w.discount
              \/ status = "CANCELED" /\ discount = w.discount
<1>1. CASE ApplyDiscount(w, v)
  <2>1. PICK amount \in Discounts :
          /\ w.status \in {"IN_EXECUTION", "COMPLETED"}
          /\ amount <= Charge(w)
          /\ Is(v, w.status, w.mechanic, w.services, w.parts, w.budgets, w.executionStarted,
                amount, IF w.status = "COMPLETED" THEN Charge(w) - amount ELSE w.charged)
    BY <1>1 DEF ApplyDiscount, IsWorkOrder, Is
  <2> QED BY <2>1, BoundsAssumption DEF WorkOrderStatus
<1>2. CASE Complete(w, v)
  <2>1. /\ w.status = "IN_EXECUTION" /\ w.discount <= Charge(w) /\ w.discount \in Nat
        /\ Is(v, "COMPLETED", w.mechanic, w.services, w.parts, w.budgets, w.executionStarted,
              w.discount, Charge(w) - w.discount)
    BY <1>2 DEF Complete, IsWorkOrder, Is
  <2> QED BY <2>1 DEF WorkOrderStatus
<1>3. CASE Deliver(w, v)
  <2>1. /\ w.status = "COMPLETED" /\ w.discount \in Nat
        /\ Is(v, "DELIVERED", w.mechanic, w.services, w.parts, w.budgets, w.executionStarted,
              w.discount, w.charged)
    BY <1>3 DEF Deliver, IsWorkOrder, Is
  <2> QED BY <2>1 DEF WorkOrderStatus
<1>4. CASE Cancel(w, v)
  <2>1. /\ w.status # "DELIVERED" /\ w.discount \in Nat
        /\ Is(v, "CANCELED", w.mechanic, w.services, w.parts, w.budgets, w.executionStarted,
              w.discount, w.charged)
    BY <1>4 DEF Cancel, IsWorkOrder, Is, CANCELABLE_STATES
  <2> QED BY <2>1 DEF WorkOrderStatus
<1> QED BY <1>1, <1>2, <1>3, <1>4

NewServices(w, r) ==
  [s \in Services |-> IF s \in EligibleServices(w, r) THEN r ELSE w.services[s]]
NewParts(w, r) ==
  [p \in Parts |-> IF p \in EligibleParts(w, r)
                   THEN [w.parts[p] EXCEPT !.round = r] ELSE w.parts[p]]

\* What attaching the eligible items to round r does.
Attached(w, v, r) ==
  /\ v.services \in [Services -> ItemRound] /\ v.parts \in [Parts -> PartItem]
  /\ ServicesOf(v, r) = EligibleServices(w, r)
  /\ PartsOf(v, r) = EligibleParts(w, r)
  /\ \A i \in Nat \ {0, r} :
       ServicesOf(v, i) = ServicesOf(w, i) /\ PartsOf(v, i) = PartsOf(w, i)
  /\ \A p \in Parts : /\ v.parts[p].planned = w.parts[p].planned
                      /\ v.parts[p].withdrawn = w.parts[p].withdrawn
                      /\ w.parts[p].round \notin {Draft, r} =>
                           v.parts[p].round = w.parts[p].round

\* generateRound attaches the eligible items and changes nothing else of any item.
LEMMA AttachedEffect ==
  ASSUME NEW w, NEW v, NEW r \in Nat \ {0}, IsWorkOrder(w),
         v.services = NewServices(w, r), v.parts = NewParts(w, r)
  PROVE  Attached(w, v, r)
<1>1. w.services \in [Services -> ItemRound]
  BY DEF IsWorkOrder
<1>2. \A p \in Parts : /\ v.parts[p] \in PartItem
                       /\ v.parts[p].planned = w.parts[p].planned
                       /\ v.parts[p].withdrawn = w.parts[p].withdrawn
                       /\ v.parts[p].round = IF w.parts[p].round \in {Draft, r} THEN r
                                             ELSE w.parts[p].round
  <2> SUFFICES ASSUME NEW p \in Parts
               PROVE  /\ v.parts[p] \in PartItem
                      /\ v.parts[p].planned = w.parts[p].planned
                      /\ v.parts[p].withdrawn = w.parts[p].withdrawn
                      /\ v.parts[p].round = IF w.parts[p].round \in {Draft, r} THEN r
                                            ELSE w.parts[p].round
    OBVIOUS
  <2>1. w.parts[p] \in PartItem
    BY DEF IsWorkOrder
  <2>2. v.parts[p] = IF w.parts[p].round \in {Draft, r}
                     THEN [w.parts[p] EXCEPT !.round = r] ELSE w.parts[p]
    BY DEF NewParts, EligibleParts
  <2> QED BY <2>1, <2>2 DEF PartItem, ItemRound
<1>3. v.parts \in [Parts -> PartItem]
  BY <1>2 DEF NewParts
<1>4. v.services \in [Services -> ItemRound]
  BY <1>1 DEF NewServices, ItemRound
<1>5. /\ ServicesOf(v, r) = EligibleServices(w, r)
      /\ \A i \in Nat \ {0, r} : ServicesOf(v, i) = ServicesOf(w, i)
  BY <1>1 DEF NewServices, ServicesOf, EligibleServices, Draft
<1>6. /\ PartsOf(v, r) = EligibleParts(w, r)
      /\ \A i \in Nat \ {0, r} : PartsOf(v, i) = PartsOf(w, i)
  BY <1>2 DEF PartsOf, EligibleParts, Draft
<1> QED BY <1>2, <1>3, <1>4, <1>5, <1>6 DEF Attached

-------------------------------------------------------------------------------
(* The inductive invariant. *)

\* A mailed link names a round that exists, in its present generation or an
\* earlier one, and shows the total of the generation it names.  This is what
\* makes DecidedOnQuotedTotal inductive.
LinksMailed ==
  \A link \in links :
    /\ link.round \in DOMAIN wo.budgets
    /\ link.generation \in 1 .. wo.budgets[link.round].generation
    /\ link.generation = wo.budgets[link.round].generation =>
         link.total = wo.budgets[link.round].total

\* The inductive invariant: the invariants hold each other up.  That a rejected
\* first round is the only round (CompleteDiagnosis regenerates it as the last
\* one) needs ExecutionIsApproved; that no approved round is decided again needs
\* PendingWhileAwaiting; that an attached part has nothing withdrawn needs
\* WithdrawnPartsAreApproved.
IInv ==
  /\ TypeOK
  /\ PendingWhileAwaiting
  /\ ExecutionIsApproved
  /\ WithdrawnPartsAreApproved
  /\ QuoteStillHolds
  /\ LinksMailed
  /\ DecidedOnQuotedTotal
  /\ FrozenCharge

\* What a command keeps that leaves the budgets and every quoted item alone.
LEMMA QuotesKept ==
  ASSUME IInv, wo'.budgets = wo.budgets, UNCHANGED links,
         \A r \in Nat \ {0} :
           /\ ServicesOf(wo', r) = ServicesOf(wo, r)
           /\ PartsOf(wo', r) = PartsOf(wo, r)
           /\ \A p \in PartsOf(wo, r) : wo'.parts[p].planned = wo.parts[p].planned
  PROVE  QuoteStillHolds' /\ LinksMailed' /\ DecidedOnQuotedTotal'
<1>1. QuoteStillHolds'
  <2> SUFFICES ASSUME NEW r \in DOMAIN wo.budgets
               PROVE  wo.budgets[r].total =
                        ServicesTotal(ServicesOf(wo', r)) + PlannedTotal(wo', PartsOf(wo', r))
    BY DEF QuoteStillHolds
  <2>1. r \in Nat \ {0}
    BY DEF IInv, TypeOK, IsWorkOrder, IsSequence
  <2>2. PlannedTotal(wo', PartsOf(wo, r)) = PlannedTotal(wo, PartsOf(wo, r))
    BY <2>1, PlannedTotalKept
  <2> QED BY <2>1, <2>2 DEF IInv, QuoteStillHolds
<1>2. LinksMailed' /\ DecidedOnQuotedTotal'
  BY DEF IInv, LinksMailed, DecidedOnQuotedTotal
<1> QED BY <1>1, <1>2

\* Adding, planning and removing drafts, and assigning a mechanic.
LEMMA EditEffect ==
  ASSUME IInv, Edit
  PROVE  /\ wo'.status = wo.status /\ wo'.budgets = wo.budgets
         /\ wo'.executionStarted = wo.executionStarted
         /\ wo'.discount = wo.discount /\ wo'.charged = wo.charged
         /\ TypeOK'
         /\ \A r \in Nat \ {0} :
              /\ ServicesOf(wo', r) = ServicesOf(wo, r)
              /\ PartsOf(wo', r) = PartsOf(wo, r)
              /\ \A p \in PartsOf(wo, r) : wo'.parts[p].planned = wo.parts[p].planned
         /\ \A p \in Parts : wo'.parts[p] # wo.parts[p] =>
              wo'.parts[p].withdrawn = 0 /\ wo'.parts[p].planned \in Nat
<1>1. IsWorkOrder(wo)
  BY DEF IInv, TypeOK
<1>2. /\ wo'.status = wo.status /\ wo'.budgets = wo.budgets
      /\ wo'.executionStarted = wo.executionStarted
      /\ wo'.discount = wo.discount /\ wo'.charged = wo.charged
  BY <1>1, AddServiceEffect, PlanPartEffect, RemoveItemEffect, AssignMechanicEffect
     DEF Is, Edit
<1>3. /\ TypeOK'
      /\ \A r \in Nat \ {0} :
           /\ ServicesOf(wo', r) = ServicesOf(wo, r)
           /\ PartsOf(wo', r) = PartsOf(wo, r)
           /\ \A p \in PartsOf(wo, r) : wo'.parts[p].planned = wo.parts[p].planned
      /\ \A p \in Parts : wo'.parts[p] # wo.parts[p] =>
           wo'.parts[p].withdrawn = 0 /\ wo'.parts[p].planned \in Nat
  <2>1. CASE AddService(wo, wo')
    <3>1. PICK s \in Services :
            /\ wo.services[s] = Absent
            /\ Is(wo', wo.status, wo.mechanic, [wo.services EXCEPT ![s] = Draft], wo.parts,
                  wo.budgets, wo.executionStarted, wo.discount, wo.charged)
      BY <1>1, <2>1, AddServiceEffect
    <3>2. [wo.services EXCEPT ![s] = Draft] \in [Services -> ItemRound]
      BY <1>1 DEF IsWorkOrder, ItemRound, Draft
    <3>3. TypeOK'
      BY <1>1, Columns, <3>1, <3>2, RecordOf, TypeKept DEF TypeOK
    <3> QED BY <1>1, <3>1, <3>3 DEF Is, IsWorkOrder, ServicesOf, PartsOf, Draft, Absent
  <2>2. CASE PlanPart(wo, wo')
    <3>1. PICK p \in Parts, q \in 1 .. MaxPlanned :
            /\ wo.parts[p].round = Absent
            /\ Is(wo', wo.status, wo.mechanic, wo.services,
                  [wo.parts EXCEPT ![p] = [round |-> Draft, planned |-> q, withdrawn |-> 0]],
                  wo.budgets, wo.executionStarted, wo.discount, wo.charged)
      BY <1>1, <2>2, PlanPartEffect
    <3> DEFINE new == [round |-> Draft, planned |-> q, withdrawn |-> 0]
    <3>2. new \in PartItem
      BY BoundsAssumption DEF PartItem, ItemRound, Draft
    <3>3. [wo.parts EXCEPT ![p] = new] \in [Parts -> PartItem]
      BY <1>1, <3>2 DEF IsWorkOrder
    <3>4. TypeOK'
      BY <1>1, Columns, <3>1, <3>3, RecordOf, TypeKept DEF TypeOK
    <3>5. /\ wo'.services = wo.services
          /\ \A x \in Parts : x # p => wo'.parts[x] = wo.parts[x]
          /\ wo'.parts[p].round = Draft
          /\ wo'.parts[p].withdrawn = 0
          /\ wo'.parts[p].planned \in Nat
      BY <1>1, <3>1, BoundsAssumption DEF Is, IsWorkOrder
    <3> QED BY <3>1, <3>4, <3>5 DEF ServicesOf, PartsOf, Draft, Absent
  <2>3. CASE RemoveItem(wo, wo')
    <3>1. CASE \E s \in Services :
                 /\ wo.services[s] = Draft
                 /\ Is(wo', wo.status, wo.mechanic, [wo.services EXCEPT ![s] = Absent],
                       wo.parts, wo.budgets, wo.executionStarted, wo.discount, wo.charged)
      <4>1. PICK s \in Services :
                 /\ wo.services[s] = Draft
                 /\ Is(wo', wo.status, wo.mechanic, [wo.services EXCEPT ![s] = Absent],
                       wo.parts, wo.budgets, wo.executionStarted, wo.discount, wo.charged)
        BY <3>1
      <4>2. [wo.services EXCEPT ![s] = Absent] \in [Services -> ItemRound]
        BY <1>1 DEF IsWorkOrder, ItemRound
      <4>3. TypeOK'
        BY <1>1, Columns, <4>1, <4>2, RecordOf, TypeKept DEF TypeOK
      <4> QED BY <1>1, <4>1, <4>3 DEF Is, IsWorkOrder, ServicesOf, PartsOf, Draft, Absent
    <3>2. CASE \E p \in Parts :
                 /\ wo.parts[p].round = Draft
                 /\ Is(wo', wo.status, wo.mechanic, wo.services,
                       [wo.parts EXCEPT ![p] = NoPart],
                       wo.budgets, wo.executionStarted, wo.discount, wo.charged)
      <4>1. PICK p \in Parts :
                 /\ wo.parts[p].round = Draft
                 /\ Is(wo', wo.status, wo.mechanic, wo.services,
                       [wo.parts EXCEPT ![p] = NoPart],
                       wo.budgets, wo.executionStarted, wo.discount, wo.charged)
        BY <3>2
      <4>2. NoPart \in PartItem
        BY DEF PartItem, NoPart, ItemRound
      <4>3. [wo.parts EXCEPT ![p] = NoPart] \in [Parts -> PartItem]
        BY <1>1, <4>2 DEF IsWorkOrder
      <4>4. TypeOK'
        BY <1>1, Columns, <4>1, <4>3, RecordOf, TypeKept DEF TypeOK
      <4>5. /\ wo'.services = wo.services
            /\ \A x \in Parts : x # p => wo'.parts[x] = wo.parts[x]
            /\ wo'.parts[p] = NoPart
        BY <1>1, <4>1 DEF Is, IsWorkOrder
      <4> QED BY <4>1, <4>4, <4>5 DEF ServicesOf, PartsOf, Draft, Absent, NoPart
    <3> QED BY <1>1, <2>3, <3>1, <3>2, RemoveItemEffect
  <2>4. CASE AssignMechanic(wo, wo')
    <3>1. PICK m \in Users : Is(wo', wo.status, m, wo.services, wo.parts, wo.budgets,
                                wo.executionStarted, wo.discount, wo.charged)
      BY <1>1, <2>4, AssignMechanicEffect
    <3>2. TypeOK'
      BY <1>1, Columns, <3>1, RecordOf, TypeKept DEF TypeOK
    <3> QED BY <3>1, <3>2 DEF Is, ServicesOf, PartsOf
  <2> QED BY <2>1, <2>2, <2>3, <2>4 DEF Edit
<1> QED BY <1>2, <1>3

\* Editing the items or the mechanic keeps the invariant: only drafts move, and
\* no total counts a draft.
LEMMA EditKeeps ==
  ASSUME IInv, Edit, UNCHANGED links
  PROVE  IInv'
<1>1. IsWorkOrder(wo)
  BY DEF IInv, TypeOK
<1>2. /\ wo'.status = wo.status /\ wo'.budgets = wo.budgets
      /\ wo'.executionStarted = wo.executionStarted
      /\ wo'.discount = wo.discount /\ wo'.charged = wo.charged
  BY EditEffect
<1>3. /\ TypeOK'
      /\ \A r \in Nat \ {0} :
           /\ ServicesOf(wo', r) = ServicesOf(wo, r)
           /\ PartsOf(wo', r) = PartsOf(wo, r)
           /\ \A p \in PartsOf(wo, r) : wo'.parts[p].planned = wo.parts[p].planned
      /\ \A p \in Parts : wo'.parts[p] # wo.parts[p] =>
           wo'.parts[p].withdrawn = 0 /\ wo'.parts[p].planned \in Nat
  BY EditEffect
<1>4. PendingWhileAwaiting' /\ ExecutionIsApproved'
  BY <1>2 DEF IInv, PendingWhileAwaiting, ExecutionIsApproved, PendingRounds
<1>5. WithdrawnPartsAreApproved'
  BY <1>2, <1>3 DEF IInv, WithdrawnPartsAreApproved, ApprovedRounds
<1>6. QuoteStillHolds' /\ LinksMailed' /\ DecidedOnQuotedTotal'
  BY <1>2, <1>3, QuotesKept
<1>7. FrozenCharge'
  <2>1. CASE wo.status \in {"COMPLETED", "DELIVERED"}
    <3>1. wo'.services = wo.services /\ wo'.parts = wo.parts
      BY <1>1, <2>1, AddServiceEffect, PlanPartEffect, RemoveItemEffect, AssignMechanicEffect
         DEF Is, Edit, ITEM_EDITABLE_STATES, PART_PLANNABLE_STATES
    <3> QED BY <1>2, <2>1, <3>1, ChargeKept DEF IInv, FrozenCharge
  <2> QED BY <1>2, <2>1 DEF FrozenCharge
<1> QED BY <1>3, <1>4, <1>5, <1>6, <1>7 DEF IInv

\* startDiagnosis.
LEMMA DiagnoseKeeps ==
  ASSUME IInv, Diagnose, UNCHANGED links
  PROVE  IInv'
<1>1. IsWorkOrder(wo)
  BY DEF IInv, TypeOK
<1>2. PICK actor \in Users :
        /\ wo.status = "RECEIVED"
        /\ Is(wo', "IN_DIAGNOSIS", IF wo.mechanic = NoUser THEN actor ELSE wo.mechanic,
              wo.services, wo.parts, wo.budgets, wo.executionStarted, wo.discount, wo.charged)
  BY <1>1, StartDiagnosisEffect DEF Diagnose
<1>3. /\ IsRecord(wo')
      /\ wo'.status = "IN_DIAGNOSIS" /\ wo'.mechanic \in Users \cup {NoUser}
      /\ wo'.services = wo.services /\ wo'.parts = wo.parts /\ wo'.budgets = wo.budgets
      /\ wo'.executionStarted = wo.executionStarted /\ wo'.discount = wo.discount
  BY <1>1, <1>2, RecordOf DEF IsWorkOrder
<1>4. TypeOK'
  BY <1>1, <1>3, TypeKept DEF TypeOK, IsWorkOrder, WorkOrderStatus
<1>5. /\ PendingWhileAwaiting' /\ ExecutionIsApproved' /\ WithdrawnPartsAreApproved'
      /\ FrozenCharge'
  BY <1>2, <1>3 DEF IInv, PendingWhileAwaiting, ExecutionIsApproved, WithdrawnPartsAreApproved,
                    FrozenCharge, PendingRounds, ApprovedRounds
<1>6. QuoteStillHolds' /\ LinksMailed' /\ DecidedOnQuotedTotal'
  BY <1>3, QuotesKept DEF ServicesOf, PartsOf
<1> QED BY <1>4, <1>5, <1>6 DEF IInv

\* withdrawParts and returnParts.
LEMMA MovePartsKeeps ==
  ASSUME IInv, MoveParts, UNCHANGED links
  PROVE  IInv'
<1>1. IsWorkOrder(wo)
  BY DEF IInv, TypeOK
<1>2. PICK parts :
        /\ wo.status = "IN_EXECUTION"
        /\ PartsMoved(wo, parts)
        /\ Is(wo', wo.status, wo.mechanic, wo.services, parts, wo.budgets,
              wo.executionStarted, wo.discount, wo.charged)
  BY <1>1, WithdrawPartsEffect, ReturnPartsEffect DEF MoveParts
<1>3. /\ IsRecord(wo')
      /\ wo'.status = wo.status /\ wo'.mechanic = wo.mechanic
      /\ wo'.services = wo.services /\ wo'.budgets = wo.budgets
      /\ wo'.executionStarted = wo.executionStarted /\ wo'.discount = wo.discount
      /\ PartsMoved(wo, wo'.parts)
  BY <1>2, RecordOf
<1>4. TypeOK'
  BY <1>1, <1>3, Columns, TypeKept DEF TypeOK, PartsMoved
<1>5. PendingWhileAwaiting' /\ ExecutionIsApproved' /\ FrozenCharge'
  BY <1>2, <1>3 DEF IInv, PendingWhileAwaiting, ExecutionIsApproved, FrozenCharge,
                    PendingRounds
<1>6. WithdrawnPartsAreApproved'
  BY <1>1, <1>3 DEF IInv, WithdrawnPartsAreApproved, ApprovedRounds, PartsMoved, IsWorkOrder,
                    PartItem
<1>7. QuoteStillHolds' /\ LinksMailed' /\ DecidedOnQuotedTotal'
  BY <1>3, QuotesKept DEF ServicesOf, PartsOf, PartsMoved
<1> QED BY <1>4, <1>5, <1>6, <1>7 DEF IInv

\* applyDiscount, complete, deliver and cancel.
LEMMA CloseKeeps ==
  ASSUME IInv, Close, UNCHANGED links
  PROVE  IInv'
<1>1. IsWorkOrder(wo)
  BY DEF IInv, TypeOK
<1>2. /\ IsRecord(wo')
      /\ wo'.mechanic = wo.mechanic /\ wo'.services = wo.services /\ wo'.parts = wo.parts
      /\ wo'.budgets = wo.budgets /\ wo'.executionStarted = wo.executionStarted
      /\ wo'.status \in WorkOrderStatus /\ wo'.discount \in Nat
      /\ wo'.charged = IF wo'.status = "COMPLETED" THEN Charge(wo) - wo'.discount ELSE wo.charged
      /\ \/ /\ wo'.status = wo.status /\ wo.status \in {"IN_EXECUTION", "COMPLETED"}
            /\ wo'.discount <= Charge(wo)
         \/ wo'.status = "COMPLETED" /\ wo.status = "IN_EXECUTION" /\ wo'.discount <= Charge(wo)
         \/ wo'.status = "DELIVERED" /\ wo.status = "COMPLETED" /\ wo'.discount = wo.discount
         \/ wo'.status = "CANCELED" /\ wo'.discount = wo.discount
  <2>1. PICK status \in WorkOrderStatus, discount \in Nat :
           LET charged == IF status = "COMPLETED" THEN Charge(wo) - discount ELSE wo.charged IN
           /\ Is(wo', status, wo.mechanic, wo.services, wo.parts, wo.budgets, wo.executionStarted,
                 discount, charged)
           /\ wo.status # "DELIVERED"
           /\ \/ /\ status = wo.status /\ wo.status \in {"IN_EXECUTION", "COMPLETED"}
                 /\ discount <= Charge(wo)
              \/ status = "COMPLETED" /\ wo.status = "IN_EXECUTION" /\ discount <= Charge(wo)
              \/ status = "DELIVERED" /\ wo.status = "COMPLETED" /\ discount = wo.discount
              \/ status = "CANCELED" /\ discount = wo.discount
    BY <1>1, CloseEffect DEF Close
  <2> QED BY <2>1, RecordOf
<1>3. TypeOK'
  BY <1>1, <1>2, Columns, TypeKept DEF TypeOK
<1>4. PendingWhileAwaiting' /\ ExecutionIsApproved' /\ WithdrawnPartsAreApproved'
  BY <1>2 DEF IInv, PendingWhileAwaiting, ExecutionIsApproved, WithdrawnPartsAreApproved,
                    PendingRounds, ApprovedRounds
<1>5. FrozenCharge'
  <2>1. Charge(wo') = Charge(wo)
    BY <1>2, ChargeKept
  <2> QED BY <1>2, <2>1 DEF IInv, FrozenCharge
<1>6. QuoteStillHolds' /\ LinksMailed' /\ DecidedOnQuotedTotal'
  BY <1>2, QuotesKept DEF ServicesOf, PartsOf
<1> QED BY <1>3, <1>4, <1>5, <1>6 DEF IInv

\* What a decision on round r is taken by.
Deciding(r, d) ==
  \/ d = InApplication
  \/ \E link \in links : /\ d = ByLink(link)
                         /\ link.round = r
                         /\ link.generation = wo.budgets[r].generation

\* What deciding round r does.
DecidedWorkOrder(w, v, r, status, d) ==
  Is(v, IF status = "REJECTED" /\ r = 1 THEN "IN_DIAGNOSIS" ELSE "IN_EXECUTION",
     w.mechanic, w.services, w.parts,
     [w.budgets EXCEPT ![r] = Decided(w.budgets[r], status, d)],
     IF status = "APPROVED" THEN TRUE ELSE w.executionStarted, w.discount, w.charged)

\* A decision applies to a pending round while the work order awaits approval.
LEMMA DecideEffect ==
  ASSUME IsWorkOrder(wo), Decide
  PROVE  \E d : \E r \in PendingRounds(wo), status \in {"APPROVED", "REJECTED"} :
           /\ wo.status = "AWAITING_APPROVAL"
           /\ Deciding(r, d)
           /\ DecidedWorkOrder(wo, wo', r, status, d)
<1>d. PICK d : \E r \in PendingRounds(wo) :
        /\ wo.status = "AWAITING_APPROVAL"
        /\ Deciding(r, d)
        /\ wo' = Approved(wo, r, d) \/ wo' = Rejected(wo, r, d)
  BY DEF Decide, ApproveBudget, RejectBudget, MayDecide, LinkIsCurrent, Deciding
<1>1. PICK r \in PendingRounds(wo) :
        /\ wo.status = "AWAITING_APPROVAL"
        /\ Deciding(r, d)
        /\ wo' = Approved(wo, r, d) \/ wo' = Rejected(wo, r, d)
  BY <1>d
<1>2. r \in DOMAIN wo.budgets
  BY <1>1 DEF PendingRounds
<1>3. wo' = Approved(wo, r, d) => DecidedWorkOrder(wo, wo', r, "APPROVED", d)
  BY <1>2 DEF Approved, DecidedWorkOrder, IsWorkOrder, IsBudget, Is
<1>4. wo' = Rejected(wo, r, d) => DecidedWorkOrder(wo, wo', r, "REJECTED", d)
  BY <1>2 DEF Rejected, DecidedWorkOrder, IsWorkOrder, IsBudget, Is
<1> QED BY <1>1, <1>3, <1>4

\* approveBudget and rejectBudget.
LEMMA DecideKeeps ==
  ASSUME IInv, Decide, UNCHANGED links
  PROVE  IInv'
<1>1. IsWorkOrder(wo)
  BY DEF IInv, TypeOK
<1>d. PICK d : \E r \in PendingRounds(wo), status \in {"APPROVED", "REJECTED"} :
        /\ wo.status = "AWAITING_APPROVAL"
        /\ Deciding(r, d)
        /\ DecidedWorkOrder(wo, wo', r, status, d)
  BY <1>1, DecideEffect
<1>2. PICK r \in PendingRounds(wo), status \in {"APPROVED", "REJECTED"} :
        /\ wo.status = "AWAITING_APPROVAL"
        /\ Deciding(r, d)
        /\ DecidedWorkOrder(wo, wo', r, status, d)
  BY <1>d
<1> DEFINE b == Decided(wo.budgets[r], status, d)
<1>3. /\ IsRecord(wo')
      /\ wo'.status = IF status = "REJECTED" /\ r = 1 THEN "IN_DIAGNOSIS" ELSE "IN_EXECUTION"
      /\ wo'.mechanic = wo.mechanic /\ wo'.services = wo.services /\ wo'.parts = wo.parts
      /\ wo'.budgets = [wo.budgets EXCEPT ![r] = b]
      /\ wo'.executionStarted = IF status = "APPROVED" THEN TRUE ELSE wo.executionStarted
      /\ wo'.discount = wo.discount
  BY <1>2 DEF DecidedWorkOrder, Is, IsRecord
<1>4. r \in DOMAIN wo.budgets /\ wo.budgets[r].status = "PENDING" /\ IsBudget(wo.budgets[r])
  BY <1>1 DEF PendingRounds, IsWorkOrder
<1>5. /\ IsBudget(b) /\ b.status = status /\ b.decision = d
      /\ b.total = wo.budgets[r].total /\ b.generation = wo.budgets[r].generation
  <2>1. d.by \in {"nobody", "application", "link"}
    BY <1>2 DEF Deciding, InApplication, ByLink
  <2>2. status \in BudgetStatus
    BY DEF BudgetStatus
  <2>3. IsBudget(wo.budgets[r])
    BY <1>4
  <2> QED BY <2>1, <2>2, <2>3, BudgetChanged
<1> HIDE DEF b
<1>6. /\ IsSequence(wo'.budgets)
      /\ DOMAIN wo'.budgets = DOMAIN wo.budgets
      /\ Len(wo'.budgets) = Len(wo.budgets)
      /\ wo'.budgets[r] = b
      /\ \A i \in DOMAIN wo.budgets : i # r => wo'.budgets[i] = wo.budgets[i]
      /\ \A i \in DOMAIN wo'.budgets : IsBudget(wo'.budgets[i])
  BY <1>1, <1>3, <1>4, <1>5, SequenceReplaced DEF IsWorkOrder
<1>7. TypeOK'
  BY <1>1, <1>3, <1>6, Columns, TypeOfNewRecord DEF TypeOK, WorkOrderStatus
<1>7a. r = Len(wo.budgets)
  BY <1>2 DEF IInv, PendingWhileAwaiting
<1>8. r \in Nat \ {0} /\ 1 \in DOMAIN wo.budgets
  <2>1. DOMAIN wo.budgets = 1 .. Len(wo.budgets) /\ Len(wo.budgets) \in Nat
    BY <1>1 DEF IsWorkOrder, IsSequence
  <2> QED BY <1>4, <2>1
<1>9. PendingWhileAwaiting'
  <2>1. \A i \in DOMAIN wo'.budgets : wo'.budgets[i].status # "PENDING"
    BY <1>2, <1>5, <1>6, <1>7a DEF IInv, PendingWhileAwaiting, PendingRounds
  <2> QED BY <1>3, <2>1 DEF PendingWhileAwaiting, PendingRounds
<1>10. ExecutionIsApproved'
  <2>1. CASE r = 1
    <3>1. wo'.status = "IN_EXECUTION" => wo'.budgets[1].status = "APPROVED" /\ wo'.executionStarted
      BY <1>2, <1>3, <1>5, <1>6, <2>1
    <3>2. wo'.status \in {"IN_EXECUTION", "IN_DIAGNOSIS"}
      BY <1>3
    <3>4. Len(wo'.budgets) = 1
      BY <1>6, <1>7a, <2>1
    <3>3. wo'.budgets # << >>
      BY <1>6, <1>8
    <3> QED BY <3>1, <3>2, <3>3, <3>4 DEF ExecutionIsApproved
  <2>2. CASE r # 1
    <3>1. Len(wo.budgets) > 1
      <4>1. r > 1
        BY <1>8, <2>2
      <4> QED BY <1>7a, <4>1
    <3>2. wo.budgets[1].status = "APPROVED" /\ wo.executionStarted /\ wo.budgets # << >>
      BY <3>1 DEF IInv, ExecutionIsApproved
    <3>3. wo'.budgets[1] = wo.budgets[1] /\ wo'.executionStarted
      BY <1>3, <1>6, <1>8, <2>2, <3>2
    <3> QED BY <1>6, <1>8, <3>2, <3>3 DEF ExecutionIsApproved
  <2> QED BY <2>1, <2>2
<1>11. WithdrawnPartsAreApproved'
  <2>1. ApprovedRounds(wo) \subseteq ApprovedRounds(wo')
    BY <1>4, <1>6 DEF ApprovedRounds
  <2> QED BY <1>3, <2>1 DEF IInv, WithdrawnPartsAreApproved
<1>12. QuoteStillHolds'
  <2>1. \A i \in DOMAIN wo.budgets : wo'.budgets[i].total = wo.budgets[i].total
    BY <1>5, <1>6
  <2>2. \A i : ServicesOf(wo', i) = ServicesOf(wo, i) /\ PartsOf(wo', i) = PartsOf(wo, i)
    BY <1>3 DEF ServicesOf, PartsOf
  <2>3. \A i : PlannedTotal(wo', PartsOf(wo, i)) = PlannedTotal(wo, PartsOf(wo, i))
    BY <1>3, PlannedTotalKept
  <2> QED BY <1>6, <2>1, <2>2, <2>3 DEF IInv, QuoteStillHolds
<1>13. LinksMailed'
  BY <1>5, <1>6 DEF IInv, LinksMailed
<1>14. DecidedOnQuotedTotal'
  <2>1. d.by = "link" => d.total = b.total
    BY <1>2, <1>5 DEF IInv, LinksMailed, Deciding, InApplication, ByLink
  <2> QED BY <1>5, <1>6, <2>1 DEF IInv, DecidedOnQuotedTotal
<1>15. FrozenCharge'
  BY <1>3 DEF FrozenCharge
<1> QED BY <1>7, <1>9, <1>10, <1>11, <1>12, <1>13, <1>14, <1>15 DEF IInv

\* What quoting round r does: the round is the last one and pending, and it is
\* a new round or a rejected one in a generation of its own.
Quoted(w, v, r, generation) ==
  /\ r \in Nat \ {0} /\ generation \in 1 .. MaxGenerations
  /\ Is(v, "AWAITING_APPROVAL", w.mechanic, NewServices(w, r), NewParts(w, r), v.budgets,
        w.executionStarted, w.discount, w.charged)
  /\ IsSequence(v.budgets)
  /\ DOMAIN w.budgets \subseteq DOMAIN v.budgets
  /\ r = Len(v.budgets)
  /\ DOMAIN v.budgets = 1 .. r
  /\ \A i \in DOMAIN v.budgets : i # r => i \in DOMAIN w.budgets /\ v.budgets[i] = w.budgets[i]
  /\ v.budgets[r] = Generated(RoundTotal(w, r), generation)
  /\ r \in DOMAIN w.budgets =>
       w.budgets[r].status = "REJECTED" /\ generation = w.budgets[r].generation + 1
  /\ PendingRounds(w) = {}
  /\ r > 1 => w.budgets # << >> /\ w.budgets[1].status = "APPROVED" /\ w.executionStarted

\* A supplementary budget quotes the next round.
LEMMA SubmitSupplementaryBudgetEffect ==
  ASSUME IInv, SubmitSupplementaryBudget(wo, wo')
  PROVE  Quoted(wo, wo', Len(wo.budgets) + 1, 1)
<1> DEFINE r == Len(wo.budgets) + 1
           b == Generated(RoundTotal(wo, r), 1)
<1>1. IsWorkOrder(wo) /\ IsSequence(wo.budgets)
  BY DEF IInv, TypeOK, IsWorkOrder
<1>2. wo.status = "IN_EXECUTION"
  BY DEF SubmitSupplementaryBudget
<1>3. /\ Is(wo', "AWAITING_APPROVAL", wo.mechanic, NewServices(wo, r), NewParts(wo, r),
            wo'.budgets, wo.executionStarted, wo.discount, wo.charged)
      /\ wo'.budgets = Append(wo.budgets, b)
  BY <1>1 DEF SubmitSupplementaryBudget, AttachedTo, NewServices, NewParts, IsWorkOrder, Is
<1>4. /\ IsSequence(wo'.budgets)
      /\ Len(wo.budgets) \in Nat
      /\ DOMAIN wo.budgets = 1 .. Len(wo.budgets)
      /\ Len(wo'.budgets) = Len(wo.budgets) + 1
      /\ DOMAIN wo'.budgets = 1 .. Len(wo.budgets) + 1
      /\ wo'.budgets[Len(wo'.budgets)] = b
      /\ \A i \in DOMAIN wo.budgets : wo'.budgets[i] = wo.budgets[i]
  <2> DEFINE s == wo.budgets
             t == wo'.budgets
  <2>1. IsSequence(s) /\ t = Append(s, b)
    BY <1>1, <1>3
  <2> HIDE DEF b, s, t
  <2>2. /\ IsSequence(t) /\ Len(s) \in Nat /\ DOMAIN s = 1 .. Len(s)
        /\ Len(t) = Len(s) + 1 /\ DOMAIN t = 1 .. Len(s) + 1 /\ t[Len(t)] = b
        /\ \A i \in DOMAIN s : t[i] = s[i]
    BY <2>1, SequenceAppended
  <2> QED BY <2>2 DEF s, t
<1>5. r \in Nat \ {0} /\ r \notin DOMAIN wo.budgets
  BY <1>4
<1>6. \A i \in DOMAIN wo'.budgets : i # r => i \in DOMAIN wo.budgets
  BY <1>4
<1>7. DOMAIN wo.budgets \subseteq DOMAIN wo'.budgets
  BY <1>4
<1>8. PendingRounds(wo) = {}
  BY <1>2 DEF IInv, PendingWhileAwaiting
<1>9. wo.budgets # << >> /\ wo.budgets[1].status = "APPROVED" /\ wo.executionStarted
  BY <1>2 DEF IInv, ExecutionIsApproved
<1>10. 1 \in 1 .. MaxGenerations
  BY BoundsAssumption
<1> QED BY <1>3, <1>4, <1>5, <1>6, <1>7, <1>8, <1>9, <1>10 DEF Quoted

\* Completing a diagnosis quotes the first round, for the first time or again.
LEMMA CompleteDiagnosisEffect ==
  ASSUME IInv, CompleteDiagnosis(wo, wo')
  PROVE  \E generation \in 1 .. MaxGenerations : Quoted(wo, wo', 1, generation)
<1>1. IsWorkOrder(wo) /\ IsSequence(wo.budgets)
  BY DEF IInv, TypeOK, IsWorkOrder
<1>2. wo.status = "IN_DIAGNOSIS"
  BY DEF CompleteDiagnosis
<1>3. /\ Is(wo', "AWAITING_APPROVAL", wo.mechanic, NewServices(wo, 1), NewParts(wo, 1),
            wo'.budgets, wo.executionStarted, wo.discount, wo.charged)
      /\ wo'.budgets = FirstRound(wo)
  BY <1>1 DEF CompleteDiagnosis, AttachedTo, NewServices, NewParts, IsWorkOrder, Is
<1>4. PendingRounds(wo) = {}
  BY <1>2 DEF IInv, PendingWhileAwaiting
<1>5. Len(wo.budgets) \in Nat /\ DOMAIN wo.budgets = 1 .. Len(wo.budgets)
  BY <1>1 DEF IsSequence
<1>6. CASE wo.budgets = << >>
  <2>1. wo'.budgets = <<Generated(RoundTotal(wo, 1), 1)>>
    BY <1>3, <1>6 DEF FirstRound
  <2>2. /\ IsSequence(wo'.budgets) /\ Len(wo'.budgets) = 1 /\ DOMAIN wo'.budgets = 1 .. 1
        /\ wo'.budgets[1] = Generated(RoundTotal(wo, 1), 1)
    BY <2>1 DEF IsSequence
  <2>3. DOMAIN wo.budgets = {}
    BY <1>6
  <2>4. 1 \in 1 .. MaxGenerations
    BY BoundsAssumption
  <2>5. Quoted(wo, wo', 1, 1)
    BY <1>3, <1>4, <2>2, <2>3, <2>4 DEF Quoted
  <2> QED BY <2>4, <2>5
<1>7. CASE wo.budgets # << >>
  <2> DEFINE generation == wo.budgets[1].generation + 1
             b == Generated(RoundTotal(wo, 1), generation)
  <2>1. /\ wo.budgets[1].status = "REJECTED"
        /\ wo.budgets[1].generation < MaxGenerations
        /\ wo'.budgets = [wo.budgets EXCEPT ![1] = b]
    BY <1>3, <1>7 DEF CompleteDiagnosis, FirstRound
  <2>2. 1 \in DOMAIN wo.budgets
    BY <1>1, <1>7 DEF IsSequence
  <2>3. generation \in 1 .. MaxGenerations
    BY <1>1, <2>1, <2>2, BoundsAssumption DEF IsWorkOrder, IsBudget
  <2>4. Len(wo.budgets) = 1
    <3> DEFINE n == Len(wo.budgets)
    <3>1. ~(n > 1)
      BY <2>1 DEF IInv, ExecutionIsApproved
    <3>2. n \in Nat /\ 1 \in 1 .. n
      BY <1>5, <2>2
    <3> HIDE DEF n
    <3>3. n = 1
      BY <3>1, <3>2
    <3> QED BY <3>3 DEF n
  <2>5. /\ IsSequence(wo'.budgets)
        /\ DOMAIN wo'.budgets = DOMAIN wo.budgets
        /\ Len(wo'.budgets) = Len(wo.budgets)
        /\ wo'.budgets[1] = b
    <3>1. wo'.budgets = [wo.budgets EXCEPT ![1] = b]
      BY <2>1
    <3> HIDE DEF b
    <3> QED BY <1>1, <2>2, <3>1, SequenceReplaced
  <2>6. Quoted(wo, wo', 1, generation)
    BY <1>3, <1>4, <1>5, <2>1, <2>3, <2>4, <2>5 DEF Quoted
  <2> QED BY <2>3, <2>6
<1> QED BY <1>6, <1>7

\* completeDiagnosis and submitSupplementaryBudget, with the mail of the quoted round.
LEMMA QuoteKeeps ==
  ASSUME IInv, Quote, links' = links \cup Mailed(wo')
  PROVE  IInv'
<1>1. IsWorkOrder(wo)
  BY DEF IInv, TypeOK
<1>2. PICK r, generation : Quoted(wo, wo', r, generation)
  BY SubmitSupplementaryBudgetEffect, CompleteDiagnosisEffect DEF Quote
<1> DEFINE b == wo'.budgets[r]
<1>3. /\ IsRecord(wo')
      /\ wo'.status = "AWAITING_APPROVAL" /\ wo'.mechanic = wo.mechanic
      /\ wo'.services = NewServices(wo, r) /\ wo'.parts = NewParts(wo, r)
      /\ wo'.executionStarted = wo.executionStarted /\ wo'.discount = wo.discount
  BY <1>2, RecordOf DEF Quoted
<1>4. Attached(wo, wo', r)
  BY <1>1, <1>2, <1>3, AttachedEffect DEF Quoted
<1>5. /\ IsBudget(b) /\ b.status = "PENDING" /\ b.total = RoundTotal(wo, r)
      /\ b.generation = generation /\ b.decision.by = "nobody"
  BY <1>2, GeneratedIsBudget DEF Quoted
<1>6. \A i \in DOMAIN wo'.budgets : i # r =>
        i \in DOMAIN wo.budgets /\ wo'.budgets[i] = wo.budgets[i]
  BY <1>2 DEF Quoted
<1>7. r \in DOMAIN wo'.budgets /\ \A i \in DOMAIN wo'.budgets : i \in Nat \ {0}
  BY <1>2 DEF Quoted
<1> HIDE DEF b
<1>8. TypeOK'
  <2>1. \A i \in DOMAIN wo'.budgets : IsBudget(wo'.budgets[i])
    BY <1>1, <1>5, <1>6 DEF IsWorkOrder, b
  <2>2. IsSequence(wo'.budgets)
    BY <1>2 DEF Quoted
  <2>3. wo'.services \in [Services -> ItemRound] /\ wo'.parts \in [Parts -> PartItem]
    BY <1>4 DEF Attached
  <2> QED BY <1>1, <1>3, <2>1, <2>2, <2>3, Columns, TypeOfNewRecord DEF TypeOK, WorkOrderStatus
<1>9. PendingRounds(wo') = {r}
  <2>1. \A i \in DOMAIN wo'.budgets : i # r => wo'.budgets[i].status # "PENDING"
    BY <1>2, <1>6 DEF Quoted, PendingRounds
  <2> QED BY <1>5, <1>7, <2>1 DEF PendingRounds, b
<1>10. PendingWhileAwaiting'
  <2>1. r = Len(wo'.budgets)
    BY <1>2 DEF Quoted
  <2> QED BY <1>3, <1>9, <2>1 DEF PendingWhileAwaiting
<1>11. ExecutionIsApproved'
  <2>1. CASE Len(wo'.budgets) > 1
    <3>1. r > 1
      BY <1>2, <2>1 DEF Quoted
    <3>2. /\ 1 \in DOMAIN wo'.budgets /\ 1 # r
          /\ wo.budgets[1].status = "APPROVED" /\ wo.executionStarted
      BY <1>2, <3>1 DEF Quoted
    <3>3. wo'.budgets[1].status = "APPROVED" /\ wo'.executionStarted
      BY <1>3, <1>6, <3>2
    <3>4. wo'.budgets # << >>
      BY <3>2
    <3> QED BY <3>3, <3>4 DEF ExecutionIsApproved
  <2>2. CASE ~(Len(wo'.budgets) > 1)
    BY <1>3, <2>2 DEF ExecutionIsApproved
  <2> QED BY <2>1, <2>2
<1>12. WithdrawnPartsAreApproved'
  <2>1. ApprovedRounds(wo) \subseteq ApprovedRounds(wo') /\ r \notin ApprovedRounds(wo)
    BY <1>2, <1>6 DEF Quoted, ApprovedRounds
  <2>2. Draft \notin ApprovedRounds(wo)
    BY <1>2, <1>7 DEF Quoted, ApprovedRounds, Draft
  <2>3. SUFFICES ASSUME NEW p \in Parts
                 PROVE  /\ wo'.parts[p].withdrawn <= wo'.parts[p].planned
                        /\ wo'.parts[p].withdrawn > 0 => wo'.parts[p].round \in ApprovedRounds(wo')
    BY DEF WithdrawnPartsAreApproved
  <2>4. /\ wo.parts[p].withdrawn <= wo.parts[p].planned
        /\ wo.parts[p].withdrawn > 0 => wo.parts[p].round \in ApprovedRounds(wo)
    BY DEF IInv, WithdrawnPartsAreApproved
  <2>5. /\ wo'.parts[p].planned = wo.parts[p].planned
        /\ wo'.parts[p].withdrawn = wo.parts[p].withdrawn
        /\ wo.parts[p].round \notin {Draft, r} => wo'.parts[p].round = wo.parts[p].round
    BY <1>4 DEF Attached
  <2> QED BY <2>1, <2>2, <2>4, <2>5
<1>13. QuoteStillHolds'
  <2>1. SUFFICES ASSUME NEW i \in DOMAIN wo'.budgets
                 PROVE  wo'.budgets[i].total =
                          ServicesTotal(ServicesOf(wo', i)) + PlannedTotal(wo', PartsOf(wo', i))
    BY DEF QuoteStillHolds
  <2>2. \A S \in SUBSET Parts : PlannedTotal(wo', S) = PlannedTotal(wo, S)
    BY <1>4, PlannedTotalKept DEF Attached
  <2>3. CASE i = r
    <3>1. /\ ServicesOf(wo', r) = EligibleServices(wo, r)
          /\ PartsOf(wo', r) = EligibleParts(wo, r)
      BY <1>4 DEF Attached
    <3>2. PlannedTotal(wo', EligibleParts(wo, r)) = PlannedTotal(wo, EligibleParts(wo, r))
      BY <2>2 DEF EligibleParts
    <3> QED BY <1>5, <2>3, <3>1, <3>2 DEF RoundTotal, b
  <2>4. CASE i # r
    <3>1. ServicesOf(wo', i) = ServicesOf(wo, i) /\ PartsOf(wo', i) = PartsOf(wo, i)
      BY <1>4, <1>7, <2>4 DEF Attached
    <3>2. PlannedTotal(wo', PartsOf(wo, i)) = PlannedTotal(wo, PartsOf(wo, i))
      BY <2>2 DEF PartsOf
    <3> QED BY <1>6, <2>4, <3>1, <3>2 DEF IInv, QuoteStillHolds
  <2> QED BY <2>3, <2>4
<1>14. LinksMailed'
  <2>1. SUFFICES ASSUME NEW link \in links \cup Mailed(wo')
                 PROVE  /\ link.round \in DOMAIN wo'.budgets
                        /\ link.generation \in 1 .. wo'.budgets[link.round].generation
                        /\ link.generation = wo'.budgets[link.round].generation =>
                             link.total = wo'.budgets[link.round].total
    BY DEF LinksMailed
  <2>2. generation \in Nat \ {0}
    BY <1>2 DEF Quoted
  <2>3. CASE link \in Mailed(wo')
    BY <1>5, <1>7, <1>9, <2>2, <2>3 DEF Mailed, LinkOf, b
  <2>4. CASE link \in links
    <3>1. /\ link.round \in DOMAIN wo.budgets
          /\ link.generation \in 1 .. wo.budgets[link.round].generation
          /\ link.generation = wo.budgets[link.round].generation =>
               link.total = wo.budgets[link.round].total
      BY <2>4 DEF IInv, LinksMailed
    <3>2. link.round \in DOMAIN wo'.budgets
      BY <1>2, <3>1 DEF Quoted
    <3>3. CASE link.round = r
      <4>1. generation = wo.budgets[r].generation + 1
        BY <1>2, <3>1, <3>3 DEF Quoted
      <4>2. wo.budgets[r].generation \in Nat
        BY <1>1, <3>1, <3>3 DEF IsWorkOrder, IsBudget
      <4> QED BY <1>5, <3>1, <3>2, <3>3, <4>1, <4>2 DEF b
    <3>4. CASE link.round # r
      BY <1>6, <3>1, <3>2, <3>4
    <3> QED BY <3>3, <3>4
  <2> QED BY <2>3, <2>4
<1>15. DecidedOnQuotedTotal'
  BY <1>5, <1>6 DEF IInv, DecidedOnQuotedTotal, b
<1>16. FrozenCharge'
  BY <1>3 DEF FrozenCharge
<1> QED BY <1>8, <1>10, <1>11, <1>12, <1>13, <1>14, <1>15, <1>16 DEF IInv

-------------------------------------------------------------------------------
\* A step that leaves the work order and its links alone keeps the invariant.
LEMMA StutterKeeps ==
  ASSUME IInv, UNCHANGED vars
  PROVE  IInv'
  BY DEF vars, IInv, TypeOK, PendingWhileAwaiting, ExecutionIsApproved,
         WithdrawnPartsAreApproved, QuoteStillHolds, LinksMailed, DecidedOnQuotedTotal,
         FrozenCharge, IsWorkOrder, PendingRounds

\* A work order as it is opened satisfies the invariant.
LEMMA InitHolds ==
  ASSUME Init
  PROVE  IInv
<1>1. wo = Opened /\ links = {}
  BY DEF Init
<1>2. /\ IsRecord(wo) /\ wo.status = "RECEIVED" /\ wo.mechanic = NoUser
      /\ wo.services = [s \in Services |-> Absent] /\ wo.parts = [p \in Parts |-> NoPart]
      /\ wo.budgets = << >> /\ wo.executionStarted = FALSE /\ wo.discount = 0
  BY <1>1 DEF Opened, Is, IsRecord
<1>3. IsSequence(wo.budgets) /\ DOMAIN wo.budgets = {} /\ ~(Len(wo.budgets) > 1)
  BY <1>2 DEF IsSequence
<1>4. /\ wo.services \in [Services -> ItemRound]
      /\ wo.parts \in [Parts -> PartItem]
      /\ \A p \in Parts : wo.parts[p] = NoPart
  BY <1>2 DEF NoPart, PartItem, ItemRound
<1>5. TypeOK
  <2>1. /\ wo.status \in WorkOrderStatus /\ wo.mechanic \in Users \cup {NoUser}
        /\ wo.executionStarted \in BOOLEAN /\ wo.discount \in Nat
    <3>1. wo.status \in WorkOrderStatus
      BY <1>2 DEF WorkOrderStatus
    <3>2. wo.mechanic \in Users \cup {NoUser} /\ wo.discount \in Nat
      BY <1>2
    <3>3. wo.executionStarted \in BOOLEAN
      BY <1>2, Zenon
    <3> QED BY <3>1, <3>2, <3>3
  <2>2. \A r \in DOMAIN wo.budgets : IsBudget(wo.budgets[r])
    BY <1>3
  <2> QED BY <1>2, <1>3, <1>4, <2>1, <2>2, TypeOfNewRecord DEF TypeOK
<1>6. PendingWhileAwaiting /\ ExecutionIsApproved /\ FrozenCharge
  BY <1>2, <1>3 DEF PendingWhileAwaiting, ExecutionIsApproved, FrozenCharge, PendingRounds
<1>7. WithdrawnPartsAreApproved
  BY <1>4 DEF WithdrawnPartsAreApproved, NoPart
<1>8. QuoteStillHolds /\ LinksMailed /\ DecidedOnQuotedTotal
  BY <1>1, <1>3 DEF QuoteStillHolds, LinksMailed, DecidedOnQuotedTotal
<1> QED BY <1>5, <1>6, <1>7, <1>8 DEF IInv

\* The inductive invariant holds of every step of the commands of work-order.ts.
THEOREM Invariance == Spec => []IInv
<1>1. Init => IInv
  BY InitHolds
<1>2. IInv /\ [Next]_vars => IInv'
  BY EditKeeps, DiagnoseKeeps, MovePartsKeeps, CloseKeeps, DecideKeeps, QuoteKeeps, StutterKeeps
     DEF Next
<1> QED BY <1>1, <1>2, PTL DEF Spec

\* A work order keeps its shape: the columns and the items of work-order.ts.
THEOREM TypeCorrect == Spec => []TypeOK
<1>1. IInv => TypeOK
  BY DEF IInv
<1> QED BY <1>1, Invariance, PTL

\* A round is pending exactly while the work order awaits approval.
THEOREM PendingRoundAwaits == Spec => []PendingWhileAwaiting
<1>1. IInv => PendingWhileAwaiting
  BY DEF IInv
<1> QED BY <1>1, Invariance, PTL

\* Nothing is executed before the customer approved the first round.
THEOREM ExecutionApproved == Spec => []ExecutionIsApproved
<1>1. IInv => ExecutionIsApproved
  BY DEF IInv
<1> QED BY <1>1, Invariance, PTL

\* Only parts of approved rounds are off the shelf, within what was approved.
THEOREM WithdrawalsApproved == Spec => []WithdrawnPartsAreApproved
<1>1. IInv => WithdrawnPartsAreApproved
  BY DEF IInv
<1> QED BY <1>1, Invariance, PTL

\* The total of a round stays the price of the items attached to it.
THEOREM QuoteHolds == Spec => []QuoteStillHolds
<1>1. IInv => QuoteStillHolds
  BY DEF IInv
<1> QED BY <1>1, Invariance, PTL

\* A decision by link is taken on the total its mail showed.
THEOREM LinkDecidesQuotedTotal == Spec => []DecidedOnQuotedTotal
<1>1. IInv => DecidedOnQuotedTotal
  BY DEF IInv
<1> QED BY <1>1, Invariance, PTL

\* From the completion on, the charge is what the approved rounds came to.
THEOREM ChargeFrozen == Spec => []FrozenCharge
<1>1. IInv => FrozenCharge
  BY DEF IInv
<1> QED BY <1>1, Invariance, PTL

-------------------------------------------------------------------------------
(* The charge against the approved totals. *)

LEMMA TotalIsSum == ASSUME NEW f PROVE Total(f) = SumFunctionOnSet(f, DOMAIN f)
  BY DEF Total, MapThenSumSet, SumFunctionOnSet, FoldFunctionOnSet

\* The rounds of a work order are finitely many.
LEMMA ApprovedRoundsAreFinite ==
  ASSUME TypeOK
  PROVE  IsFiniteSet(ApprovedRounds(wo)) /\ IsFiniteSet(DOMAIN wo.budgets)
<1>1. DOMAIN wo.budgets = 1 .. Len(wo.budgets) /\ Len(wo.budgets) \in Nat
  BY DEF TypeOK, IsWorkOrder, IsSequence
<1>2. IsFiniteSet(DOMAIN wo.budgets)
  BY <1>1, FS_Interval
<1>3. ApprovedRounds(wo) \in SUBSET DOMAIN wo.budgets
  BY DEF ApprovedRounds
<1> QED BY <1>2, <1>3, FS_Subset

\* What the services of the approved rounds cost is split among those rounds,
\* and so is what their planned parts cost.
LEMMA ApprovedTotals ==
  ASSUME IInv
  PROVE  LET A == ApprovedRounds(wo)
             planned == [p \in Parts |-> PartPrice[p] * wo.parts[p].planned]
         IN  Total([r \in A |-> wo.budgets[r].total]) =
               SumFunctionOnSet(ServicePrice, {s \in Services : wo.services[s] \in A})
                 + SumFunctionOnSet(planned, {p \in Parts : wo.parts[p].round \in A})
<1> DEFINE A == ApprovedRounds(wo)
           planned == [p \in Parts |-> PartPrice[p] * wo.parts[p].planned]
           round == [p \in Parts |-> wo.parts[p].round]
           ofServices == [r \in A |-> SumFunctionOnSet(ServicePrice, {s \in Services : wo.services[s] = r})]
           ofParts == [r \in A |-> SumFunctionOnSet(planned, {p \in Parts : round[p] = r})]
           total == [r \in A |-> wo.budgets[r].total]
<1>1. /\ IsFiniteSet(A) /\ IsFiniteSet(Services) /\ IsFiniteSet(Parts) /\ IsWorkOrder(wo)
      /\ A \subseteq DOMAIN wo.budgets
  BY ApprovedRoundsAreFinite, ItemsAssumption DEF IInv, TypeOK, ApprovedRounds
<1>2. \A s \in Services : ServicePrice[s] \in Int
  BY PricesAssumption
<1>3. \A p \in Parts : planned[p] \in Int
  BY <1>1, PricesAssumption DEF IsWorkOrder, PartItem
<1>4. \A S \in SUBSET Services : SumFunctionOnSet(ServicePrice, S) \in Int
  BY <1>1, <1>2, SumIsInt, FS_Subset
<1>5. \A S \in SUBSET Parts : SumFunctionOnSet(planned, S) \in Int
  <2> HIDE DEF planned
  <2> QED BY <1>1, <1>3, SumIsInt, FS_Subset
<1>6. ASSUME NEW r \in A PROVE total[r] = ofServices[r] + ofParts[r]
  <2>1. total[r] = ServicesTotal(ServicesOf(wo, r)) + PlannedTotal(wo, PartsOf(wo, r))
    BY <1>1 DEF IInv, QuoteStillHolds
  <2>2. ServicesTotal(ServicesOf(wo, r)) = SumFunctionOnSet(ServicePrice, ServicesOf(wo, r))
    <3> DEFINE S == ServicesOf(wo, r)
               f == [s \in S |-> ServicePrice[s]]
    <3>1. ServicesTotal(S) = SumFunctionOnSet(f, S)
      BY TotalIsSum DEF ServicesTotal
    <3>2. S \in SUBSET Services
      BY DEF ServicesOf
    <3>3. IsFiniteSet(S) /\ \A s \in S : f[s] = ServicePrice[s]
      BY <1>1, <3>2, FS_Subset
    <3> HIDE DEF f
    <3> QED BY <3>1, <3>3, SumsAgree
  <2>3. PlannedTotal(wo, PartsOf(wo, r)) = SumFunctionOnSet(planned, PartsOf(wo, r))
    <3> DEFINE S == PartsOf(wo, r)
               f == [p \in S |-> PartPrice[p] * wo.parts[p].planned]
    <3>1. PlannedTotal(wo, S) = SumFunctionOnSet(f, S)
      BY TotalIsSum DEF PlannedTotal
    <3>2. S \in SUBSET Parts
      BY DEF PartsOf
    <3>3. IsFiniteSet(S)
      BY <1>1, <3>2, FS_Subset
    <3>4. \A p \in S : f[p] = planned[p]
      BY <3>2
    <3> HIDE DEF f, planned
    <3> QED BY <3>1, <3>3, <3>4, SumsAgree
  <2>4. {p \in Parts : round[p] = r} = PartsOf(wo, r)
    BY DEF PartsOf
  <2> HIDE DEF planned, round
  <2> QED BY <2>1, <2>2, <2>3, <2>4 DEF ServicesOf
<1>7. \A r \in A : ofServices[r] \in Int /\ ofParts[r] \in Int
  <2> HIDE DEF planned, round
  <2> QED BY <1>4, <1>5
<1>8. SumFunctionOnSet(ofServices, A) =
        SumFunctionOnSet(ServicePrice, {s \in Services : wo.services[s] \in A})
  <2> DEFINE one == [r \in A |-> {s \in Services : wo.services[s] = r}]
             all == {s \in Services : wo.services[s] \in A}
             of == wo.services
  <2>1. \A r \in A : ofServices[r] = SumFunctionOnSet(ServicePrice, one[r])
    OBVIOUS
  <2>2. \A r \in A : one[r] \subseteq Services /\ \A s \in Services : s \in one[r] <=> of[s] = r
    OBVIOUS
  <2>3. all \in SUBSET Services /\ \A s \in Services : s \in all <=> of[s] \in A
    OBVIOUS
  <2>4. SumFunctionOnSet(ofServices, A) = SumFunctionOnSet(ServicePrice, all)
    <3> HIDE DEF ofServices, A, one, all, of
    <3> QED BY <1>1, <1>2, <2>1, <2>2, <2>3, SumOfGroups
  <2> QED BY <2>4
<1>9. SumFunctionOnSet(ofParts, A) = SumFunctionOnSet(planned, {p \in Parts : round[p] \in A})
  <2> DEFINE one == [r \in A |-> {p \in Parts : round[p] = r}]
             all == {p \in Parts : round[p] \in A}
  <2>1. \A r \in A : ofParts[r] = SumFunctionOnSet(planned, one[r])
    OBVIOUS
  <2>2. \A r \in A : one[r] \subseteq Parts /\ \A p \in Parts : p \in one[r] <=> round[p] = r
    OBVIOUS
  <2>3. all \in SUBSET Parts /\ \A p \in Parts : p \in all <=> round[p] \in A
    OBVIOUS
  <2>4. SumFunctionOnSet(ofParts, A) = SumFunctionOnSet(planned, all)
    <3> HIDE DEF ofParts, A, one, all, planned, round
    <3> QED BY <1>1, <1>3, <2>1, <2>2, <2>3, SumOfGroups
  <2> QED BY <2>4
<1>10. {p \in Parts : round[p] \in A} = {p \in Parts : wo.parts[p].round \in A}
  OBVIOUS
<1>11. Total(total) = SumFunctionOnSet(total, A)
  <2>1. DOMAIN total = A
    OBVIOUS
  <2> HIDE DEF total, A
  <2> QED BY <2>1, TotalIsSum
<1>12. SumFunctionOnSet(total, A) = SumFunctionOnSet(ofServices, A) + SumFunctionOnSet(ofParts, A)
  <2> HIDE DEF total, ofServices, ofParts, A
  <2> QED BY <1>1, <1>6, <1>7, SumOfSums
<1> HIDE DEF planned, round, ofServices, ofParts, total, A
<1>13. Total(total) = SumFunctionOnSet(ServicePrice, {s \in Services : wo.services[s] \in A})
                       + SumFunctionOnSet(planned, {p \in Parts : wo.parts[p].round \in A})
  BY <1>8, <1>9, <1>10, <1>11, <1>12
<1> QED BY <1>13 DEF planned, total, A

\* No more is charged than the approved rounds come to: what is withdrawn of a
\* part is at most what was planned, and the discount is not negative.
LEMMA ChargeIsWithinApproval ==
  ASSUME IInv
  PROVE  ChargedWithinApproval
<1> DEFINE A == ApprovedRounds(wo)
           S == {s \in Services : wo.services[s] \in A}
           P == {p \in Parts : wo.parts[p].round \in A}
           planned == [p \in Parts |-> PartPrice[p] * wo.parts[p].planned]
           withdrawn == [p \in P |-> PartPrice[p] * wo.parts[p].withdrawn]
           prices == [s \in S |-> ServicePrice[s]]
<1>1. IsWorkOrder(wo) /\ IsFiniteSet(S) /\ IsFiniteSet(P)
  <2>1. S \in SUBSET Services /\ P \in SUBSET Parts
    OBVIOUS
  <2> HIDE DEF S, P
  <2> QED BY <2>1, ItemsAssumption, FS_Subset DEF IInv, TypeOK
<1>2. Charge(wo) = SumFunctionOnSet(ServicePrice, S) + SumFunctionOnSet(withdrawn, P)
  <2>1. ServicesTotal(S) = SumFunctionOnSet(prices, S)
    BY TotalIsSum DEF ServicesTotal
  <2>2. \A s \in S : prices[s] = ServicePrice[s]
    OBVIOUS
  <2>3. SumFunctionOnSet(prices, S) = SumFunctionOnSet(ServicePrice, S)
    <3> HIDE DEF prices, S
    <3> QED BY <1>1, <2>2, SumsAgree
  <2>4. WithdrawnTotal(wo, P) = SumFunctionOnSet(withdrawn, P)
    BY TotalIsSum DEF WithdrawnTotal
  <2>5. Charge(wo) = ServicesTotal(S) + WithdrawnTotal(wo, P)
    BY DEF Charge
  <2> HIDE DEF prices, S, P, withdrawn
  <2> QED BY <2>1, <2>3, <2>4, <2>5
<1>3. ASSUME NEW p \in P
      PROVE  withdrawn[p] \in Int /\ planned[p] \in Int /\ withdrawn[p] <= planned[p]
  <2>1. /\ p \in Parts /\ PartPrice[p] \in Nat
        /\ wo.parts[p].planned \in Nat /\ wo.parts[p].withdrawn \in Nat
    BY <1>1, PricesAssumption DEF IsWorkOrder, PartItem
  <2>2. wo.parts[p].withdrawn <= wo.parts[p].planned
    BY <2>1 DEF IInv, WithdrawnPartsAreApproved
  <2>3. \A c, m, n \in Nat : m <= n => c * m \in Int /\ c * n \in Int /\ c * m <= c * n
    OBVIOUS
  <2> QED BY <2>1, <2>2, <2>3
<1>4. SumFunctionOnSet(withdrawn, P) <= SumFunctionOnSet(planned, P)
  <2> HIDE DEF withdrawn, planned, P
  <2> QED BY <1>1, <1>3, SumIsMonotone
<1>5. /\ SumFunctionOnSet(withdrawn, P) \in Int /\ SumFunctionOnSet(planned, P) \in Int
      /\ SumFunctionOnSet(ServicePrice, S) \in Int
  <2>1. \A s \in S : ServicePrice[s] \in Int
    BY PricesAssumption
  <2> HIDE DEF withdrawn, planned, P, S
  <2> QED BY <1>1, <1>3, <2>1, SumIsInt
<1>6. Total([r \in A |-> wo.budgets[r].total]) =
        SumFunctionOnSet(ServicePrice, S) + SumFunctionOnSet(planned, P)
  BY ApprovedTotals
<1>7. wo.discount \in Nat
  BY <1>1 DEF IsWorkOrder
<1>8. wo.status \in {"COMPLETED", "DELIVERED"} => wo.charged = Charge(wo) - wo.discount
  BY DEF IInv, FrozenCharge
<1> HIDE DEF withdrawn, planned, P, S
<1>9. wo.status \in {"COMPLETED", "DELIVERED"} =>
        wo.charged <= Total([r \in A |-> wo.budgets[r].total])
  BY <1>2, <1>4, <1>5, <1>6, <1>7, <1>8
<1> QED BY <1>9 DEF ChargedWithinApproval

\* No customer is charged more than the budgets approved.
THEOREM ChargeApproved == Spec => []ChargedWithinApproval
<1>1. IInv => ChargedWithinApproval
  BY ChargeIsWithinApproval
<1> QED BY <1>1, Invariance, PTL

-------------------------------------------------------------------------------
(* The action property. *)

\* The rounds of a work order are its positive numbers.
LEMMA RoundsArePositive ==
  ASSUME IInv, NEW r \in ApprovedRounds(wo)
  PROVE  r \in Nat \ {0} /\ r \in DOMAIN wo.budgets /\ wo.budgets[r].status = "APPROVED"
  BY DEF ApprovedRounds, IInv, TypeOK, IsWorkOrder, IsSequence

\* No command changes an approved round or the items attached to it.
LEMMA NextKeepsApprovedRounds ==
  ASSUME IInv, Next
  PROVE  ApprovedRoundsKept
<1>1. IsWorkOrder(wo)
  BY DEF IInv, TypeOK
<1>2. CASE Edit
  BY <1>2, EditEffect, RoundsArePositive DEF ApprovedRoundsKept
<1>3. CASE Diagnose \/ MoveParts \/ Close
  <2>1. /\ wo'.budgets = wo.budgets /\ wo'.services = wo.services
        /\ \A p \in Parts : /\ wo'.parts[p].round = wo.parts[p].round
                            /\ wo'.parts[p].planned = wo.parts[p].planned
    <3>1. CASE Diagnose
      BY <1>1, <3>1, StartDiagnosisEffect, RecordOf DEF Diagnose
    <3>2. CASE MoveParts
      BY <1>1, <3>2, WithdrawPartsEffect, ReturnPartsEffect, RecordOf DEF MoveParts, PartsMoved
    <3>3. CASE Close
      BY <1>1, <3>3, CloseEffect, RecordOf DEF Close
    <3> QED BY <1>3, <3>1, <3>2, <3>3
  <2> QED BY <2>1, RoundsArePositive DEF ApprovedRoundsKept, ServicesOf, PartsOf
<1>4. CASE Decide
  <2>d. PICK d : \E r \in PendingRounds(wo), status \in {"APPROVED", "REJECTED"} :
                   DecidedWorkOrder(wo, wo', r, status, d)
    BY <1>1, <1>4, DecideEffect
  <2>1. PICK r \in PendingRounds(wo), status \in {"APPROVED", "REJECTED"} :
          DecidedWorkOrder(wo, wo', r, status, d)
    BY <2>d
  <2>2. /\ wo'.services = wo.services /\ wo'.parts = wo.parts
        /\ wo'.budgets = [wo.budgets EXCEPT ![r] = Decided(wo.budgets[r], status, d)]
    BY <2>1 DEF DecidedWorkOrder, Is
  <2>3. r \notin ApprovedRounds(wo)
    BY DEF PendingRounds, ApprovedRounds
  <2>4. \A i \in ApprovedRounds(wo) :
          i \in DOMAIN wo'.budgets /\ wo'.budgets[i] = wo.budgets[i]
    BY <2>2, <2>3, RoundsArePositive
  <2> QED BY <2>2, <2>4 DEF ApprovedRoundsKept, ServicesOf, PartsOf
<1>5. CASE Quote
  <2>1. PICK r, generation : Quoted(wo, wo', r, generation)
    BY <1>5, SubmitSupplementaryBudgetEffect, CompleteDiagnosisEffect DEF Quote
  <2>2. wo'.services = NewServices(wo, r) /\ wo'.parts = NewParts(wo, r)
    BY <2>1, RecordOf DEF Quoted
  <2>3. Attached(wo, wo', r)
    BY <1>1, <2>1, <2>2, AttachedEffect DEF Quoted
  <2>4. SUFFICES ASSUME NEW i \in ApprovedRounds(wo)
                 PROVE  /\ i \in DOMAIN wo'.budgets /\ wo'.budgets[i] = wo.budgets[i]
                        /\ ServicesOf(wo', i) = ServicesOf(wo, i)
                        /\ PartsOf(wo', i) = PartsOf(wo, i)
                        /\ \A p \in PartsOf(wo, i) : wo'.parts[p].planned = wo.parts[p].planned
    BY DEF ApprovedRoundsKept
  <2>5. i \in Nat \ {0} /\ i \in DOMAIN wo.budgets /\ wo.budgets[i].status = "APPROVED"
    BY RoundsArePositive
  <2>6. i # r
    BY <2>1, <2>5 DEF Quoted
  <2>7. i \in DOMAIN wo'.budgets /\ wo'.budgets[i] = wo.budgets[i]
    BY <2>1, <2>5, <2>6 DEF Quoted
  <2>8. /\ ServicesOf(wo', i) = ServicesOf(wo, i) /\ PartsOf(wo', i) = PartsOf(wo, i)
        /\ \A p \in Parts : wo'.parts[p].planned = wo.parts[p].planned
    BY <2>3, <2>5, <2>6 DEF Attached
  <2> QED BY <2>7, <2>8 DEF PartsOf
<1> QED BY <1>2, <1>3, <1>4, <1>5 DEF Next

\* What the customer approved stays as approved, whatever command comes next.
THEOREM ApprovedRoundsStay == Spec => ApprovedRoundIsLocked
<1>1. IInv /\ [Next]_vars => [ApprovedRoundsKept]_vars
  BY NextKeepsApprovedRounds
<1> QED BY <1>1, Invariance, PTL DEF Spec, ApprovedRoundIsLocked

-------------------------------------------------------------------------------
(* The store; its inductive invariant. *)

\* The columns of the work order row.
SameRow(w, v) ==
  /\ w.status = v.status /\ w.mechanic = v.mechanic
  /\ w.executionStarted = v.executionStarted
  /\ w.discount = v.discount /\ w.charged = v.charged

\* While nobody else has saved, what a request has read so far is what is
\* stored.  CurrentCopyIsStored is what this comes to after the fourth read.
IsCurrent(r) ==
  r.version = version =>
    /\ r.at # "idle" => SameRow(r.copy, wo)
    /\ r.at \in {"services", "parts", "loaded"} => r.copy.services = wo.services
    /\ r.at \in {"parts", "loaded"} => r.copy.parts = wo.parts
    /\ r.at = "loaded" => r.copy.budgets = wo.budgets

\* The invariants of the work order are part of it: a save is only a command
\* on a work order when the copy it runs on is the stored one.
SInv ==
  /\ IInv
  /\ StoreTypeOK
  /\ \A c \in Requests : IsCurrent(request[c])

-------------------------------------------------------------------------------
(* Reads. *)

\* A work order is the record of its columns.
LEMMA SameColumns ==
  ASSUME NEW w, NEW v, IsWorkOrder(w), IsWorkOrder(v), SameRow(w, v),
         w.services = v.services, w.parts = v.parts, w.budgets = v.budgets
  PROVE  w = v
  BY DEF IsWorkOrder, SameRow

\* A fully read copy of the stored version is the stored work order.
LEMMA LoadedIsStored ==
  ASSUME SInv, NEW c \in Requests, request[c].at = "loaded", request[c].version = version
  PROVE  request[c].copy = wo
<1>1. IsWorkOrder(request[c].copy) /\ IsWorkOrder(wo)
  BY DEF SInv, StoreTypeOK, TypeOK
<1> QED BY <1>1, SameColumns DEF SInv, IsCurrent

\* A work order without items and without budgets, which is all that the row
\* read by the first query can tell.
LEMMA TypeOfBareRow ==
  ASSUME NEW v, IsRecord(v), v.services = [s \in Services |-> Absent],
         v.parts = [p \in Parts |-> NoPart], v.budgets = << >>,
         v.status \in WorkOrderStatus, v.mechanic \in Users \cup {NoUser},
         v.executionStarted \in BOOLEAN, v.discount \in Nat
  PROVE  IsWorkOrder(v)
<1>1. v.services \in [Services -> ItemRound] /\ v.parts \in [Parts -> PartItem]
  BY DEF NoPart, PartItem, ItemRound
<1>2. IsSequence(v.budgets) /\ DOMAIN v.budgets = {}
  BY DEF IsSequence
<1>3. \A i \in DOMAIN v.budgets : IsBudget(v.budgets[i])
  BY <1>2
<1> QED BY <1>1, <1>2, <1>3, TypeOfNewRecord

\* What an idle request holds in the place of a copy.
LEMMA OpenedIsWorkOrder == IsWorkOrder(Opened)
<1>1. /\ IsRecord(Opened) /\ Opened.status = "RECEIVED" /\ Opened.mechanic = NoUser
      /\ Opened.services = [s \in Services |-> Absent]
      /\ Opened.parts = [p \in Parts |-> NoPart]
      /\ Opened.budgets = << >> /\ Opened.executionStarted = FALSE /\ Opened.discount = 0
  BY DEF Opened, Is, IsRecord
<1>2. Opened.status \in WorkOrderStatus
  BY <1>1 DEF WorkOrderStatus
<1>3. Opened.mechanic \in Users \cup {NoUser} /\ Opened.discount \in Nat
  BY <1>1
<1>4. Opened.executionStarted \in BOOLEAN
  BY <1>1, Zenon
<1> QED BY <1>1, <1>2, <1>3, <1>4, TypeOfBareRow

\* What a step of one request does to the requests.
LEMMA RequestStep ==
  ASSUME StoreTypeOK, TypeOK', NEW c \in Requests, NEW at \in Steps, NEW v, NEW copy,
         IsWorkOrder(copy), v \in 0 .. version',
         version' \in 0 .. MaxVersion, version <= version',
         request' = [request EXCEPT ![c] = [at |-> at, version |-> v, copy |-> copy]]
  PROVE  /\ StoreTypeOK'
         /\ request'[c] = [at |-> at, version |-> v, copy |-> copy]
         /\ \A d \in Requests : d # c => request'[d] = request[d]
<1>1. /\ request'[c] = [at |-> at, version |-> v, copy |-> copy]
      /\ \A d \in Requests : d # c => request'[d] = request[d]
      /\ request' = [d \in Requests |-> request'[d]]
  BY DEF StoreTypeOK
<1>2. \A d \in Requests :
        /\ request'[d] = [at |-> request'[d].at, version |-> request'[d].version,
                          copy |-> request'[d].copy]
        /\ request'[d].at \in Steps
        /\ request'[d].version \in 0 .. version'
        /\ IsWorkOrder(request'[d].copy)
  <2> TAKE d \in Requests
  <2>1. CASE d = c
    BY <1>1, <2>1
  <2>2. CASE d # c
    BY <1>1, <2>2 DEF StoreTypeOK
  <2> QED BY <2>1, <2>2
<1>3. request' = [d \in Requests |-> [at |-> request'[d].at, version |-> request'[d].version,
                                      copy |-> request'[d].copy]]
  BY <1>1, <1>2
<1>4. StoreTypeOK'
  BY <1>2, <1>3 DEF StoreTypeOK
<1> QED BY <1>1, <1>4

\* A step that leaves the work order alone and one request with a current copy.
LEMMA ReadStep ==
  ASSUME SInv, NEW c \in Requests, NEW at \in Steps, NEW v \in 0 .. version, NEW copy,
         IsWorkOrder(copy), UNCHANGED <<wo, links, version>>,
         request' = [request EXCEPT ![c] = [at |-> at, version |-> v, copy |-> copy]],
         IsCurrent([at |-> at, version |-> v, copy |-> copy])
  PROVE  SInv' /\ UNCHANGED vars
<1>1. IInv' /\ TypeOK' /\ UNCHANGED vars
  BY StutterKeeps DEF SInv, IInv, vars
<1>2. /\ StoreTypeOK'
      /\ request'[c] = [at |-> at, version |-> v, copy |-> copy]
      /\ \A d \in Requests : d # c => request'[d] = request[d]
  BY <1>1, RequestStep DEF SInv, StoreTypeOK
<1>3. (\A d \in Requests : IsCurrent(request[d]))'
  <2> SUFFICES ASSUME NEW d \in Requests PROVE IsCurrent(request[d])'
    OBVIOUS
  <2>1. IsCurrent(request'[d])
    BY <1>2 DEF SInv
  <2> QED BY <2>1 DEF IsCurrent
<1> QED BY <1>1, <1>2, <1>3 DEF SInv

\* The four reads of findByNumber.
LEMMA ReadKeeps ==
  ASSUME SInv, NEW c \in Requests, Read(c)
  PROVE  SInv' /\ UNCHANGED vars
<1>1. /\ IsWorkOrder(wo) /\ IsWorkOrder(request[c].copy)
      /\ version \in Nat /\ request[c].version \in 0 .. version
      /\ request[c] = [at |-> request[c].at, version |-> request[c].version,
                       copy |-> request[c].copy]
      /\ IsCurrent(request[c])
  BY MaxVersionAssumption DEF SInv, StoreTypeOK, TypeOK
<1>2. CASE ReadRow(c)
  <2> DEFINE copy == RowOf(wo)
  <2>1. /\ IsRecord(copy) /\ SameRow(copy, wo)
        /\ copy.services = [s \in Services |-> Absent]
        /\ copy.parts = [p \in Parts |-> NoPart] /\ copy.budgets = << >>
    BY DEF RowOf, Opened, Is, IsRecord, SameRow
  <2> HIDE DEF copy
  <2>2. IsWorkOrder(copy)
    <3>1. /\ copy.status \in WorkOrderStatus /\ copy.mechanic \in Users \cup {NoUser}
          /\ copy.discount \in Nat
      BY <1>1, <2>1, Columns DEF SameRow
    <3>2. copy.executionStarted \in BOOLEAN
      <4>1. wo.executionStarted \in BOOLEAN /\ copy.executionStarted = wo.executionStarted
        BY <1>1, <2>1, Columns DEF SameRow
      <4> QED BY <4>1, Zenon
    <3> QED BY <2>1, <3>1, <3>2, TypeOfBareRow
  <2>3. IsCurrent([at |-> "row", version |-> version, copy |-> copy])
    BY <2>1 DEF IsCurrent
  <2>4. request' = [request EXCEPT ![c] =
                      [at |-> "row", version |-> version, copy |-> copy]]
    BY <1>2 DEF ReadRow, copy
  <2>5. /\ "row" \in Steps /\ version \in 0 .. version
        /\ UNCHANGED <<wo, links, version>>
    BY <1>1, <1>2 DEF ReadRow, Steps
  <2> QED BY <2>2, <2>3, <2>4, <2>5, ReadStep
<1>3. ASSUME NEW from \in Steps, NEW to \in Steps, NEW copy, IsWorkOrder(copy),
             IsCurrent([at |-> to, version |-> request[c].version, copy |-> copy]),
             ReadNext(c, from, to, copy)
      PROVE  SInv' /\ UNCHANGED vars
  <2>1. request' = [request EXCEPT ![c] =
                      [at |-> to, version |-> request[c].version, copy |-> copy]]
    BY <1>3 DEF ReadNext
  <2> QED BY <1>1, <1>3, <2>1, ReadStep DEF ReadNext
<1>4. CASE ReadServices(c)
  <2> DEFINE copy == [request[c].copy EXCEPT !.services = wo.services]
  <2>1. /\ IsWorkOrder(copy) /\ SameRow(copy, request[c].copy)
        /\ copy.services = wo.services
    BY <1>1 DEF IsWorkOrder, SameRow
  <2>2. request[c].at = "row"
    BY <1>4 DEF ReadServices, ReadNext
  <2>3. IsCurrent([at |-> "services", version |-> request[c].version, copy |-> copy])
    BY <1>1, <2>1, <2>2 DEF IsCurrent, SameRow
  <2> QED BY <1>3, <1>4, <2>1, <2>3 DEF ReadServices, Steps
<1>5. CASE ReadParts(c)
  <2> DEFINE copy == [request[c].copy EXCEPT !.parts = wo.parts]
  <2>1. /\ IsWorkOrder(copy) /\ SameRow(copy, request[c].copy)
        /\ copy.parts = wo.parts /\ copy.services = request[c].copy.services
    BY <1>1 DEF IsWorkOrder, SameRow
  <2>2. request[c].at = "services"
    BY <1>5 DEF ReadParts, ReadNext
  <2>3. IsCurrent([at |-> "parts", version |-> request[c].version, copy |-> copy])
    BY <1>1, <2>1, <2>2 DEF IsCurrent, SameRow
  <2> QED BY <1>3, <1>5, <2>1, <2>3 DEF ReadParts, Steps
<1>6. CASE ReadBudgets(c)
  <2> DEFINE copy == [request[c].copy EXCEPT !.budgets = wo.budgets]
  <2>1. /\ IsWorkOrder(copy) /\ SameRow(copy, request[c].copy)
        /\ copy.budgets = wo.budgets /\ copy.services = request[c].copy.services
        /\ copy.parts = request[c].copy.parts
    BY <1>1 DEF IsWorkOrder, SameRow
  <2>2. request[c].at = "parts"
    BY <1>6 DEF ReadBudgets, ReadNext
  <2>3. IsCurrent([at |-> "loaded", version |-> request[c].version, copy |-> copy])
    BY <1>1, <2>1, <2>2 DEF IsCurrent, SameRow
  <2> QED BY <1>3, <1>6, <2>1, <2>3 DEF ReadBudgets, Steps
<1> QED BY <1>2, <1>4, <1>5, <1>6 DEF Read

\* Giving up writes nothing.
LEMMA GiveUpKeeps ==
  ASSUME SInv, NEW c \in Requests, GiveUp(c)
  PROVE  SInv' /\ UNCHANGED vars
<1>1. IsCurrent(Idle)
  BY DEF IsCurrent, Idle
<1>2. 0 \in 0 .. version
  BY MaxVersionAssumption DEF SInv, StoreTypeOK
<1> QED BY <1>1, <1>2, OpenedIsWorkOrder, ReadStep DEF GiveUp, Idle, Steps

-------------------------------------------------------------------------------
(* Saves. *)

\* Every save is one command on the stored work order.
LEMMA SaveIsCommand ==
  ASSUME SInv, NEW c \in Requests, Save(c)
  PROVE  Next /\ Lands(c)
<1>1. Lands(c)
  BY DEF Save, SaveEdit, SaveDiagnose, SaveQuote, SaveDecide, SaveMoveParts, SaveClose
<1>2. request[c].copy = wo
  BY <1>1, LoadedIsStored DEF Lands
<1>3. Next
  BY <1>2 DEF Save, SaveEdit, SaveDiagnose, SaveQuote, SaveDecide, SaveMoveParts, SaveClose,
              Next, Edit, Diagnose, Quote, Decide, MoveParts, Close
<1> QED BY <1>1, <1>3

\* A save moves the version past every copy read before it.
LEMMA SaveKeeps ==
  ASSUME SInv, NEW c \in Requests, Save(c)
  PROVE  SInv'
<1>1. Next /\ Lands(c)
  BY SaveIsCommand
<1>2. IInv' /\ TypeOK'
  BY <1>1, EditKeeps, DiagnoseKeeps, MovePartsKeeps, CloseKeeps, DecideKeeps, QuoteKeeps
     DEF Next, SInv, IInv
<1>3. version \in Nat /\ version' = version + 1 /\ version' \in 0 .. MaxVersion
  BY <1>1, MaxVersionAssumption DEF SInv, StoreTypeOK, Lands
<1>4. /\ StoreTypeOK'
      /\ request'[c] = Idle
      /\ \A d \in Requests : d # c => request'[d] = request[d]
  <2>1. request' = [request EXCEPT ![c] = [at |-> "idle", version |-> 0, copy |-> Opened]]
    BY <1>1 DEF Lands, Idle
  <2>2. /\ "idle" \in Steps /\ 0 \in 0 .. version' /\ version <= version'
        /\ version' \in 0 .. MaxVersion
    BY <1>3 DEF Steps
  <2>3. StoreTypeOK
    BY DEF SInv
  <2> QED BY <1>2, <2>1, <2>2, <2>3, OpenedIsWorkOrder, RequestStep DEF Idle
<1>5. \A d \in Requests : request'[d].version < version'
  <2> TAKE d \in Requests
  <2>1. CASE d = c
    BY <1>3, <1>4, <2>1 DEF Idle
  <2>2. CASE d # c
    BY <1>3, <1>4, <2>2 DEF SInv, StoreTypeOK
  <2> QED BY <2>1, <2>2
<1>6. (\A d \in Requests : IsCurrent(request[d]))'
  <2> SUFFICES ASSUME NEW d \in Requests PROVE IsCurrent(request[d])'
    OBVIOUS
  <2>1. request'[d].version # version'
    BY <1>3, <1>4, <1>5 DEF StoreTypeOK
  <2> QED BY <2>1 DEF IsCurrent
<1> QED BY <1>2, <1>4, <1>6 DEF SInv

-------------------------------------------------------------------------------
(* The theorems. *)

\* Before the first request, nothing has been read.
LEMMA StoreInitHolds ==
  ASSUME StoreInit
  PROVE  SInv
<1>1. IInv /\ TypeOK
  BY InitHolds DEF StoreInit, IInv
<1>2. \A c \in Requests : request[c] = Idle
  BY DEF StoreInit
<1>3. StoreTypeOK
  BY <1>1, <1>2, OpenedIsWorkOrder, MaxVersionAssumption
     DEF StoreInit, StoreTypeOK, Idle, Steps
<1>4. \A c \in Requests : IsCurrent(request[c])
  BY <1>2 DEF IsCurrent, Idle
<1> QED BY <1>1, <1>3, <1>4 DEF SInv

\* A step of something else changes neither the rows nor the requests.
LEMMA StoreStutterKeeps ==
  ASSUME SInv, UNCHANGED storeVars
  PROVE  SInv' /\ UNCHANGED vars
<1>1. IInv' /\ TypeOK' /\ UNCHANGED vars
  BY StutterKeeps DEF SInv, IInv, storeVars, vars
<1>2. StoreTypeOK'
  BY <1>1 DEF SInv, StoreTypeOK, storeVars
<1>3. (\A c \in Requests : IsCurrent(request[c]))'
  BY DEF SInv, storeVars, vars, IsCurrent, SameRow
<1> QED BY <1>1, <1>2, <1>3 DEF SInv

\* The inductive invariant of the store.
THEOREM StoreInvariance == StoreSpec => []SInv
<1>1. StoreInit => SInv
  BY StoreInitHolds
<1>2. SInv /\ [StoreNext]_storeVars => SInv'
  BY ReadKeeps, SaveKeeps, GiveUpKeeps, StoreStutterKeeps DEF StoreNext
<1> QED BY <1>1, <1>2, PTL DEF StoreSpec

\* The rows and the copies keep their shape.
THEOREM StoreTypeCorrect == StoreSpec => []StoreTypeOK
<1>1. SInv => StoreTypeOK
  BY DEF SInv
<1> QED BY <1>1, StoreInvariance, PTL

\* No torn read can be saved, however many requests there are.
THEOREM CurrentCopies == StoreSpec => []CurrentCopyIsStored
<1>1. SInv => CurrentCopyIsStored
  BY LoadedIsStored DEF CurrentCopyIsStored
<1> QED BY <1>1, StoreInvariance, PTL

\* The store implements the work order whose commands run one at a time.
THEOREM StoreImplementsWorkOrder == StoreSpec => ImplementsWorkOrder
<1>1. StoreInit => Init
  BY DEF StoreInit
<1>2. SInv /\ [StoreNext]_storeVars => [Next]_vars
  BY ReadKeeps, SaveIsCommand, GiveUpKeeps, StoreStutterKeeps DEF StoreNext
<1> QED BY <1>1, <1>2, StoreInvariance, PTL DEF StoreSpec, Spec, ImplementsWorkOrder

-------------------------------------------------------------------------------
(* The rows; their inductive invariant. *)

\* Every item is absent, a draft, or attached to a round there is; an absent
\* part is what a load makes of no row.
ItemsHaveRounds(w) ==
  /\ \A s \in Services : w.services[s] \in {Absent, Draft} \cup DOMAIN w.budgets
  /\ \A p \in Parts : /\ w.parts[p].round \in {Absent, Draft} \cup DOMAIN w.budgets
                      /\ w.parts[p].round = Absent => w.parts[p] = NoPart

\* What a save relies on to give no key twice: a command adds at most one
\* service, one part and one round, and takes no round away.
NewService(w, v, s) == w.services[s] = Absent /\ v.services[s] # Absent
NewPart(w, v, p) == w.parts[p].round = Absent /\ v.parts[p].round # Absent
AddsAtMostOne(w, v) ==
  /\ \A s, t \in Services : NewService(w, v, s) /\ NewService(w, v, t) => s = t
  /\ \A p, q \in Parts : NewPart(w, v, p) /\ NewPart(w, v, q) => p = q
  /\ DOMAIN w.budgets \subseteq DOMAIN v.budgets
  /\ \A r, i \in DOMAIN v.budgets \ DOMAIN w.budgets : r = i

\* The keys of a table: none twice, and the next one is new.
Keyed(table, next) ==
  /\ next \in Nat \ {0}
  /\ \A row \in table : row.key \in Nat \ {0} /\ row.key < next
  /\ \A a, b \in table : a.key = b.key => a = b

\* The key an item's row has for the round of the item.
Names(key, round) ==
  IF round = Draft THEN key = Null ELSE \E b \in budgetRows : b.key = key /\ b.round = round

BudgetsStored ==
  /\ Keyed(budgetRows, nextKey.budgets)
  /\ \A a, b \in budgetRows : a.round = b.round => a = b
  /\ \A r \in DOMAIN wo.budgets : \E b \in budgetRows : b.round = r
  /\ \A b \in budgetRows :
       /\ b.round \in DOMAIN wo.budgets
       /\ b.status = wo.budgets[b.round].status /\ b.total = wo.budgets[b.round].total
       /\ b.generation = wo.budgets[b.round].generation
       /\ b.decision = wo.budgets[b.round].decision

ServicesStored ==
  /\ Keyed(serviceRows, nextKey.services)
  /\ \A a, b \in serviceRows : a.item = b.item => a = b
  /\ \A s \in Services : wo.services[s] # Absent => \E row \in serviceRows : row.item = s
  /\ \A row \in serviceRows :
       /\ row.item \in Services /\ wo.services[row.item] # Absent
       /\ Names(row.budget, wo.services[row.item])

PartsStored ==
  /\ Keyed(partRows, nextKey.parts)
  /\ \A a, b \in partRows : a.item = b.item => a = b
  /\ \A p \in Parts : wo.parts[p].round # Absent => \E row \in partRows : row.item = p
  /\ \A row \in partRows :
       /\ row.item \in Parts /\ wo.parts[row.item].round # Absent
       /\ Names(row.budget, wo.parts[row.item].round)
       /\ row.planned = wo.parts[row.item].planned
       /\ row.withdrawn = wo.parts[row.item].withdrawn

KeysAreBounded ==
  /\ DOMAIN nextKey = {"services", "parts", "budgets"}
  /\ \A table \in DOMAIN nextKey : nextKey[table] <= MaxKey + 1

\* The inductive invariant of the rows.
RowsInv ==
  /\ IInv /\ ItemsHaveRounds(wo)
  /\ order = OrderRow(wo) /\ BudgetsStored /\ ServicesStored /\ PartsStored
  /\ KeysAreBounded

-------------------------------------------------------------------------------
\* A row that stays keeps its key, and a new row takes one nobody had.
LEMMA KeysGoOn ==
  ASSUME NEW table, NEW next, NEW n, NEW m, NEW entity,
         Keyed(table, n), m = After(n, next),
         \A a, b \in table : entity[a] = entity[b] => a = b,
         \A a, b \in next : entity[a] = entity[b] => a = b,
         \A row \in next : \/ \E was \in table : entity[was] = entity[row] /\ row.key = was.key
                           \/ /\ \A was \in table : entity[was] # entity[row]
                              /\ row.key = n,
         \A a, b \in next : a.key = n /\ b.key = n => entity[a] = entity[b]
  PROVE  /\ Keyed(next, m) /\ n <= m
         /\ \A was \in table, row \in next : row.key = was.key <=> entity[row] = entity[was]
<1>1. /\ n \in Nat \ {0} /\ \A was \in table : was.key \in Nat \ {0} /\ was.key < n
      /\ \A a, b \in table : a.key = b.key => a = b
  BY DEF Keyed
<1>2. /\ m \in Nat \ {0} /\ n <= m /\ m <= n + 1
      /\ (\E row \in next : row.key = n) => m = n + 1
  BY <1>1 DEF After
<1>3. ASSUME NEW row \in next
      PROVE  row.key \in Nat \ {0} /\ row.key < m /\ (row.key < n \/ row.key = n)
  BY <1>1, <1>2
<1>4. ASSUME NEW a \in next, NEW b \in next, a.key = b.key
      PROVE  a = b
  <2>1. CASE a.key = n
    <3>1. a.key = n /\ b.key = n
      BY <1>4, <2>1
    <3>2. entity[a] = entity[b]
      BY <3>1
    <3> QED BY <3>2
  <2>2. CASE a.key # n
    <3>1. PICK x \in table : entity[x] = entity[a] /\ a.key = x.key
      BY <2>2
    <3>2. PICK y \in table : entity[y] = entity[b] /\ b.key = y.key
      BY <1>4, <2>2
    <3>3. x = y
      <4>1. x.key = y.key
        BY <1>4, <3>1, <3>2
      <4> QED BY <1>1, <4>1
    <3>4. entity[a] = entity[b]
      BY <3>1, <3>2, <3>3
    <3> QED BY <3>4
  <2> QED BY <2>1, <2>2
<1>5. ASSUME NEW was \in table, NEW row \in next
      PROVE  row.key = was.key <=> entity[row] = entity[was]
  <2>1. was.key # n
    BY <1>1
  <2>2. CASE \A x \in table : entity[x] # entity[row]
    BY <2>1, <2>2
  <2>3. CASE \E x \in table : entity[x] = entity[row] /\ row.key = x.key
    BY <1>1, <2>3
  <2> QED BY <2>2, <2>3
<1> QED BY <1>2, <1>3, <1>4, <1>5 DEF Keyed

\* What is not there cannot move: a batch names only parts that are.
LEMMA MovesNothingAbsent ==
  ASSUME NEW w, NEW v, IsWorkOrder(w), \A r \in DOMAIN w.budgets : r # Absent,
         WithdrawParts(w, v) \/ ReturnParts(w, v)
  PROVE  \A p \in Parts : w.parts[p].round = Absent => v.parts[p] = w.parts[p]
<1>1. CASE WithdrawParts(w, v)
  <2>1. PICK lines \in Batches :
          /\ \A p \in DOMAIN lines : w.parts[p].round \in ApprovedRounds(w)
          /\ v = [w EXCEPT !.parts = [p \in Parts |->
                    IF p \in DOMAIN lines
                    THEN [w.parts[p] EXCEPT !.withdrawn = @ + lines[p]] ELSE w.parts[p]]]
    BY <1>1 DEF WithdrawParts, Withdrawable
  <2>2. \A p \in DOMAIN lines : w.parts[p].round # Absent
    BY <2>1 DEF ApprovedRounds
  <2> QED BY <2>1, <2>2 DEF IsWorkOrder
<1>2. CASE ReturnParts(w, v)
  BY <1>2 DEF ReturnParts, IsWorkOrder
<1> QED BY <1>1, <1>2

\* The items and the rounds a command changes.  The guards of the commands on
\* items allow one item at a time, and a round is quoted at the end of the list.
LEMMA CommandAdds ==
  ASSUME IInv, ItemsHaveRounds(wo), Next
  PROVE  AddsAtMostOne(wo, wo') /\ ItemsHaveRounds(wo')
<1>1. /\ IsWorkOrder(wo) /\ wo.services \in [Services -> ItemRound]
      /\ wo.parts \in [Parts -> PartItem] /\ DOMAIN wo.budgets \subseteq Nat \ {0}
  BY Columns DEF IInv, TypeOK, IsWorkOrder, IsSequence
<1>2. CASE AddService(wo, wo')
  <2>1. PICK s \in Services : /\ wo.services[s] = Absent
                              /\ wo'.services = [wo.services EXCEPT ![s] = Draft]
                              /\ wo'.parts = wo.parts /\ wo'.budgets = wo.budgets
    <3>1. PICK s \in Services :
            /\ wo.services[s] = Absent
            /\ Is(wo', wo.status, wo.mechanic, [wo.services EXCEPT ![s] = Draft], wo.parts,
                  wo.budgets, wo.executionStarted, wo.discount, wo.charged)
      BY <1>1, <1>2, AddServiceEffect
    <3> QED BY <3>1 DEF Is
  <2>2. \A t \in Services : wo'.services[t] = IF t = s THEN Draft ELSE wo.services[t]
    BY <1>1, <2>1
  <2> QED BY <2>1, <2>2 DEF ItemsHaveRounds, AddsAtMostOne, NewService, NewPart
<1>3. CASE PlanPart(wo, wo')
  <2>1. PICK p \in Parts, q \in 1 .. MaxPlanned :
          /\ wo.parts[p].round = Absent
          /\ wo'.parts = [wo.parts EXCEPT ![p] = [round |-> Draft, planned |-> q, withdrawn |-> 0]]
          /\ wo'.services = wo.services /\ wo'.budgets = wo.budgets
    <3>1. PICK p \in Parts, q \in 1 .. MaxPlanned :
            /\ wo.parts[p].round = Absent
            /\ Is(wo', wo.status, wo.mechanic, wo.services,
                  [wo.parts EXCEPT ![p] = [round |-> Draft, planned |-> q, withdrawn |-> 0]],
                  wo.budgets, wo.executionStarted, wo.discount, wo.charged)
      BY <1>1, <1>3, PlanPartEffect
    <3> QED BY <3>1 DEF Is
  <2>2. /\ wo'.parts[p].round = Draft
        /\ \A t \in Parts : t # p => wo'.parts[t] = wo.parts[t]
    BY <1>1, <2>1
  <2>3. Draft # Absent
    BY DEF Draft, Absent
  <2> QED BY <2>1, <2>2, <2>3 DEF ItemsHaveRounds, AddsAtMostOne, NewService, NewPart
<1>4. CASE RemoveItem(wo, wo')
  <2>1. /\ wo'.budgets = wo.budgets
        /\ \A s \in Services : wo'.services[s] \in {Absent, wo.services[s]}
        /\ \A p \in Parts : wo'.parts[p] \in {NoPart, wo.parts[p]}
    <3>1. CASE \E s \in Services :
                 Is(wo', wo.status, wo.mechanic, [wo.services EXCEPT ![s] = Absent], wo.parts,
                    wo.budgets, wo.executionStarted, wo.discount, wo.charged)
      BY <1>1, <3>1 DEF Is
    <3>2. CASE \E p \in Parts :
                 Is(wo', wo.status, wo.mechanic, wo.services, [wo.parts EXCEPT ![p] = NoPart],
                    wo.budgets, wo.executionStarted, wo.discount, wo.charged)
      BY <1>1, <3>2 DEF Is
    <3> QED BY <1>1, <1>4, <3>1, <3>2, RemoveItemEffect
  <2>2. NoPart.round = Absent
    BY DEF NoPart
  <2> QED BY <2>1, <2>2 DEF ItemsHaveRounds, AddsAtMostOne, NewService, NewPart
<1>5. CASE AssignMechanic(wo, wo') \/ Diagnose \/ Close
  <2>1. wo'.services = wo.services /\ wo'.parts = wo.parts /\ wo'.budgets = wo.budgets
    <3>1. CASE AssignMechanic(wo, wo')
      BY <1>1, <3>1, AssignMechanicEffect, RecordOf
    <3>2. CASE Diagnose
      BY <1>1, <3>2, StartDiagnosisEffect, RecordOf DEF Diagnose
    <3>3. CASE Close
      BY <1>1, <3>3, CloseEffect, RecordOf DEF Close
    <3> QED BY <1>5, <3>1, <3>2, <3>3
  <2> QED BY <2>1 DEF ItemsHaveRounds, AddsAtMostOne, NewService, NewPart
<1>6. CASE MoveParts
  <2>1. /\ wo'.services = wo.services /\ wo'.budgets = wo.budgets
        /\ \A p \in Parts : wo'.parts[p].round = wo.parts[p].round
    BY <1>1, <1>6, WithdrawPartsEffect, ReturnPartsEffect, RecordOf DEF MoveParts, PartsMoved
  <2>2. \A p \in Parts : wo.parts[p].round = Absent => wo'.parts[p] = wo.parts[p]
    <3>1. \A r \in DOMAIN wo.budgets : r # Absent
      BY <1>1 DEF Absent
    <3> QED BY <1>1, <1>6, <3>1, MovesNothingAbsent DEF MoveParts
  <2> QED BY <2>1, <2>2 DEF ItemsHaveRounds, AddsAtMostOne, NewService, NewPart
<1>7. CASE Decide
  <2>1. PICK d : \E r \in PendingRounds(wo), status \in {"APPROVED", "REJECTED"} :
                   DecidedWorkOrder(wo, wo', r, status, d)
    BY <1>1, <1>7, DecideEffect
  <2>2. /\ wo'.services = wo.services /\ wo'.parts = wo.parts
        /\ DOMAIN wo'.budgets = DOMAIN wo.budgets
    BY <2>1 DEF DecidedWorkOrder, Is
  <2> QED BY <2>2 DEF ItemsHaveRounds, AddsAtMostOne, NewService, NewPart
<1>8. CASE Quote
  <2>1. PICK r, generation : Quoted(wo, wo', r, generation)
    BY <1>8, SubmitSupplementaryBudgetEffect, CompleteDiagnosisEffect DEF Quote
  <2>2. wo'.services = NewServices(wo, r) /\ wo'.parts = NewParts(wo, r)
    BY <2>1, RecordOf DEF Quoted
  <2>3. /\ r \in Nat \ {0} /\ r \in DOMAIN wo'.budgets /\ DOMAIN wo.budgets \subseteq DOMAIN wo'.budgets
        /\ \A i \in DOMAIN wo'.budgets : i # r => i \in DOMAIN wo.budgets
    BY <2>1 DEF Quoted
  <2>4. Draft # Absent /\ r # Absent
    BY <2>3 DEF Draft, Absent
  <2>5. \A s \in Services : wo'.services[s] = IF wo.services[s] \in {Draft, r} THEN r
                                              ELSE wo.services[s]
    BY <2>2 DEF NewServices, EligibleServices
  <2>6. \A p \in Parts : IF wo.parts[p].round \in {Draft, r} THEN wo'.parts[p].round = r
                         ELSE wo'.parts[p] = wo.parts[p]
    BY <1>1, <2>2 DEF NewParts, EligibleParts, PartItem
  <2>7. ItemsHaveRounds(wo')
    BY <2>3, <2>4, <2>5, <2>6 DEF ItemsHaveRounds
  <2>8. AddsAtMostOne(wo, wo')
    BY <2>3, <2>4, <2>5, <2>6 DEF AddsAtMostOne, NewService, NewPart
  <2> QED BY <2>7, <2>8
<1> QED BY <1>2, <1>3, <1>4, <1>5, <1>6, <1>7, <1>8 DEF Next, Edit

-------------------------------------------------------------------------------
\* An entity that has a row keeps its key, another takes the next one.
LEMMA KeyIs ==
  ASSUME NEW S, NEW fresh, NEW key, key = KeyOf(S, fresh)
  PROVE  (S = {} /\ key = fresh) \/ \E was \in S : key = was.key
  BY DEF KeyOf

\* replaceBudgets: every round of the saved work order has its one row.
LEMMA BudgetsSaved ==
  ASSUME BudgetsStored, AddsAtMostOne(wo, wo'), SaveRows(wo')
  PROVE  /\ BudgetsStored' /\ nextKey.budgets <= nextKey'.budgets
         /\ \A was \in budgetRows, row \in budgetRows' :
              row.key = was.key <=> row.round = was.round
<1> DEFINE n == nextKey.budgets
<1>1. /\ Keyed(budgetRows, n) /\ \A a, b \in budgetRows : a.round = b.round => a = b
      /\ \A r \in DOMAIN wo.budgets : \E b \in budgetRows : b.round = r
      /\ \A b \in budgetRows : b.round \in DOMAIN wo.budgets
  BY DEF BudgetsStored
<1>2. /\ budgetRows' = BudgetRowsOf(wo') /\ nextKey'.budgets = After(n, budgetRows')
  BY DEF SaveRows
<1> DEFINE key(r) == KeyOf({b \in budgetRows : b.round = r}, n)
           Row(r) == [key |-> key(r), round |-> r, status |-> wo'.budgets[r].status,
                      total |-> wo'.budgets[r].total,
                      generation |-> wo'.budgets[r].generation,
                      decision |-> wo'.budgets[r].decision]
<1>a. budgetRows' = {Row(r) : r \in DOMAIN wo'.budgets}
  BY <1>2 DEF BudgetRowsOf
<1>b. \A r : \/ \E was \in budgetRows : was.round = r /\ key(r) = was.key
             \/ (\A was \in budgetRows : was.round # r) /\ key(r) = n
  <2> TAKE r
  <2>1. PICK S : S = {b \in budgetRows : b.round = r}
    OBVIOUS
  <2>2. key(r) = KeyOf(S, n)
    BY <2>1
  <2> HIDE DEF key, n
  <2>3. (S = {} /\ key(r) = n) \/ \E was \in S : key(r) = was.key
    BY <2>2, KeyIs
  <2> QED BY <2>1, <2>3
<1> HIDE DEF key
<1>c. \A r : /\ Row(r).key = key(r) /\ Row(r).round = r /\ Row(r).status = wo'.budgets[r].status
             /\ Row(r).total = wo'.budgets[r].total
             /\ Row(r).generation = wo'.budgets[r].generation
             /\ Row(r).decision = wo'.budgets[r].decision
  OBVIOUS
<1> HIDE DEF Row
<1>3. ASSUME NEW row \in budgetRows'
      PROVE  /\ row.round \in DOMAIN wo'.budgets /\ row = Row(row.round)
             /\ row.key = key(row.round)
             /\ row.status = wo'.budgets[row.round].status
             /\ row.total = wo'.budgets[row.round].total
             /\ row.generation = wo'.budgets[row.round].generation
             /\ row.decision = wo'.budgets[row.round].decision
  BY <1>a, <1>c
<1>4. \A r \in DOMAIN wo'.budgets : \E row \in budgetRows' : row.round = r
  BY <1>a, <1>c
<1>5. \A a, b \in budgetRows' : a.round = b.round => a = b
  BY <1>3
<1>6. ASSUME NEW row \in budgetRows'
      PROVE  \/ \E was \in budgetRows : was.round = row.round /\ row.key = was.key
             \/ (\A was \in budgetRows : was.round # row.round) /\ row.key = n
  BY <1>3, <1>b
<1>7. \A was \in budgetRows : was.key # n
  BY <1>1 DEF Keyed
<1>8. ASSUME NEW a \in budgetRows', NEW b \in budgetRows', a.key = n, b.key = n
      PROVE  a.round = b.round
  <2>1. a.round \notin DOMAIN wo.budgets /\ b.round \notin DOMAIN wo.budgets
    BY <1>1, <1>6, <1>7, <1>8
  <2> QED BY <1>3, <2>1 DEF AddsAtMostOne
<1>9. PICK entity : entity = [row \in budgetRows \cup budgetRows' |-> row.round]
  OBVIOUS
<1> HIDE DEF n
<1>10. \A row \in budgetRows \cup budgetRows' : entity[row] = row.round
  BY <1>9
<1>11. /\ \A a, b \in budgetRows : entity[a] = entity[b] => a = b
       /\ \A a, b \in budgetRows' : entity[a] = entity[b] => a = b
       /\ \A row \in budgetRows' :
            \/ \E was \in budgetRows : entity[was] = entity[row] /\ row.key = was.key
            \/ (\A was \in budgetRows : entity[was] # entity[row]) /\ row.key = n
       /\ \A a, b \in budgetRows' : a.key = n /\ b.key = n => entity[a] = entity[b]
  BY <1>1, <1>5, <1>6, <1>8, <1>10
<1>12. /\ Keyed(budgetRows', nextKey'.budgets) /\ n <= nextKey'.budgets
       /\ \A was \in budgetRows, row \in budgetRows' :
            row.key = was.key <=> entity[row] = entity[was]
  BY <1>1, <1>2, <1>11, KeysGoOn
<1>13. BudgetsStored'
  BY <1>3, <1>4, <1>5, <1>12 DEF BudgetsStored
<1> QED BY <1>10, <1>12, <1>13 DEF n

\* internalIdByRound: the key a saved item gets is that of its round.
LEMMA BudgetKeyNames ==
  ASSUME BudgetsStored', NEW round \in {Draft} \cup DOMAIN wo'.budgets,
         NEW key, key = BudgetKey(round)
  PROVE  IF round = Draft THEN key = Null ELSE \E b \in budgetRows' : b.key = key /\ b.round = round
<1>1. CASE round = Draft
  BY <1>1 DEF BudgetKey
<1>2. CASE round # Draft
  <2>1. \E b \in budgetRows' : b.round = round
    BY <1>2 DEF BudgetsStored
  <2> QED BY <1>2, <2>1 DEF BudgetKey
<1> QED BY <1>1, <1>2

\* replaceServiceItems: every item there is has its one row, which names its round.
LEMMA ServicesSaved ==
  ASSUME ServicesStored, AddsAtMostOne(wo, wo'), ItemsHaveRounds(wo'), SaveRows(wo'), BudgetsStored'
  PROVE  /\ ServicesStored' /\ nextKey.services <= nextKey'.services
         /\ \A was \in serviceRows, row \in serviceRows' : row.key = was.key <=> row.item = was.item
<1> DEFINE n == nextKey.services
           Saved == {x \in Services : wo'.services[x] # Absent}
           key(x) == KeyOf({row \in serviceRows : row.item = x}, n)
           Row(x) == [key |-> key(x), item |-> x, budget |-> BudgetKey(wo'.services[x])]
<1>1. /\ Keyed(serviceRows, n) /\ \A a, b \in serviceRows : a.item = b.item => a = b
      /\ \A x \in Services : wo.services[x] # Absent => \E row \in serviceRows : row.item = x
  BY DEF ServicesStored
<1>2. serviceRows' = {Row(x) : x \in Saved} /\ nextKey'.services = After(n, serviceRows')
  BY DEF SaveRows, ServiceRowsOf
<1>3. \A x : \/ \E was \in serviceRows : was.item = x /\ key(x) = was.key
             \/ (\A was \in serviceRows : was.item # x) /\ key(x) = n
  <2> TAKE x
  <2>1. PICK S : S = {row \in serviceRows : row.item = x}
    OBVIOUS
  <2>2. key(x) = KeyOf(S, n)
    BY <2>1
  <2> HIDE DEF key, n
  <2>3. (S = {} /\ key(x) = n) \/ \E was \in S : key(x) = was.key
    BY <2>2, KeyIs
  <2> QED BY <2>1, <2>3
<1> HIDE DEF key
<1>4. \A x : /\ Row(x).key = key(x) /\ Row(x).item = x
             /\ Row(x).budget = BudgetKey(wo'.services[x])
  OBVIOUS
<1> HIDE DEF Row
<1>5. ASSUME NEW row \in serviceRows'
      PROVE  /\ row.item \in Services /\ wo'.services[row.item] # Absent
             /\ row = Row(row.item) /\ row.key = key(row.item)
             /\ row.budget = BudgetKey(wo'.services[row.item])
  BY <1>2, <1>4
<1>6. ASSUME NEW row \in serviceRows'
      PROVE  Names(row.budget, wo.services[row.item])'
  <2>1. PICK round \in {Draft} \cup DOMAIN wo'.budgets : round = wo'.services[row.item]
    BY <1>5 DEF ItemsHaveRounds
  <2>2. row.budget = BudgetKey(round)
    BY <1>5, <2>1
  <2>3. IF round = Draft THEN row.budget = Null
        ELSE \E b \in budgetRows' : b.key = row.budget /\ b.round = round
    BY <2>2, BudgetKeyNames
  <2> QED BY <2>1, <2>3 DEF Names
<1>7. \A x \in Services : wo'.services[x] # Absent => \E row \in serviceRows' : row.item = x
  BY <1>2, <1>4
<1>8. \A a, b \in serviceRows' : a.item = b.item => a = b
  BY <1>5
<1>9. ASSUME NEW row \in serviceRows'
      PROVE  \/ \E was \in serviceRows : was.item = row.item /\ row.key = was.key
             \/ (\A was \in serviceRows : was.item # row.item) /\ row.key = n
  BY <1>3, <1>5
<1>10. \A was \in serviceRows : was.key # n
  BY <1>1 DEF Keyed
<1>11. ASSUME NEW a \in serviceRows', NEW b \in serviceRows', a.key = n, b.key = n
       PROVE  a.item = b.item
  <2>1. \A was \in serviceRows : was.item # a.item /\ was.item # b.item
    BY <1>9, <1>10, <1>11
  <2>2. NewService(wo, wo', a.item) /\ NewService(wo, wo', b.item)
    BY <1>1, <1>5, <2>1 DEF NewService
  <2> QED BY <1>5, <2>2 DEF AddsAtMostOne
<1>12. PICK entity : entity = [row \in serviceRows \cup serviceRows' |-> row.item]
  OBVIOUS
<1> HIDE DEF n
<1>13. \A row \in serviceRows \cup serviceRows' : entity[row] = row.item
  BY <1>12
<1>14. /\ \A a, b \in serviceRows : entity[a] = entity[b] => a = b
       /\ \A a, b \in serviceRows' : entity[a] = entity[b] => a = b
       /\ \A row \in serviceRows' :
            \/ \E was \in serviceRows : entity[was] = entity[row] /\ row.key = was.key
            \/ (\A was \in serviceRows : entity[was] # entity[row]) /\ row.key = n
       /\ \A a, b \in serviceRows' : a.key = n /\ b.key = n => entity[a] = entity[b]
  BY <1>1, <1>8, <1>9, <1>11, <1>13
<1>15. /\ Keyed(serviceRows', nextKey'.services) /\ n <= nextKey'.services
       /\ \A was \in serviceRows, row \in serviceRows' : row.key = was.key <=> entity[row] = entity[was]
  BY <1>1, <1>2, <1>14, KeysGoOn
<1>16. ServicesStored'
  BY <1>5, <1>6, <1>7, <1>8, <1>15 DEF ServicesStored
<1> QED BY <1>13, <1>15, <1>16 DEF n

\* replacePartItems: every item there is has its one row, which names its round.
LEMMA PartsSaved ==
  ASSUME PartsStored, AddsAtMostOne(wo, wo'), ItemsHaveRounds(wo'), SaveRows(wo'), BudgetsStored'
  PROVE  /\ PartsStored' /\ nextKey.parts <= nextKey'.parts
         /\ \A was \in partRows, row \in partRows' : row.key = was.key <=> row.item = was.item
<1> DEFINE n == nextKey.parts
           Saved == {x \in Parts : wo'.parts[x].round # Absent}
           key(x) == KeyOf({row \in partRows : row.item = x}, n)
           Row(x) == [key |-> key(x), item |-> x, budget |-> BudgetKey(wo'.parts[x].round),
                      planned |-> wo'.parts[x].planned, withdrawn |-> wo'.parts[x].withdrawn]
<1>1. /\ Keyed(partRows, n) /\ \A a, b \in partRows : a.item = b.item => a = b
      /\ \A x \in Parts : wo.parts[x].round # Absent => \E row \in partRows : row.item = x
  BY DEF PartsStored
<1>2. partRows' = {Row(x) : x \in Saved} /\ nextKey'.parts = After(n, partRows')
  BY DEF SaveRows, PartRowsOf
<1>3. \A x : \/ \E was \in partRows : was.item = x /\ key(x) = was.key
             \/ (\A was \in partRows : was.item # x) /\ key(x) = n
  <2> TAKE x
  <2>1. PICK S : S = {row \in partRows : row.item = x}
    OBVIOUS
  <2>2. key(x) = KeyOf(S, n)
    BY <2>1
  <2> HIDE DEF key, n
  <2>3. (S = {} /\ key(x) = n) \/ \E was \in S : key(x) = was.key
    BY <2>2, KeyIs
  <2> QED BY <2>1, <2>3
<1> HIDE DEF key
<1>4. \A x : /\ Row(x).key = key(x) /\ Row(x).item = x
             /\ Row(x).budget = BudgetKey(wo'.parts[x].round)
             /\ Row(x).planned = wo'.parts[x].planned /\ Row(x).withdrawn = wo'.parts[x].withdrawn
  OBVIOUS
<1> HIDE DEF Row
<1>5. ASSUME NEW row \in partRows'
      PROVE  /\ row.item \in Parts /\ wo'.parts[row.item].round # Absent
             /\ row = Row(row.item) /\ row.key = key(row.item)
             /\ row.budget = BudgetKey(wo'.parts[row.item].round)
             /\ row.planned = wo'.parts[row.item].planned
             /\ row.withdrawn = wo'.parts[row.item].withdrawn
  BY <1>2, <1>4
<1>6. ASSUME NEW row \in partRows'
      PROVE  Names(row.budget, wo.parts[row.item].round)'
  <2>1. PICK round \in {Draft} \cup DOMAIN wo'.budgets : round = wo'.parts[row.item].round
    BY <1>5 DEF ItemsHaveRounds
  <2>2. row.budget = BudgetKey(round)
    BY <1>5, <2>1
  <2>3. IF round = Draft THEN row.budget = Null
        ELSE \E b \in budgetRows' : b.key = row.budget /\ b.round = round
    BY <2>2, BudgetKeyNames
  <2> QED BY <2>1, <2>3 DEF Names
<1>7. \A x \in Parts : wo'.parts[x].round # Absent => \E row \in partRows' : row.item = x
  BY <1>2, <1>4
<1>8. \A a, b \in partRows' : a.item = b.item => a = b
  BY <1>5
<1>9. ASSUME NEW row \in partRows'
      PROVE  \/ \E was \in partRows : was.item = row.item /\ row.key = was.key
             \/ (\A was \in partRows : was.item # row.item) /\ row.key = n
  BY <1>3, <1>5
<1>10. \A was \in partRows : was.key # n
  BY <1>1 DEF Keyed
<1>11. ASSUME NEW a \in partRows', NEW b \in partRows', a.key = n, b.key = n
       PROVE  a.item = b.item
  <2>1. \A was \in partRows : was.item # a.item /\ was.item # b.item
    BY <1>9, <1>10, <1>11
  <2>2. NewPart(wo, wo', a.item) /\ NewPart(wo, wo', b.item)
    BY <1>1, <1>5, <2>1 DEF NewPart
  <2> QED BY <1>5, <2>2 DEF AddsAtMostOne
<1>12. PICK entity : entity = [row \in partRows \cup partRows' |-> row.item]
  OBVIOUS
<1> HIDE DEF n
<1>13. \A row \in partRows \cup partRows' : entity[row] = row.item
  BY <1>12
<1>14. /\ \A a, b \in partRows : entity[a] = entity[b] => a = b
       /\ \A a, b \in partRows' : entity[a] = entity[b] => a = b
       /\ \A row \in partRows' :
            \/ \E was \in partRows : entity[was] = entity[row] /\ row.key = was.key
            \/ (\A was \in partRows : entity[was] # entity[row]) /\ row.key = n
       /\ \A a, b \in partRows' : a.key = n /\ b.key = n => entity[a] = entity[b]
  BY <1>1, <1>8, <1>9, <1>11, <1>13
<1>15. /\ Keyed(partRows', nextKey'.parts) /\ n <= nextKey'.parts
       /\ \A was \in partRows, row \in partRows' : row.key = was.key <=> entity[row] = entity[was]
  BY <1>1, <1>2, <1>14, KeysGoOn
<1>16. PartsStored'
  BY <1>5, <1>6, <1>7, <1>8, <1>15 DEF PartsStored
<1> QED BY <1>13, <1>15, <1>16 DEF n

-------------------------------------------------------------------------------
\* toDomain: there are as many rounds as rows, each read from the row of its number.
LEMMA BudgetsLoad ==
  ASSUME BudgetsStored, IsWorkOrder(wo)
  PROVE  wo.budgets = [r \in 1 .. Cardinality(budgetRows) |-> LoadedBudget(r)]
<1>1. PICK k \in Nat : k = Len(wo.budgets) /\ DOMAIN wo.budgets = 1 .. k
  BY DEF IsWorkOrder, IsSequence
<1>2. PICK f : f = [r \in 1 .. k |-> CHOOSE b \in budgetRows : b.round = r]
  OBVIOUS
<1>3. \A r \in 1 .. k : f[r] \in budgetRows /\ f[r].round = r
  BY <1>1, <1>2 DEF BudgetsStored
<1>4. f \in Bijection(1 .. k, budgetRows)
  <2>1. f \in [1 .. k -> budgetRows]
    BY <1>2, <1>3
  <2>2. \A a, b \in 1 .. k : f[a] = f[b] => a = b
    BY <1>3
  <2>3. \A b \in budgetRows : b.round \in 1 .. k /\ f[b.round] = b
    BY <1>1, <1>3 DEF BudgetsStored
  <2> QED BY <2>1, <2>2, <2>3 DEF Bijection, Injection, IsInjective, Surjection
<1>5. Cardinality(budgetRows) = k
  BY <1>4, FS_CountingElements DEF ExistsBijection
<1>6. ASSUME NEW r \in 1 .. k
      PROVE  LoadedBudget(r) = wo.budgets[r]
  <2>1. PICK row \in budgetRows : row = f[r] /\ row.round = r
    BY <1>3
  <2>2. LoadedBudget(r) = [status |-> row.status, total |-> row.total,
                           generation |-> row.generation, decision |-> row.decision]
    BY <1>2, <2>1 DEF LoadedBudget
  <2>3. /\ row.status = wo.budgets[r].status /\ row.total = wo.budgets[r].total
        /\ row.generation = wo.budgets[r].generation /\ row.decision = wo.budgets[r].decision
    BY <2>1 DEF BudgetsStored
  <2> QED BY <1>1, <2>2, <2>3 DEF IsWorkOrder, IsBudget
<1>7. wo.budgets = [r \in 1 .. k |-> wo.budgets[r]]
  BY <1>1 DEF IsWorkOrder, IsSequence
<1>8. [r \in 1 .. k |-> LoadedBudget(r)] = [r \in 1 .. k |-> wo.budgets[r]]
  BY <1>6
<1> QED BY <1>5, <1>7, <1>8

\* roundByBudgetInternalId: a key leads back to the round it was made of.
LEMMA RoundOfName ==
  ASSUME BudgetsStored, NEW key, NEW round, Names(key, round)
  PROVE  RoundOf(key) = round
<1>1. CASE round = Draft
  BY <1>1 DEF Names, RoundOf
<1>2. CASE round # Draft
  <2>1. PICK b \in budgetRows : b.key = key /\ b.round = round
    BY <1>2 DEF Names
  <2>2. key # Null /\ \A c \in budgetRows : c.key = key => c = b
    BY <2>1 DEF BudgetsStored, Keyed, Null
  <2>3. (CHOOSE c \in budgetRows : c.key = key) = b
    BY <2>1, <2>2
  <2> QED BY <2>1, <2>2, <2>3 DEF RoundOf
<1> QED BY <1>1, <1>2

\* toDomain: the rows make the very aggregate the last save was given.
LEMMA RowsLoad ==
  ASSUME RowsInv
  PROVE  Loaded = wo
<1>1. /\ IsWorkOrder(wo) /\ BudgetsStored /\ ServicesStored /\ PartsStored
      /\ order = OrderRow(wo) /\ ItemsHaveRounds(wo)
  BY DEF RowsInv, IInv, TypeOK
<1>2. ASSUME NEW s \in Services
      PROVE  wo.services[s] = IF HasRow(serviceRows, s)
                              THEN RoundOf(RowFor(serviceRows, s).budget) ELSE Absent
  <2>1. CASE wo.services[s] = Absent
    BY <1>1, <2>1 DEF ServicesStored, HasRow
  <2>2. CASE wo.services[s] # Absent
    <3>1. PICK row \in serviceRows : row.item = s
      BY <1>1, <2>2 DEF ServicesStored
    <3>2. HasRow(serviceRows, s) /\ RowFor(serviceRows, s) = row
      BY <1>1, <3>1 DEF HasRow, RowFor, ServicesStored
    <3>3. Names(row.budget, wo.services[s])
      BY <1>1, <3>1 DEF ServicesStored
    <3> QED BY <1>1, <3>2, <3>3, RoundOfName
  <2> QED BY <2>1, <2>2
<1>3. ASSUME NEW p \in Parts
      PROVE  wo.parts[p] = LoadedPart(p)
  <2>1. CASE wo.parts[p].round = Absent
    BY <1>1, <2>1 DEF PartsStored, HasRow, LoadedPart, ItemsHaveRounds
  <2>2. CASE wo.parts[p].round # Absent
    <3>1. PICK row \in partRows : row.item = p
      BY <1>1, <2>2 DEF PartsStored
    <3>2. HasRow(partRows, p) /\ RowFor(partRows, p) = row
      BY <1>1, <3>1 DEF HasRow, RowFor, PartsStored
    <3>3. /\ Names(row.budget, wo.parts[p].round)
          /\ row.planned = wo.parts[p].planned /\ row.withdrawn = wo.parts[p].withdrawn
      BY <1>1, <3>1 DEF PartsStored
    <3>4. RoundOf(row.budget) = wo.parts[p].round
      BY <1>1, <3>3, RoundOfName
    <3>5. LoadedPart(p) = [round |-> wo.parts[p].round, planned |-> wo.parts[p].planned,
                           withdrawn |-> wo.parts[p].withdrawn]
      BY <3>2, <3>3, <3>4 DEF LoadedPart
    <3>6. wo.parts[p] \in PartItem
      BY <1>1 DEF IsWorkOrder
    <3> QED BY <3>5, <3>6 DEF PartItem
  <2> QED BY <2>1, <2>2
<1>4. wo.services = [s \in Services |-> IF HasRow(serviceRows, s)
                                        THEN RoundOf(RowFor(serviceRows, s).budget) ELSE Absent]
  BY <1>1, <1>2 DEF IsWorkOrder
<1>5. wo.parts = [p \in Parts |-> LoadedPart(p)]
  BY <1>1, <1>3 DEF IsWorkOrder
<1>6. wo.budgets = [r \in 1 .. Cardinality(budgetRows) |-> LoadedBudget(r)]
  BY <1>1, BudgetsLoad
<1>7. /\ order.status = wo.status /\ order.mechanic = wo.mechanic
      /\ order.executionStarted = wo.executionStarted
      /\ order.discount = wo.discount /\ order.charged = wo.charged
  BY <1>1 DEF OrderRow
<1>8. Loaded = [status |-> wo.status, mechanic |-> wo.mechanic, services |-> wo.services,
                parts |-> wo.parts, budgets |-> wo.budgets,
                executionStarted |-> wo.executionStarted, discount |-> wo.discount,
                charged |-> wo.charged]
  BY <1>4, <1>5, <1>6, <1>7 DEF Loaded, LoadedCharge
<1> QED BY <1>1, <1>8 DEF IsWorkOrder

\* Every save runs one command on the work order as it was saved last.
LEMMA RowsStep ==
  ASSUME RowsInv, RowsNext
  PROVE  Next /\ SaveRows(wo')
<1>1. Loaded = wo
  BY RowsLoad
<1>2. SaveRows(wo')
  BY DEF RowsNext, SaveEdited, SaveDiagnosed, SaveQuoted, SaveDecided, SaveMoved, SaveClosed
<1>3. Next
  BY <1>1 DEF RowsNext, SaveEdited, SaveDiagnosed, SaveQuoted, SaveDecided, SaveMoved, SaveClosed,
              Next, Edit, Diagnose, Quote, Decide, MoveParts, Close
<1> QED BY <1>2, <1>3

\* What a save does to the keys of each table.
KeysStay ==
  /\ \A was \in serviceRows, row \in serviceRows' : row.key = was.key <=> row.item = was.item
  /\ \A was \in partRows, row \in partRows' : row.key = was.key <=> row.item = was.item
  /\ \A was \in budgetRows, row \in budgetRows' : row.key = was.key <=> row.round = was.round

\* replaceBudgets, replaceServiceItems, replacePartItems and the row of the order.
LEMMA SaveRowsKeeps ==
  ASSUME RowsInv, RowsNext
  PROVE  RowsInv' /\ KeysStay
<1>1. Next /\ SaveRows(wo')
  BY RowsStep
<1>2. /\ IInv /\ ItemsHaveRounds(wo) /\ BudgetsStored /\ ServicesStored /\ PartsStored
      /\ KeysAreBounded
  BY DEF RowsInv
<1>3. IInv'
  BY <1>1, <1>2, EditKeeps, DiagnoseKeeps, MovePartsKeeps, CloseKeeps, DecideKeeps, QuoteKeeps
     DEF Next
<1>4. AddsAtMostOne(wo, wo') /\ ItemsHaveRounds(wo')
  BY <1>1, <1>2, CommandAdds
<1>5. BudgetsStored' /\ nextKey.budgets <= nextKey'.budgets
  BY <1>1, <1>2, <1>4, BudgetsSaved
<1>6. ServicesStored' /\ PartsStored'
  BY <1>1, <1>2, <1>4, <1>5, ServicesSaved, PartsSaved
<1>7. KeysStay
  BY <1>1, <1>2, <1>4, <1>5, BudgetsSaved, ServicesSaved, PartsSaved DEF KeysStay
<1>8. (order = OrderRow(wo))' /\ KeysAreBounded'
  BY <1>1, <1>2 DEF SaveRows, OrderRow, KeysAreBounded
<1> QED BY <1>3, <1>4, <1>5, <1>6, <1>7, <1>8 DEF RowsInv

\* Before the first item there is the row of the order alone.
LEMMA RowsBegin ==
  ASSUME RowsInit, MaxKeyAssumption
  PROVE  RowsInv
<1>1. IInv /\ wo = Opened
  BY InitHolds DEF RowsInit, Init
<1>2. ItemsHaveRounds(wo)
  BY <1>1 DEF ItemsHaveRounds, Opened, NoPart
<1>3. /\ order = OrderRow(wo) /\ serviceRows = {} /\ partRows = {} /\ budgetRows = {}
      /\ nextKey = [services |-> 1, parts |-> 1, budgets |-> 1]
  BY <1>1 DEF RowsInit
<1>4. BudgetsStored /\ ServicesStored /\ PartsStored
  <2>1. /\ DOMAIN wo.budgets = {} /\ \A s \in Services : wo.services[s] = Absent
        /\ \A p \in Parts : wo.parts[p].round = Absent
    BY <1>1 DEF Opened, NoPart
  <2> QED BY <1>3, <2>1 DEF BudgetsStored, ServicesStored, PartsStored, Keyed
<1>5. KeysAreBounded
  BY <1>3 DEF KeysAreBounded, MaxKeyAssumption
<1> QED BY <1>1, <1>2, <1>3, <1>4, <1>5 DEF RowsInv

\* A step of something else leaves the rows alone.
LEMMA RowsStutter ==
  ASSUME RowsInv, UNCHANGED rowVars
  PROVE  RowsInv'
<1>1. IInv'
  BY StutterKeeps DEF RowsInv, rowVars, vars
<1>2. ItemsHaveRounds(wo)' /\ (order = OrderRow(wo))' /\ KeysAreBounded'
  BY DEF RowsInv, rowVars, vars, rows, ItemsHaveRounds, OrderRow, KeysAreBounded
<1>3. BudgetsStored'
  BY DEF RowsInv, rowVars, vars, rows, BudgetsStored, Keyed
<1>4. ServicesStored' /\ PartsStored'
  BY DEF RowsInv, rowVars, vars, rows, ServicesStored, PartsStored, Keyed, Names
<1> QED BY <1>1, <1>2, <1>3, <1>4 DEF RowsInv

\* The work order that Promise promises is the very one of WorkOrder: nothing but wo is
\* substituted, so its commands are the same relations.
LEMMA PromisedNames ==
  /\ Promise!Absent = Absent /\ Promise!Draft = Draft /\ Promise!NoPart = NoPart
  /\ Promise!Opened = Opened
  /\ Promise!Undecided = Undecided /\ Promise!InApplication = InApplication
  /\ Promise!CANCELABLE_STATES = CANCELABLE_STATES
  /\ Promise!ITEM_EDITABLE_STATES = ITEM_EDITABLE_STATES
  /\ Promise!PART_PLANNABLE_STATES = PART_PLANNABLE_STATES
  /\ Promise!MECHANIC_ASSIGNABLE_TERMINAL_STATES = MECHANIC_ASSIGNABLE_TERMINAL_STATES
  /\ Promise!Batches = Batches
<1>1. /\ Promise!Absent = Absent /\ Promise!Draft = Draft /\ Promise!NoPart = NoPart
      /\ Promise!NotCharged = NotCharged
  BY DEF Absent, Promise!Absent, Draft, Promise!Draft, NoPart, Promise!NoPart,
         NotCharged, Promise!NotCharged
<1>2. Promise!Opened = Opened
  BY <1>1 DEF Opened, Promise!Opened
<1>3. Promise!Undecided = Undecided /\ Promise!InApplication = InApplication
  BY DEF Undecided, Promise!Undecided, InApplication, Promise!InApplication
<1>4. /\ Promise!CANCELABLE_STATES = CANCELABLE_STATES
      /\ Promise!ITEM_EDITABLE_STATES = ITEM_EDITABLE_STATES
      /\ Promise!PART_PLANNABLE_STATES = PART_PLANNABLE_STATES
      /\ Promise!MECHANIC_ASSIGNABLE_TERMINAL_STATES = MECHANIC_ASSIGNABLE_TERMINAL_STATES
  BY DEF CANCELABLE_STATES, ITEM_EDITABLE_STATES, PART_PLANNABLE_STATES,
         MECHANIC_ASSIGNABLE_TERMINAL_STATES, Promise!CANCELABLE_STATES,
         Promise!ITEM_EDITABLE_STATES, Promise!PART_PLANNABLE_STATES,
         Promise!MECHANIC_ASSIGNABLE_TERMINAL_STATES
<1>5. Promise!Batches = Batches
  BY DEF Batches, Promise!Batches
<1> QED BY <1>1, <1>2, <1>3, <1>4, <1>5

\* The sums of its items and its lists of rounds.
LEMMA PromisedFigures ==
  /\ \A w, r : /\ Promise!EligibleServices(w, r) = EligibleServices(w, r)
               /\ Promise!EligibleParts(w, r) = EligibleParts(w, r)
  /\ \A w, r : Promise!RoundTotal(w, r) = RoundTotal(w, r)
  /\ \A w : /\ Promise!PendingRounds(w) = PendingRounds(w)
            /\ Promise!ApprovedRounds(w) = ApprovedRounds(w)
            /\ Promise!Charge(w) = Charge(w) /\ Promise!Mailed(w) = Mailed(w)
<1>1. \A f : Promise!Total(f) = Total(f)
  BY DEF Total, Promise!Total, MapThenSumSet, Promise!MapThenSumSet, MapThenFoldSet,
         Promise!MapThenFoldSet
<1>2. \A w, r : /\ Promise!EligibleServices(w, r) = EligibleServices(w, r)
                /\ Promise!EligibleParts(w, r) = EligibleParts(w, r)
  BY PromisedNames DEF EligibleServices, EligibleParts, Promise!EligibleServices,
                       Promise!EligibleParts
<1>3. \A w : /\ Promise!PendingRounds(w) = PendingRounds(w)
             /\ Promise!ApprovedRounds(w) = ApprovedRounds(w)
  BY DEF PendingRounds, ApprovedRounds, Promise!PendingRounds, Promise!ApprovedRounds
<1>4. /\ \A S : Promise!ServicesTotal(S) = ServicesTotal(S)
      /\ \A w, S : /\ Promise!PlannedTotal(w, S) = PlannedTotal(w, S)
                   /\ Promise!WithdrawnTotal(w, S) = WithdrawnTotal(w, S)
  BY <1>1 DEF ServicesTotal, PlannedTotal, WithdrawnTotal, Promise!ServicesTotal,
              Promise!PlannedTotal, Promise!WithdrawnTotal
<1>5. \A w, r : Promise!RoundTotal(w, r) = RoundTotal(w, r)
  BY <1>2, <1>4 DEF RoundTotal, Promise!RoundTotal
<1>6. \A w : Promise!Charge(w) = Charge(w)
  BY <1>3, <1>4 DEF Charge, Promise!Charge
<1>7. \A w : Promise!Mailed(w) = Mailed(w)
  BY <1>3 DEF Mailed, LinkOf, Promise!Mailed, Promise!LinkOf
<1> QED BY <1>2, <1>3, <1>5, <1>6, <1>7

\* Each command of the aggregate.
LEMMA PromisedCommands ==
  ASSUME NEW w, NEW v
  PROVE  /\ Promise!AddService(w, v) <=> AddService(w, v)
         /\ Promise!PlanPart(w, v) <=> PlanPart(w, v)
         /\ Promise!RemoveItem(w, v) <=> RemoveItem(w, v)
         /\ Promise!AssignMechanic(w, v) <=> AssignMechanic(w, v)
         /\ Promise!StartDiagnosis(w, v) <=> StartDiagnosis(w, v)
         /\ Promise!CompleteDiagnosis(w, v) <=> CompleteDiagnosis(w, v)
         /\ Promise!SubmitSupplementaryBudget(w, v) <=> SubmitSupplementaryBudget(w, v)
         /\ Promise!ApproveBudget(w, v, links) <=> ApproveBudget(w, v, links)
         /\ Promise!RejectBudget(w, v, links) <=> RejectBudget(w, v, links)
         /\ Promise!WithdrawParts(w, v) <=> WithdrawParts(w, v)
         /\ Promise!ReturnParts(w, v) <=> ReturnParts(w, v)
         /\ Promise!ApplyDiscount(w, v) <=> ApplyDiscount(w, v)
         /\ Promise!Complete(w, v) <=> Complete(w, v)
         /\ Promise!Deliver(w, v) <=> Deliver(w, v)
         /\ Promise!Cancel(w, v) <=> Cancel(w, v)
<1>1. /\ Promise!AddService(w, v) <=> AddService(w, v)
      /\ Promise!PlanPart(w, v) <=> PlanPart(w, v)
      /\ Promise!RemoveItem(w, v) <=> RemoveItem(w, v)
      /\ Promise!AssignMechanic(w, v) <=> AssignMechanic(w, v)
  BY PromisedNames
     DEF AddService, PlanPart, RemoveItem, AssignMechanic, Promise!AddService,
         Promise!PlanPart, Promise!RemoveItem, Promise!AssignMechanic
<1>2. Promise!StartDiagnosis(w, v) <=> StartDiagnosis(w, v)
  BY DEF StartDiagnosis, Promise!StartDiagnosis
<1>3. \A r : Promise!AttachedTo(w, r) = AttachedTo(w, r)
  BY PromisedFigures DEF AttachedTo, Promise!AttachedTo
<1>4. \A t, g : Promise!Generated(t, g) = Generated(t, g)
  BY PromisedNames DEF Generated, Promise!Generated
<1>5. \A r : Promise!HasItemsForRound(w, r) <=> HasItemsForRound(w, r)
  BY PromisedFigures DEF HasItemsForRound, Promise!HasItemsForRound
<1>6. Promise!FirstRound(w) = FirstRound(w)
  BY <1>4, PromisedFigures DEF FirstRound, Promise!FirstRound
<1>7. Promise!CompleteDiagnosis(w, v) <=> CompleteDiagnosis(w, v)
  BY <1>3, <1>5, <1>6 DEF CompleteDiagnosis, Promise!CompleteDiagnosis
<1>8. Promise!SubmitSupplementaryBudget(w, v) <=> SubmitSupplementaryBudget(w, v)
  BY <1>3, <1>4, <1>5, PromisedFigures
     DEF SubmitSupplementaryBudget, Promise!SubmitSupplementaryBudget
<1>9. /\ \A r : Promise!MayDecide(w, r) <=> MayDecide(w, r)
      /\ \A link : /\ Promise!LinkIsCurrent(w, link) <=> LinkIsCurrent(w, link)
                   /\ Promise!ByLink(link) = ByLink(link)
      /\ \A r, d : /\ Promise!Approved(w, r, d) = Approved(w, r, d)
                   /\ Promise!Rejected(w, r, d) = Rejected(w, r, d)
  BY PromisedFigures
     DEF MayDecide, LinkIsCurrent, ByLink, Approved, Rejected, Decided, Promise!MayDecide,
         Promise!LinkIsCurrent, Promise!ByLink, Promise!Approved, Promise!Rejected,
         Promise!Decided
<1>10. /\ Promise!ApproveBudget(w, v, links) <=> ApproveBudget(w, v, links)
       /\ Promise!RejectBudget(w, v, links) <=> RejectBudget(w, v, links)
  BY <1>9, PromisedNames, PromisedFigures
     DEF ApproveBudget, RejectBudget, Promise!ApproveBudget, Promise!RejectBudget
<1>11. /\ Promise!WithdrawParts(w, v) <=> WithdrawParts(w, v)
       /\ Promise!ReturnParts(w, v) <=> ReturnParts(w, v)
  BY PromisedNames, PromisedFigures
     DEF WithdrawParts, ReturnParts, Withdrawable, Promise!WithdrawParts,
         Promise!ReturnParts, Promise!Withdrawable
<1>12. /\ Promise!ApplyDiscount(w, v) <=> ApplyDiscount(w, v)
       /\ Promise!Complete(w, v) <=> Complete(w, v)
       /\ Promise!Deliver(w, v) <=> Deliver(w, v)
       /\ Promise!Cancel(w, v) <=> Cancel(w, v)
  BY PromisedNames, PromisedFigures
     DEF ApplyDiscount, Complete, Deliver, Cancel, Promise!ApplyDiscount, Promise!Complete,
         Promise!Deliver, Promise!Cancel
<1> QED BY <1>1, <1>2, <1>7, <1>8, <1>10, <1>11, <1>12

\* The inductive invariant of the rows.
THEOREM RowsInvariance ==
  ASSUME MaxKeyAssumption
  PROVE  RowsSpec => []RowsInv
<1>1. RowsInit => RowsInv
  BY RowsBegin
<1>2. RowsInv /\ [RowsNext]_rowVars => RowsInv'
  BY SaveRowsKeeps, RowsStutter
<1> QED BY <1>1, <1>2, PTL DEF RowsSpec

\* A load gives back the very work order the last save was given, whatever was
\* added, removed, quoted, decided or moved in between, and however much of it.
THEOREM RowsStayTrue ==
  ASSUME MaxKeyAssumption
  PROVE  RowsSpec => []RowsTellTheOrder
<1>1. RowsInv => RowsTellTheOrder
  <2> SUFFICES ASSUME RowsInv PROVE RowsTellTheOrder
    OBVIOUS
  <2>1. TypeOK /\ Loaded = wo
    BY RowsLoad DEF RowsInv, IInv
  <2>2. /\ BudgetsStored /\ ServicesStored /\ PartsStored /\ MaxKey \in Nat
        /\ nextKey.budgets <= MaxKey + 1 /\ nextKey.services <= MaxKey + 1
        /\ nextKey.parts <= MaxKey + 1 /\ DOMAIN nextKey = {"services", "parts", "budgets"}
    BY DEF RowsInv, KeysAreBounded, MaxKeyAssumption
  <2>3. \A row \in budgetRows : row.key \in Key
    BY <2>2 DEF BudgetsStored, Keyed, Key
  <2>4. \A key, round : Names(key, round) => key \in Key \cup {Null}
    BY <2>3 DEF Names
  <2>5. \A row \in serviceRows : row.key \in Key /\ row.budget \in Key \cup {Null}
    BY <2>2, <2>4 DEF ServicesStored, Keyed, Key
  <2>6. \A row \in partRows : row.key \in Key /\ row.budget \in Key \cup {Null}
    BY <2>2, <2>4 DEF PartsStored, Keyed, Key
  <2>7. \A table \in DOMAIN nextKey : nextKey[table] \in 1 .. MaxKey + 1
    BY <2>2 DEF BudgetsStored, ServicesStored, PartsStored, Keyed
  <2> QED BY <2>1, <2>3, <2>5, <2>6, <2>7 DEF RowsTellTheOrder, RowsTypeOK, LoadsWhatWasSaved
<1> QED BY <1>1, RowsInvariance, PTL

\* What the rows load as is the work order of WorkOrder: every save, made of what
\* was loaded, is one of its commands.
THEOREM RowsImplementWorkOrder ==
  ASSUME MaxKeyAssumption
  PROVE  RowsSpec => KeepsWorkOrder
<1>1. RowsInit => Promise!Init
  <2> SUFFICES ASSUME RowsInit PROVE Promise!Init
    OBVIOUS
  <2>1. Loaded = wo /\ wo = Opened /\ links = {}
    BY RowsBegin, RowsLoad DEF RowsInit, Init
  <2> QED BY <2>1, PromisedNames DEF Promise!Init
<1>2. RowsInv => Loaded = wo
  BY RowsLoad
<1>3. RowsInv /\ Loaded = wo /\ (Loaded = wo)' /\ [RowsNext]_rowVars
        => [Promise!Next]_(Promise!vars)
  <2> SUFFICES ASSUME RowsInv, Loaded = wo, Loaded' = wo', [RowsNext]_rowVars
               PROVE  [Promise!Next]_(Promise!vars)
    OBVIOUS
  <2>1. CASE RowsNext
    <3>1. Next
      BY <2>1, RowsStep
    <3>2. /\ (Promise!Edit <=> Edit) /\ (Promise!Diagnose <=> Diagnose) /\ (Promise!Quote <=> Quote)
          /\ (Promise!Decide <=> Decide) /\ (Promise!MoveParts <=> MoveParts)
          /\ (Promise!Close <=> Close)
      BY PromisedCommands
         DEF Edit, Diagnose, Quote, Decide, MoveParts, Close, Promise!Edit, Promise!Diagnose,
             Promise!Quote, Promise!Decide, Promise!MoveParts, Promise!Close
    <3> QED BY <3>1, <3>2, PromisedFigures DEF Next, Promise!Next
  <2>2. CASE UNCHANGED rowVars
    BY <2>2 DEF rowVars, vars, Promise!vars
  <2> QED BY <2>1, <2>2
<1> QED BY <1>1, <1>2, <1>3, RowsInvariance, PTL DEF RowsSpec, KeepsWorkOrder, Promise!Spec

\* A row keeps its key as long as what it stands for exists, and no key is ever
\* given to something else.
THEOREM KeysLast ==
  ASSUME MaxKeyAssumption
  PROVE  RowsSpec => RowsKeepTheirKeys
<1>1. RowsInv /\ [RowsNext]_rowVars => [KeysAreKept]_rows
  <2>1. CASE RowsInv /\ RowsNext
    <3>1. KeysStay
      BY <2>1, SaveRowsKeeps
    <3> QED BY <3>1 DEF KeysStay, KeepsKeys, KeysAreKept
  <2>2. CASE UNCHANGED rowVars
    BY <2>2 DEF rowVars
  <2> QED BY <2>1, <2>2
<1> QED BY <1>1, RowsInvariance, PTL DEF RowsSpec, RowsKeepTheirKeys

-------------------------------------------------------------------------------
(* Where a work order can still go; the summary and the mails rest on it. *)

\* A closed work order moves no more, and a completed one keeps its items and rounds
\* and is only delivered.
LEMMA ClosedStays ==
  ASSUME IInv, Next
  PROVE  /\ wo.status \notin {"DELIVERED", "CANCELED"}
         /\ wo.status = "COMPLETED" =>
              /\ wo'.services = wo.services /\ wo'.parts = wo.parts
              /\ wo'.budgets = wo.budgets
              /\ wo'.status \in {"COMPLETED", "DELIVERED"}
<1>1. IsWorkOrder(wo)
  BY DEF IInv, TypeOK
<1>2. CASE Edit
  <2>1. AssignMechanic(wo, wo') \/ wo.status \in {"RECEIVED", "IN_DIAGNOSIS", "IN_EXECUTION"}
    BY <1>2 DEF Edit, AddService, PlanPart, RemoveItem, ITEM_EDITABLE_STATES,
                PART_PLANNABLE_STATES
  <2>2. CASE AssignMechanic(wo, wo')
    <3>1. wo.status \notin {"DELIVERED", "CANCELED"}
      BY <2>2 DEF AssignMechanic, MECHANIC_ASSIGNABLE_TERMINAL_STATES
    <3>2. /\ wo'.status = wo.status /\ wo'.services = wo.services /\ wo'.parts = wo.parts
          /\ wo'.budgets = wo.budgets
      BY <1>1, <2>2, AssignMechanicEffect DEF Is
    <3> QED BY <3>1, <3>2
  <2> QED BY <2>1, <2>2
<1>3. CASE Diagnose \/ Quote \/ Decide \/ MoveParts
  <2>1. wo.status \in {"RECEIVED", "IN_DIAGNOSIS", "AWAITING_APPROVAL", "IN_EXECUTION"}
    BY <1>3 DEF Diagnose, Quote, Decide, MoveParts, StartDiagnosis, CompleteDiagnosis,
                SubmitSupplementaryBudget, ApproveBudget, RejectBudget, MayDecide,
                WithdrawParts, ReturnParts
  <2> QED BY <2>1
<1>4. CASE Close
  <2>1. wo.status \in {"COMPLETED"} \cup CANCELABLE_STATES
    BY <1>4 DEF Close, ApplyDiscount, Complete, Deliver, Cancel, CANCELABLE_STATES
  <2>2. wo.status = "COMPLETED" =>
          /\ wo'.services = wo.services /\ wo'.parts = wo.parts /\ wo'.budgets = wo.budgets
          /\ wo'.status \in {"COMPLETED", "DELIVERED"}
    BY <1>1, <1>4 DEF Close, ApplyDiscount, Complete, Deliver, Cancel, CANCELABLE_STATES,
                      IsWorkOrder
  <2> QED BY <2>1, <2>2 DEF CANCELABLE_STATES
<1> QED BY <1>2, <1>3, <1>4 DEF Next

\* A round stays, and its generation never goes back; only quoting comes to a status
\* that awaits approval, and the round it leaves to decide has a new generation.
LEMMA GenerationsGoOn ==
  ASSUME IInv, Next
  PROVE  /\ DOMAIN wo.budgets \subseteq DOMAIN wo'.budgets
         /\ \A r \in DOMAIN wo.budgets :
              wo.budgets[r].generation <= wo'.budgets[r].generation
         /\ wo'.status = "AWAITING_APPROVAL" /\ wo.status # "AWAITING_APPROVAL" =>
              \A r \in PendingRounds(wo') : r \in DOMAIN wo.budgets =>
                wo.budgets[r].generation < wo'.budgets[r].generation
<1>1. IsWorkOrder(wo)
  BY DEF IInv, TypeOK
<1>2. \A r \in DOMAIN wo.budgets : wo.budgets[r].generation \in Nat
  BY <1>1 DEF IsWorkOrder, IsBudget
<1>3. CASE Edit \/ Diagnose \/ MoveParts \/ Close
  <2>1. wo'.budgets = wo.budgets
    <3>1. CASE Edit
      BY <3>1, EditEffect
    <3>2. CASE Diagnose
      BY <1>1, <3>2, StartDiagnosisEffect, RecordOf DEF Diagnose
    <3>3. CASE MoveParts
      BY <1>1, <3>3, WithdrawPartsEffect, ReturnPartsEffect, RecordOf DEF MoveParts
    <3>4. CASE Close
      BY <1>1, <3>4, CloseEffect, RecordOf DEF Close
    <3> QED BY <1>3, <3>1, <3>2, <3>3, <3>4
  <2>2. wo'.status = "AWAITING_APPROVAL" => wo.status = "AWAITING_APPROVAL"
    <3>1. CASE Edit
      BY <3>1, EditEffect
    <3>2. CASE Diagnose
      BY <1>1, <3>2, StartDiagnosisEffect, RecordOf DEF Diagnose
    <3>3. CASE MoveParts
      BY <1>1, <3>3, WithdrawPartsEffect, ReturnPartsEffect, RecordOf DEF MoveParts
    <3>4. CASE Close
      BY <1>1, <3>4, CloseEffect, RecordOf DEF Close
    <3> QED BY <1>3, <3>1, <3>2, <3>3, <3>4
  <2> QED BY <1>2, <2>1, <2>2
<1>4. CASE Decide
  <2>d. PICK d : \E r \in PendingRounds(wo), status \in {"APPROVED", "REJECTED"} :
          /\ wo.status = "AWAITING_APPROVAL"
          /\ Deciding(r, d)
          /\ DecidedWorkOrder(wo, wo', r, status, d)
    BY <1>1, <1>4, DecideEffect
  <2>1. PICK r \in PendingRounds(wo), status \in {"APPROVED", "REJECTED"} :
          /\ wo.status = "AWAITING_APPROVAL"
          /\ DecidedWorkOrder(wo, wo', r, status, d)
    BY <2>d
  <2>2. wo'.budgets = [wo.budgets EXCEPT ![r] = Decided(wo.budgets[r], status, d)]
    BY <2>1 DEF DecidedWorkOrder, Is
  <2>3. r \in DOMAIN wo.budgets /\ IsBudget(wo.budgets[r])
    BY <1>1 DEF PendingRounds, IsWorkOrder
  <2>4. Decided(wo.budgets[r], status, d).generation = wo.budgets[r].generation
    BY <2>3 DEF Decided, IsBudget
  <2>5. /\ DOMAIN wo'.budgets = DOMAIN wo.budgets
        /\ \A i \in DOMAIN wo.budgets : wo'.budgets[i].generation = wo.budgets[i].generation
    BY <2>2, <2>3, <2>4
  <2> QED BY <1>2, <2>1, <2>5
<1>5. CASE Quote
  <2>1. PICK r, generation : Quoted(wo, wo', r, generation)
    BY <1>5, SubmitSupplementaryBudgetEffect, CompleteDiagnosisEffect DEF Quote
  <2>2. wo'.budgets[r].generation = generation
    BY <2>1 DEF Quoted, Generated
  <2>3. \A i \in PendingRounds(wo') : i = r
    BY <2>1 DEF Quoted, PendingRounds
  <2>4. DOMAIN wo.budgets \subseteq DOMAIN wo'.budgets
    BY <2>1, Zenon DEF Quoted
  <2>5. \A i \in DOMAIN wo.budgets : i # r => wo'.budgets[i] = wo.budgets[i]
    BY <2>1, <2>4, Zenon DEF Quoted
  <2>6. r \in DOMAIN wo.budgets => generation = wo.budgets[r].generation + 1
    BY <2>1, Zenon DEF Quoted
  <2>7. r \in DOMAIN wo.budgets => wo.budgets[r].generation < wo'.budgets[r].generation
    BY <1>2, <2>2, <2>6
  <2>8. \A i \in DOMAIN wo.budgets : wo.budgets[i].generation <= wo'.budgets[i].generation
    <3> SUFFICES ASSUME NEW i \in DOMAIN wo.budgets
                 PROVE  wo.budgets[i].generation <= wo'.budgets[i].generation
      OBVIOUS
    <3>1. CASE i = r
      BY <1>2, <2>2, <2>6, <3>1
    <3>2. CASE i # r
      <4>1. wo'.budgets[i] = wo.budgets[i]
        BY <2>5, <3>2, Zenon
      <4>2. wo.budgets[i].generation \in Nat
        BY <1>2, Zenon
      <4> QED BY <4>1, <4>2
    <3> QED BY <3>1, <3>2
  <2> QED BY <2>3, <2>4, <2>7, <2>8
<1> QED BY <1>3, <1>4, <1>5 DEF Next

-------------------------------------------------------------------------------
(* The summary; its inductive invariant. *)

Started == {"IN_EXECUTION", "COMPLETED", "DELIVERED"}
Settled == {"COMPLETED", "DELIVERED"}
Closed == {"DELIVERED", "CANCELED"}

\* Rounds that go with a status.
HasRounds(status, budgets) ==
  /\ status = "AWAITING_APPROVAL" => budgets # << >>
  /\ status \in Started => budgets # << >> /\ budgets[1].status = "APPROVED"

\* The answers got so far are those of the work order as it is.
AnswersStand ==
  /\ "services" \in view.got => view.shown.services = wo.services
  /\ "parts" \in view.got => view.shown.parts = wo.parts
  /\ "budgets" \in view.got => view.shown.budgets = wo.budgets

\* What a row that was read says is still so, or has become more.
RowStands ==
  /\ HasRounds(view.shown.status, wo.budgets)
  /\ "budgets" \in view.got => HasRounds(view.shown.status, view.shown.budgets)
  /\ view.shown.status \in Settled =>
       /\ wo.status \in Settled
       /\ view.shown.charged = Charge(wo) - view.shown.discount
       /\ AnswersStand
  /\ view.shown.status \in Closed => SameRow(view.shown, wo) /\ AnswersStand

VInv ==
  /\ IInv
  /\ view = [got |-> view.got, shown |-> view.shown]
  /\ view.got \subseteq Queries
  /\ IsWorkOrder(view.shown)
  /\ view.got # {} => "row" \in view.got
  /\ "row" \in view.got => RowStands

\* The rounds that go with a status of the work order itself.
LEMMA StatusHasRounds ==
  ASSUME IInv
  PROVE  HasRounds(wo.status, wo.budgets)
<1>1. IsSequence(wo.budgets)
  BY DEF IInv, TypeOK, IsWorkOrder
<1>2. CASE wo.status = "AWAITING_APPROVAL"
  <2>1. Len(wo.budgets) \in DOMAIN wo.budgets
    BY <1>2 DEF IInv, PendingWhileAwaiting, PendingRounds
  <2>2. wo.budgets # << >>
    BY <2>1
  <2> QED BY <1>2, <2>2 DEF HasRounds, Started
<1>3. CASE wo.status \in Started
  BY <1>3 DEF HasRounds, Started, IInv, ExecutionIsApproved
<1> QED BY <1>2, <1>3 DEF HasRounds

\* They stay: rounds are only added, and an approval stands.
LEMMA RoundsStay ==
  ASSUME IInv, Next, NEW status, HasRounds(status, wo.budgets)
  PROVE  HasRounds(status, wo'.budgets)
<1>1. DOMAIN wo.budgets \subseteq DOMAIN wo'.budgets
  BY GenerationsGoOn
<1>2. /\ IsSequence(wo.budgets) /\ DOMAIN wo.budgets = 1 .. Len(wo.budgets)
      /\ Len(wo.budgets) \in Nat
  BY DEF IInv, TypeOK, IsWorkOrder, IsSequence
<1>3. CASE wo.budgets # << >>
  <2>1. 1 \in DOMAIN wo.budgets
    BY <1>2, <1>3 DEF IsSequence
  <2>2. wo'.budgets # << >>
    BY <1>1, <2>1
  <2>3. wo.budgets[1].status = "APPROVED" => wo'.budgets[1] = wo.budgets[1]
    BY <2>1, NextKeepsApprovedRounds DEF ApprovedRoundsKept, ApprovedRounds
  <2> QED BY <2>2, <2>3 DEF HasRounds
<1>4. CASE wo.budgets = << >>
  BY <1>4 DEF HasRounds
<1> QED BY <1>3, <1>4

\* A command between two queries: what the row said is still so.
LEMMA CommandKeepsView ==
  ASSUME VInv, Next, IInv', UNCHANGED view
  PROVE  VInv'
<1> DEFINE shown == view.shown
<1>1. ASSUME "row" \in view.got
      PROVE  /\ HasRounds(shown.status, wo'.budgets)
             /\ shown.status \in Settled =>
                  /\ wo'.status \in Settled
                  /\ shown.charged = Charge(wo') - shown.discount
                  /\ wo'.services = wo.services /\ wo'.parts = wo.parts
                  /\ wo'.budgets = wo.budgets
             /\ shown.status \notin Closed
  <2>1. RowStands
    BY <1>1 DEF VInv
  <2>2. HasRounds(shown.status, wo'.budgets)
    BY <2>1, RoundsStay DEF RowStands, VInv
  <2>3. shown.status \notin Closed
    BY <2>1, ClosedStays DEF RowStands, VInv, SameRow, Closed
  <2>4. ASSUME shown.status \in Settled
        PROVE  /\ wo'.status \in Settled
               /\ shown.charged = Charge(wo') - shown.discount
               /\ wo'.services = wo.services /\ wo'.parts = wo.parts
               /\ wo'.budgets = wo.budgets
    <3>1. wo.status \in Settled /\ shown.charged = Charge(wo) - shown.discount
      BY <2>1, <2>4 DEF RowStands
    <3>2. /\ wo'.status \in Settled
          /\ wo'.services = wo.services /\ wo'.parts = wo.parts /\ wo'.budgets = wo.budgets
      BY <3>1, ClosedStays DEF VInv, Settled
    <3>3. Charge(wo') = Charge(wo)
      BY <3>2, ChargeKept
    <3> QED BY <3>1, <3>2, <3>3
  <2> QED BY <2>2, <2>3, <2>4
<1>2. "row" \in view.got => RowStands'
  BY <1>1 DEF VInv, RowStands, AnswersStand
<1> QED BY <1>2 DEF VInv

\* The first query shows the row as it is.
LEMMA ShowRowKeeps ==
  ASSUME VInv, ShowRow
  PROVE  VInv'
<1> DEFINE shown == WithRow(view.shown)
<1>1. /\ view.got = {}
      /\ view' = [got |-> {"row"}, shown |-> shown]
      /\ UNCHANGED vars
  BY DEF VInv, ShowRow, Query
<1>2. /\ IsWorkOrder(wo) /\ IsWorkOrder(view.shown)
  BY DEF VInv, IInv, TypeOK
<1>3. Is(shown, wo.status, wo.mechanic, view.shown.services, view.shown.parts,
         view.shown.budgets, wo.executionStarted, wo.discount, wo.charged)
  <2>1. shown = [wo EXCEPT !.services = view.shown.services, !.parts = view.shown.parts,
                           !.budgets = view.shown.budgets]
    BY DEF WithRow
  <2> HIDE DEF shown
  <2> QED BY <1>2, <2>1 DEF IsWorkOrder, Is
<1> HIDE DEF shown
<1>4. /\ IsRecord(shown) /\ SameRow(shown, wo)
      /\ shown.services = view.shown.services /\ shown.parts = view.shown.parts
      /\ shown.budgets = view.shown.budgets
  BY <1>3 DEF Is, IsRecord, SameRow
<1>5. IsWorkOrder(shown)
  BY <1>2, <1>4, TypeKept, Columns DEF SameRow
<1>6. HasRounds(wo.status, wo.budgets)
  BY StatusHasRounds DEF VInv
<1>7. wo.status \in Settled => wo.charged = Charge(wo) - wo.discount
  BY DEF VInv, IInv, FrozenCharge, Settled
<1>8. IInv' /\ wo' = wo
  BY <1>1, StutterKeeps DEF VInv, vars
<1>9. /\ view'.got = {"row"} /\ view'.shown = shown
      /\ view' = [got |-> view'.got, shown |-> view'.shown]
  BY <1>1
<1>10. RowStands'
  BY <1>4, <1>6, <1>7, <1>8, <1>9 DEF RowStands, AnswersStand, SameRow
<1>11. view'.got \subseteq Queries
  BY <1>9 DEF Queries
<1> QED BY <1>1, <1>5, <1>8, <1>9, <1>10, <1>11 DEF VInv

\* A later query shows one column more as it is.
LEMMA ShowColumnKeeps ==
  ASSUME VInv, ShowServices \/ ShowParts \/ ShowBudgets
  PROVE  VInv'
<1> DEFINE old == view.shown
           new == view'.shown
<1>1. /\ IsWorkOrder(wo) /\ IsWorkOrder(old) /\ "row" \in view.got
      /\ UNCHANGED vars /\ RowStands
  BY DEF VInv, IInv, TypeOK, ShowServices, ShowParts, ShowBudgets, Query
<1>2. IInv' /\ wo' = wo
  BY <1>1, StutterKeeps DEF VInv, vars
<1>3. /\ view' = [got |-> view'.got, shown |-> new]
      /\ view'.got \subseteq Queries /\ "row" \in view'.got
      /\ IsRecord(new) /\ SameRow(new, old)
      /\ \/ /\ view'.got = view.got \cup {"services"}
            /\ new.services = wo.services /\ new.parts = old.parts /\ new.budgets = old.budgets
         \/ /\ view'.got = view.got \cup {"parts"}
            /\ new.services = old.services /\ new.parts = wo.parts /\ new.budgets = old.budgets
         \/ /\ view'.got = view.got \cup {"budgets"}
            /\ new.services = old.services /\ new.parts = old.parts /\ new.budgets = wo.budgets
  <2>1. CASE ShowServices
    <3>1. view' = [got |-> view.got \cup {"services"}, shown |-> [old EXCEPT !.services = wo.services]]
      BY <2>1 DEF ShowServices, Query
    <3>2. Is(new, old.status, old.mechanic, wo.services, old.parts, old.budgets,
             old.executionStarted, old.discount, old.charged)
      BY <1>1, <3>1 DEF IsWorkOrder, Is
    <3> HIDE DEF old, new
    <3>3. /\ IsRecord(new) /\ SameRow(new, old)
          /\ new.services = wo.services /\ new.parts = old.parts /\ new.budgets = old.budgets
      BY <3>2 DEF Is, IsRecord, SameRow
    <3> QED BY <1>1, <3>1, <3>3 DEF VInv, Queries, new
  <2>2. CASE ShowParts
    <3>1. view' = [got |-> view.got \cup {"parts"}, shown |-> [old EXCEPT !.parts = wo.parts]]
      BY <2>2 DEF ShowParts, Query
    <3>2. Is(new, old.status, old.mechanic, old.services, wo.parts, old.budgets,
             old.executionStarted, old.discount, old.charged)
      BY <1>1, <3>1 DEF IsWorkOrder, Is
    <3> HIDE DEF old, new
    <3>3. /\ IsRecord(new) /\ SameRow(new, old)
          /\ new.services = old.services /\ new.parts = wo.parts /\ new.budgets = old.budgets
      BY <3>2 DEF Is, IsRecord, SameRow
    <3> QED BY <1>1, <3>1, <3>3 DEF VInv, Queries, new
  <2>3. CASE ShowBudgets
    <3>1. view' = [got |-> view.got \cup {"budgets"}, shown |-> [old EXCEPT !.budgets = wo.budgets]]
      BY <2>3 DEF ShowBudgets, Query
    <3>2. Is(new, old.status, old.mechanic, old.services, old.parts, wo.budgets,
             old.executionStarted, old.discount, old.charged)
      BY <1>1, <3>1 DEF IsWorkOrder, Is
    <3> HIDE DEF old, new
    <3>3. /\ IsRecord(new) /\ SameRow(new, old)
          /\ new.services = old.services /\ new.parts = old.parts /\ new.budgets = wo.budgets
      BY <3>2 DEF Is, IsRecord, SameRow
    <3> QED BY <1>1, <3>1, <3>3 DEF VInv, Queries, new
  <2> QED BY <2>1, <2>2, <2>3
<1> HIDE DEF old, new
<1>4. IsWorkOrder(new)
  <2>1. /\ new.status \in WorkOrderStatus /\ new.mechanic \in Users \cup {NoUser}
        /\ new.executionStarted \in BOOLEAN /\ new.discount \in Nat
    BY <1>1, <1>3, Columns DEF SameRow
  <2>2. new.services \in [Services -> ItemRound] /\ new.parts \in [Parts -> PartItem]
    BY <1>1, <1>3, Columns
  <2>3. CASE new.budgets = old.budgets
    BY <1>1, <1>3, <2>1, <2>2, <2>3, TypeKept
  <2>4. CASE new.budgets = wo.budgets
    BY <1>1, <1>3, <2>1, <2>2, <2>4, TypeKept
  <2> QED BY <1>3, <2>3, <2>4
<1>5. RowStands'
  <2>1. HasRounds(new.status, wo'.budgets)
    BY <1>1, <1>2, <1>3 DEF RowStands, SameRow, old, new
  <2>2. "budgets" \in view'.got => HasRounds(new.status, new.budgets)
    BY <1>1, <1>3 DEF RowStands, SameRow, old, new
  <2>3. AnswersStand => AnswersStand'
    BY <1>2, <1>3 DEF AnswersStand, old, new
  <2> QED BY <1>1, <1>2, <1>3, <2>1, <2>2, <2>3 DEF RowStands, SameRow, old, new
<1> QED BY <1>2, <1>3, <1>4, <1>5 DEF VInv, new

\* The summary: it begins in its invariant,
LEMMA ViewBegins ==
  ASSUME ViewInit
  PROVE  VInv
<1>1. IInv
  BY InitHolds DEF ViewInit
<1>2. view.got = {} /\ view.shown = Opened /\ view = [got |-> {}, shown |-> Opened]
  BY DEF ViewInit, NoView
<1> QED BY <1>1, <1>2, OpenedIsWorkOrder DEF VInv

\* keeps it in every step,
LEMMA ViewStepKeeps ==
  ASSUME VInv, [ViewNext]_viewVars
  PROVE  VInv'
<1>1. CASE Next /\ UNCHANGED view
  <2>1. IInv'
    BY <1>1, EditKeeps, DiagnoseKeeps, MovePartsKeeps, CloseKeeps, DecideKeeps, QuoteKeeps
       DEF Next, VInv
  <2> QED BY <1>1, <2>1, CommandKeepsView
<1>2. CASE ShowRow
  BY <1>2, ShowRowKeeps
<1>3. CASE ShowServices \/ ShowParts \/ ShowBudgets
  BY <1>3, ShowColumnKeeps
<1>4. CASE Answer
  <2>1. view' = [got |-> {}, shown |-> Opened] /\ UNCHANGED vars
    BY <1>4 DEF Answer, NoView
  <2>2. IInv'
    BY <2>1, StutterKeeps DEF VInv
  <2>3. view'.got = {} /\ view'.shown = Opened
    BY <2>1
  <2> QED BY <2>1, <2>2, <2>3, OpenedIsWorkOrder DEF VInv
<1>5. CASE UNCHANGED viewVars
  <2>1. wo' = wo /\ view' = view /\ UNCHANGED vars
    BY <1>5 DEF viewVars, vars
  <2>2. IInv'
    BY <2>1, StutterKeeps DEF VInv
  <2> QED BY <2>1, <2>2 DEF VInv, RowStands, AnswersStand, SameRow
<1> QED BY <1>1, <1>2, <1>3, <1>4, <1>5 DEF ViewNext, Ask

\* and shows what may be relied on.
LEMMA ViewIsTrue ==
  ASSUME VInv
  PROVE  SummaryIsTrue
<1>1. ViewTypeOK
  BY DEF VInv, IInv, ViewTypeOK
<1>2. Answered => RowStands /\ view.got = Queries
  BY DEF VInv, Answered, Queries
<1>3. ShownStatusHasItsRounds
  BY <1>2 DEF ShownStatusHasItsRounds, RowStands, HasRounds, Started, Queries
<1>4. ShownChargeAddsUp
  <2> SUFFICES ASSUME Answered, view.shown.status \in {"COMPLETED", "DELIVERED"}
               PROVE  view.shown.charged = Charge(view.shown) - view.shown.discount
    BY DEF ShownChargeAddsUp
  <2>1. /\ view.shown.charged = Charge(wo) - view.shown.discount
        /\ view.shown.services = wo.services /\ view.shown.parts = wo.parts
        /\ view.shown.budgets = wo.budgets
    BY <1>2 DEF RowStands, AnswersStand, Settled, Queries
  <2> QED BY <2>1, ChargeKept
<1>5. ClosedViewIsTheOrder
  <2> SUFFICES ASSUME Answered, view.shown.status \in {"DELIVERED", "CANCELED"}
               PROVE  view.shown = wo
    BY DEF ClosedViewIsTheOrder
  <2>1. /\ SameRow(view.shown, wo)
        /\ view.shown.services = wo.services /\ view.shown.parts = wo.parts
        /\ view.shown.budgets = wo.budgets
    BY <1>2 DEF RowStands, AnswersStand, Closed, Queries
  <2> QED BY <2>1, SameColumns DEF VInv, IInv, TypeOK
<1> QED BY <1>1, <1>3, <1>4, <1>5 DEF SummaryIsTrue

\* The summary may be relied on for every value of the constants, whatever is saved
\* between its queries (TypeOrmWorkOrderQueryAdapter.toDtos).
THEOREM SummariesStayTrue == ViewSpec => []SummaryIsTrue
<1>1. ViewInit => VInv
  BY ViewBegins
<1>2. VInv /\ [ViewNext]_viewVars => VInv'
  BY ViewStepKeeps
<1>3. VInv => SummaryIsTrue
  BY ViewIsTrue
<1> QED BY <1>1, <1>2, <1>3, PTL DEF ViewSpec

-------------------------------------------------------------------------------
(* The mails; their inductive invariant. *)

\* Two events name the same round.
SameRound(e, f) == e.budget # NoLink /\ f.budget # NoLink /\ e.budget.round = f.budget.round

\* The history and the events are of saves that have been made.
TrailIsOfSaves ==
  /\ DOMAIN trail \subseteq 0 .. version
  /\ DOMAIN mails \subseteq DOMAIN trail
  /\ mails = [v \in DOMAIN mails |-> [at |-> mails[v].at, event |-> mails[v].event]]
  /\ \A v \in DOMAIN mails : mails[v].event = trail[v]

\* An event that asks for a decision names a generation of a round the work order still
\* has, and no two events name the same.
GenerationsAreTold ==
  /\ \A v \in DOMAIN mails : LET link == mails[v].event.budget IN
       link # NoLink =>
         /\ link.round \in DOMAIN wo.budgets
         /\ link.generation \in Nat
         /\ link.generation <= wo.budgets[link.round].generation
  /\ \A u, v \in DOMAIN mails :
       u # v /\ SameRound(mails[u].event, mails[v].event) =>
         mails[u].event.budget.generation # mails[v].event.budget.generation

\* A message was made of the event of its save.
MessagesAreEvents ==
  \A mail \in inbox : mail.of \in DOMAIN mails /\ mail.message = mails[mail.of].event

MInv == SInv /\ TrailIsOfSaves /\ GenerationsAreTold /\ MessagesAreEvents

\* The budget an event asks to decide is the pending round of the work order it tells of.
LEMMA EventNamesPendingRound ==
  ASSUME IInv, wo.status = "AWAITING_APPROVAL"
  PROVE  LET link == BudgetToDecide(wo) IN
         /\ link.round \in PendingRounds(wo)
         /\ link.generation = wo.budgets[link.round].generation
<1>1. Len(wo.budgets) \in PendingRounds(wo)
  BY DEF IInv, PendingWhileAwaiting
<1>2. LinkOf(wo, Len(wo.budgets)) \in Mailed(wo)
  BY <1>1 DEF Mailed
<1>3. BudgetToDecide(wo) \in Mailed(wo)
  BY <1>2 DEF BudgetToDecide
<1>4. PICK r \in PendingRounds(wo) : BudgetToDecide(wo) = LinkOf(wo, r)
  BY <1>3 DEF Mailed
<1> QED BY <1>4 DEF LinkOf

\* A save that changes the status is told by an event of its own; any save goes into
\* the history.
LEMMA SaveIsTold ==
  ASSUME MInv, NEW c \in Requests, SaveWithEvents(c)
  PROVE  MInv'
<1>1. SInv' /\ Next /\ Lands(c)
  BY SaveKeeps, SaveIsCommand DEF SaveWithEvents, MInv
<1>2. version \in Nat /\ version' = version + 1
  <2>1. StoreTypeOK
    BY DEF MInv, SInv
  <2>2. version \in 0 .. MaxVersion
    BY <2>1, Zenon DEF StoreTypeOK
  <2>3. version' = version + 1
    BY <1>1, Zenon DEF Lands
  <2> QED BY <2>2, <2>3
<1>3. version' \notin DOMAIN trail /\ version' \notin DOMAIN mails
  BY <1>2 DEF MInv, TrailIsOfSaves
<1>4. /\ DOMAIN trail' = DOMAIN trail \cup {version'}
      /\ trail'[version'] = Tells(wo')
      /\ \A v \in DOMAIN trail : trail'[v] = trail[v]
  BY <1>3 DEF SaveWithEvents, Extended
<1>5. \/ wo'.status = wo.status /\ mails' = mails
      \/ /\ wo'.status # wo.status
         /\ mails' = [v \in DOMAIN mails \cup {version'} |->
                        IF v = version' THEN [at |-> "unpublished", event |-> Tells(wo')]
                        ELSE mails[v]]
  BY DEF SaveWithEvents, Recorded, Extended
<1>6. /\ DOMAIN mails' \in {DOMAIN mails, DOMAIN mails \cup {version'}}
      /\ \A v \in DOMAIN mails : mails'[v] = mails[v]
      /\ version' \in DOMAIN mails' =>
           wo'.status # wo.status /\ mails'[version'].event = Tells(wo')
  BY <1>3, <1>5
<1>7. TrailIsOfSaves'
  <2>1. DOMAIN trail' \subseteq 0 .. version'
    BY <1>2, <1>4 DEF MInv, TrailIsOfSaves
  <2>2. mails' = [v \in DOMAIN mails' |-> [at |-> mails'[v].at, event |-> mails'[v].event]]
    <3>1. \A v \in DOMAIN mails : mails[v] = [at |-> mails[v].at, event |-> mails[v].event]
      BY DEF MInv, TrailIsOfSaves
    <3>2. CASE mails' = mails
      BY <3>2 DEF MInv, TrailIsOfSaves
    <3>3. CASE mails' # mails
      BY <1>3, <1>5, <3>1, <3>3
    <3> QED BY <3>2, <3>3
  <2>3. DOMAIN mails' \subseteq DOMAIN trail' /\ \A v \in DOMAIN mails' : mails'[v].event = trail'[v]
    BY <1>4, <1>6 DEF MInv, TrailIsOfSaves
  <2> QED BY <2>1, <2>2, <2>3 DEF TrailIsOfSaves
<1>8. MessagesAreEvents'
  BY <1>6 DEF MInv, MessagesAreEvents, SaveWithEvents
<1>9. GenerationsAreTold'
  <2> DEFINE link == mails'[version'].event.budget
  <2>1. /\ DOMAIN wo.budgets \subseteq DOMAIN wo'.budgets
        /\ \A r \in DOMAIN wo.budgets :
             /\ wo.budgets[r].generation \in Nat
             /\ wo.budgets[r].generation <= wo'.budgets[r].generation
        /\ \A r \in DOMAIN wo'.budgets : wo'.budgets[r].generation \in Nat
    <3>1. SInv => \A r \in DOMAIN wo.budgets : wo.budgets[r].generation \in Nat
      BY DEF SInv, IInv, TypeOK, IsWorkOrder, IsBudget
    <3>2. SInv' => \A r \in DOMAIN wo'.budgets : wo'.budgets[r].generation \in Nat
      BY DEF SInv, IInv, TypeOK, IsWorkOrder, IsBudget
    <3> QED BY <1>1, <3>1, <3>2, GenerationsGoOn DEF MInv, SInv
  <2>2. ASSUME version' \in DOMAIN mails', link # NoLink
        PROVE  /\ link.round \in DOMAIN wo'.budgets
               /\ link.generation = wo'.budgets[link.round].generation
               /\ link.round \in DOMAIN wo.budgets =>
                    wo.budgets[link.round].generation < link.generation
    <3>1. wo'.status # wo.status /\ link = BudgetToDecide(wo')
      BY <1>6, <2>2 DEF Tells
    <3>2. wo'.status = "AWAITING_APPROVAL"
      BY <2>2, <3>1 DEF BudgetToDecide
    <3>3. IInv'
      BY <1>1 DEF SInv
    <3>4. (IInv /\ wo.status = "AWAITING_APPROVAL")' =>
            (/\ BudgetToDecide(wo).round \in PendingRounds(wo)
             /\ BudgetToDecide(wo).generation = wo.budgets[BudgetToDecide(wo).round].generation)'
      BY EventNamesPendingRound, PTL
    <3>5. /\ link.round \in PendingRounds(wo')
          /\ link.generation = wo'.budgets[link.round].generation
      BY <3>1, <3>2, <3>3, <3>4
    <3> QED BY <1>1, <3>1, <3>2, <3>5, GenerationsGoOn DEF MInv, SInv, PendingRounds
  <2>3. ASSUME NEW v \in DOMAIN mails, mails[v].event.budget # NoLink
        PROVE  LET old == mails[v].event.budget IN
               /\ old.round \in DOMAIN wo.budgets /\ old.generation \in Nat
               /\ old.generation <= wo.budgets[old.round].generation
    BY <2>3 DEF MInv, GenerationsAreTold
  <2>4. ASSUME NEW v \in DOMAIN mails', mails'[v].event.budget # NoLink
        PROVE  LET new == mails'[v].event.budget IN
               /\ new.round \in DOMAIN wo'.budgets /\ new.generation \in Nat
               /\ new.generation <= wo'.budgets[new.round].generation
    <3>1. CASE v = version'
      BY <2>1, <2>2, <2>4, <3>1
    <3>2. CASE v \in DOMAIN mails
      BY <1>6, <2>1, <2>3, <2>4, <3>2
    <3> QED BY <1>6, <3>1, <3>2
  <2>5. ASSUME version' \in DOMAIN mails', NEW v \in DOMAIN mails,
               SameRound(mails[v].event, mails'[version'].event)
        PROVE  mails[v].event.budget.generation # link.generation
    <3>1. /\ link # NoLink /\ mails[v].event.budget # NoLink
          /\ mails[v].event.budget.round = link.round
      BY <2>5 DEF SameRound
    <3> QED BY <2>1, <2>2, <2>3, <2>5, <3>1
  <2>6. ASSUME NEW u \in DOMAIN mails', NEW v \in DOMAIN mails', u # v,
               SameRound(mails'[u].event, mails'[v].event)
        PROVE  mails'[u].event.budget.generation # mails'[v].event.budget.generation
    <3>1. CASE u \in DOMAIN mails /\ v \in DOMAIN mails
      BY <1>6, <2>6, <3>1 DEF MInv, GenerationsAreTold
    <3>2. CASE u = version' /\ v \in DOMAIN mails
      BY <1>6, <2>5, <2>6, <3>2 DEF SameRound
    <3>3. CASE v = version' /\ u \in DOMAIN mails
      BY <1>6, <2>5, <2>6, <3>3 DEF SameRound
    <3> QED BY <1>6, <2>6, <3>1, <3>2, <3>3
  <2> QED BY <2>4, <2>6 DEF GenerationsAreTold
<1> QED BY <1>1, <1>7, <1>8, <1>9 DEF MInv

\* A step that leaves the work order, its history and the events alone.
LEMMA NothingNewToTell ==
  ASSUME MInv, SInv', wo' = wo, version' = version, trail' = trail,
         DOMAIN mails' = DOMAIN mails,
         mails' = [v \in DOMAIN mails' |-> [at |-> mails'[v].at, event |-> mails'[v].event]],
         \A v \in DOMAIN mails : mails'[v].event = mails[v].event,
         \A mail \in inbox' : \/ mail \in inbox
                              \/ mail.of \in DOMAIN mails /\ mail.message = mails[mail.of].event
  PROVE  MInv'
  BY DEF MInv, TrailIsOfSaves, GenerationsAreTold, MessagesAreEvents, SameRound

\* The dispatcher and the subscriber move a mail on, and the server takes a message.
LEMMA MailStepKeeps ==
  ASSUME MInv, NEW v \in DOMAIN mails, Mail(v) \/ Stop(v)
  PROVE  MInv'
<1>1. /\ UNCHANGED <<storeVars, trail>>
      /\ \E to : mails' = [mails EXCEPT ![v].at = to]
      /\ inbox' \in {inbox, inbox \cup {Composed(v)}}
  BY DEF Mail, Publish, FindCustomer, LookupFails, Send, Stop, Moves
<1>2. PICK to : mails' = [mails EXCEPT ![v].at = to]
  BY <1>1
<1>3. \A u \in DOMAIN mails : mails[u] = [at |-> mails[u].at, event |-> mails[u].event]
  BY DEF MInv, TrailIsOfSaves
<1>4. mails' = [u \in DOMAIN mails |-> [at |-> IF u = v THEN to ELSE mails[u].at,
                                         event |-> mails[u].event]]
  <2>1. /\ DOMAIN mails' = DOMAIN mails /\ mails' = [u \in DOMAIN mails |-> mails'[u]]
        /\ \A u \in DOMAIN mails : u # v => mails'[u] = mails[u]
        /\ mails'[v] = [mails[v] EXCEPT !.at = to]
    BY <1>2
  <2>2. mails'[v] = [at |-> to, event |-> mails[v].event]
    BY <1>3, <2>1
  <2> QED BY <1>3, <2>1, <2>2
<1>5. SInv' /\ wo' = wo /\ version' = version /\ trail' = trail
  BY <1>1, StoreStutterKeeps DEF MInv, storeVars
<1>6. Composed(v).of = v /\ Composed(v).message = mails[v].event
  BY DEF Composed
<1> QED BY <1>1, <1>4, <1>5, <1>6, NothingNewToTell

\* The mails: they begin in their invariant,
LEMMA MailsBegin ==
  ASSUME MailInit
  PROVE  MInv
<1>1. SInv /\ wo = Opened /\ version = 0
  BY StoreInitHolds DEF MailInit, StoreInit, Init
<1>2. wo.status = "RECEIVED"
  BY <1>1 DEF Opened
<1>3. /\ DOMAIN trail = {0} /\ DOMAIN mails = {0} /\ inbox = {}
      /\ mails[0] = [at |-> "unpublished", event |-> Tells(Opened)] /\ trail[0] = Tells(Opened)
      /\ mails = [v \in {0} |-> [at |-> "unpublished", event |-> Tells(Opened)]]
  <2>1. 0 .. 0 = {0}
    OBVIOUS
  <2> QED BY <2>1 DEF MailInit
<1>4. Tells(Opened).budget = NoLink
  BY <1>1, <1>2 DEF Tells, BudgetToDecide
<1>5. TrailIsOfSaves
  BY <1>1, <1>3 DEF TrailIsOfSaves
<1>6. GenerationsAreTold /\ MessagesAreEvents
  BY <1>3, <1>4 DEF GenerationsAreTold, MessagesAreEvents
<1> QED BY <1>1, <1>5, <1>6 DEF MInv

\* keep it in every step,
LEMMA MailNextKeeps ==
  ASSUME MInv, [MailNext]_mailVars
  PROVE  MInv'
<1>1. ASSUME NEW c \in Requests, ReadForCommand(c) \/ Refused(c)
      PROVE  MInv'
  <2>1. SInv' /\ UNCHANGED <<wo, links, version, mails, inbox, trail>>
    BY <1>1, ReadKeeps, GiveUpKeeps
       DEF ReadForCommand, Refused, Read, ReadRow, ReadServices, ReadParts, ReadBudgets,
           ReadNext, GiveUp, MInv
  <2> QED BY <2>1, NothingNewToTell DEF MInv, TrailIsOfSaves
<1>2. ASSUME NEW c \in Requests, SaveWithEvents(c)
      PROVE  MInv'
  BY <1>2, SaveIsTold
<1>3. ASSUME NEW v \in DOMAIN mails, Mail(v) \/ Stop(v)
      PROVE  MInv'
  BY <1>3, MailStepKeeps
<1>4. CASE UNCHANGED mailVars
  <2>1. UNCHANGED storeVars /\ UNCHANGED <<wo, version, mails, inbox, trail>>
    BY <1>4 DEF mailVars, storeVars
  <2>2. SInv'
    BY <2>1, StoreStutterKeeps DEF MInv
  <2> QED BY <2>1, <2>2, NothingNewToTell DEF MInv, TrailIsOfSaves
<1> QED BY <1>1, <1>2, <1>3, <1>4 DEF MailNext

\* and tell of changes that were committed.
LEMMA MailsAreTrue ==
  ASSUME MInv
  PROVE  MailsTellCommittedChanges /\ OneCurrentLink
<1>1. MailsTellCommittedChanges
  BY DEF MInv, TrailIsOfSaves, MessagesAreEvents, MailsTellCommittedChanges
<1>2. OneCurrentLink
  BY DEF MInv, MessagesAreEvents, GenerationsAreTold, SameRound, OneCurrentLink, LinkIsCurrent
<1> QED BY <1>1, <1>2

\* Every message tells of a change that was committed, in its words, and no two messages
\* hold a link to the same round that is still current, however the sends of several
\* changes run side by side.
THEOREM MailsStayTrue == MailSpec => [](MailsTellCommittedChanges /\ OneCurrentLink)
<1>1. MailInit => MInv
  BY MailsBegin
<1>2. MInv /\ [MailNext]_mailVars => MInv'
  BY MailNextKeeps
<1>3. MInv => MailsTellCommittedChanges /\ OneCurrentLink
  BY MailsAreTrue
<1> QED BY <1>1, <1>2, <1>3, PTL DEF MailSpec

-------------------------------------------------------------------------------
(* Both beside the requests; the invariant is that of each. *)

\* To a summary, a step of the requests or of the mails is a command or nothing.
LEMMA MailNextKeepsView ==
  ASSUME MInv, MInv', VInv, MailNext, UNCHANGED view
  PROVE  VInv'
<1>1. IInv'
  BY DEF MInv, SInv
<1>2. ASSUME UNCHANGED vars
      PROVE  VInv'
  <2>1. UNCHANGED viewVars
    BY <1>2 DEF vars, viewVars
  <2> QED BY <2>1, ViewStepKeeps
<1>3. ASSUME NEW c \in Requests, ReadForCommand(c) \/ Refused(c)
      PROVE  VInv'
  <2>1. UNCHANGED vars
    BY <1>3 DEF ReadForCommand, Refused, Read, ReadRow, ReadServices, ReadParts, ReadBudgets,
                ReadNext, GiveUp, vars
  <2> QED BY <1>2, <2>1
<1>4. ASSUME NEW c \in Requests, SaveWithEvents(c)
      PROVE  VInv'
  <2>1. Next
    BY <1>4, SaveIsCommand DEF SaveWithEvents, MInv
  <2> QED BY <1>1, <2>1, CommandKeepsView
<1>5. ASSUME NEW v \in DOMAIN mails, Mail(v) \/ Stop(v)
      PROVE  VInv'
  <2>1. UNCHANGED vars
    BY <1>5 DEF Mail, Publish, FindCustomer, LookupFails, Send, Stop, Moves, storeVars, vars
  <2> QED BY <1>2, <2>1
<1> QED BY <1>3, <1>4, <1>5 DEF MailNext

\* Whatever requests save between the queries of a summary and while mails of earlier
\* changes are still on their way, a summary may be relied on, a mail tells of the
\* change it was sent for, and no two mails carry a link that decides the same round
\* (TypeOrmWorkOrderQueryAdapter.toDtos, StatusMailSubscriber, WorkOrder.decide).
THEOREM ReadersStayTold == ReadersSpec => []ReadersAreToldTheTruth
<1>1. ReadersInit => VInv /\ MInv
  <2> SUFFICES ASSUME ReadersInit PROVE VInv /\ MInv
    OBVIOUS
  <2>1. MailInit /\ ViewInit
    BY DEF ReadersInit, MailInit, StoreInit, ViewInit
  <2> QED BY <2>1, ViewBegins, MailsBegin
<1>2. VInv /\ MInv /\ [ReadersNext]_readersVars => VInv' /\ MInv'
  <2> SUFFICES ASSUME VInv, MInv, [ReadersNext]_readersVars PROVE VInv' /\ MInv'
    OBVIOUS
  <2>1. CASE MailNext /\ UNCHANGED view
    BY <2>1, MailNextKeeps, MailNextKeepsView
  <2>2. CASE Ask /\ UNCHANGED mailVars
    BY <2>2, ViewStepKeeps, MailNextKeeps DEF ViewNext
  <2>3. CASE UNCHANGED readersVars
    <3>1. UNCHANGED mailVars /\ UNCHANGED viewVars
      BY <2>3 DEF readersVars, mailVars, storeVars, viewVars
    <3> QED BY <3>1, ViewStepKeeps, MailNextKeeps
  <2> QED BY <2>1, <2>2, <2>3 DEF ReadersNext
<1>3. VInv /\ MInv => ReadersAreToldTheTruth
  BY ViewIsTrue, MailsAreTrue DEF ReadersAreToldTheTruth
<1> QED BY <1>1, <1>2, <1>3, PTL DEF ReadersSpec
=============
