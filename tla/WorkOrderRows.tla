---------------------------- MODULE WorkOrderRows ----------------------------
(***************************************************************************)
(* How TypeOrmWorkOrderRepository keeps a work order in four tables.  A    *)
(* save takes the aggregate apart: it writes the rounds, then the items    *)
(* with the internal key of their round, and deletes the rows of items     *)
(* that are gone; a row that exists keeps its key.  A load puts the        *)
(* aggregate together again.  Every command acts on what was loaded, and   *)
(* wo is what the last save was given.                                     *)
(*                                                                         *)
(* The save is one transaction and so one step; who may save, and what a   *)
(* load torn by another save sees, is for WorkOrderStore.  Moments, names  *)
(* and the keys of other modules' rows are columns copied as they are.     *)
(***************************************************************************)
EXTENDS WorkOrder

CONSTANT MaxKey  \* bound: the last internal key of each table

\* What an instance must make of the constants.
MaxKeyAssumption == MaxKey \in Nat \ {0}

VARIABLES
  order,        \* the row of work_orders
  serviceRows, partRows, budgetRows,
  nextKey       \* the next internal key of each table

rows == <<order, serviceRows, partRows, budgetRows, nextKey>>
rowVars == <<vars, rows>>

Null == 0  \* no key: the keys of a table start at 1

OrderRow(w) ==
  [status |-> w.status, mechanic |-> w.mechanic, executionStarted |-> w.executionStarted,
   discount |-> w.discount, charged |-> w.charged]

RowsInit ==
  /\ Init
  /\ order = OrderRow(Opened)
  /\ serviceRows = {} /\ partRows = {} /\ budgetRows = {}
  /\ nextKey = [services |-> 1, parts |-> 1, budgets |-> 1]

-------------------------------------------------------------------------------
(* toDomain: what a load makes of the rows. *)

\* roundByBudgetInternalId: the round of the budget an item's row names.
RoundOf(key) ==
  IF key = Null THEN Draft ELSE (CHOOSE b \in budgetRows : b.key = key).round

\* Mutation: an amount of zero reads as null, as the number 0 would.
LoadedChargeOfNumber == IF order.charged = 0 THEN NotCharged ELSE order.charged

\* The driver hands a bigint back as a string, and "0" is no null.
LoadedCharge == order.charged

RowFor(table, item) == CHOOSE row \in table : row.item = item
HasRow(table, item) == \E row \in table : row.item = item

LoadedPart(p) ==
  LET row == RowFor(partRows, p) IN
  IF HasRow(partRows, p)
  THEN [round |-> RoundOf(row.budget), planned |-> row.planned, withdrawn |-> row.withdrawn]
  ELSE NoPart

LoadedBudget(r) ==
  LET row == CHOOSE b \in budgetRows : b.round = r IN
  [status |-> row.status, total |-> row.total, generation |-> row.generation,
   decision |-> row.decision]

\* The budgets are sorted by their round.
Loaded ==
  [status |-> order.status, mechanic |-> order.mechanic,
   services |-> [s \in Services |-> IF HasRow(serviceRows, s)
                                    THEN RoundOf(RowFor(serviceRows, s).budget) ELSE Absent],
   parts |-> [p \in Parts |-> LoadedPart(p)],
   budgets |-> [r \in 1 .. Cardinality(budgetRows) |-> LoadedBudget(r)],
   executionStarted |-> order.executionStarted,
   discount |-> order.discount, charged |-> LoadedCharge]

-------------------------------------------------------------------------------
(* toOrm and save: the rows an aggregate leaves. *)

\* Mutation: every row is written as a new one.
KeyOfNewRow(existing, fresh) == fresh

\* The row an entity already has keeps its key.
KeyOf(existing, fresh) ==
  IF existing = {} THEN fresh ELSE (CHOOSE row \in existing : TRUE).key

\* replaceBudgets: no round is ever removed.
BudgetRowsOf(w) ==
  {[key |-> KeyOf({b \in budgetRows : b.round = r}, nextKey.budgets), round |-> r,
    status |-> w.budgets[r].status, total |-> w.budgets[r].total,
    generation |-> w.budgets[r].generation, decision |-> w.budgets[r].decision]
     : r \in DOMAIN w.budgets}

\* Mutation: the items are written before the rounds.
BudgetKeyBefore(round) ==
  IF \E b \in budgetRows : b.round = round
  THEN (CHOOSE b \in budgetRows : b.round = round).key ELSE Null

\* internalIdByRound: the keys of the rounds as just written.
BudgetKey(round) ==
  IF round = Draft THEN Null ELSE (CHOOSE b \in budgetRows' : b.round = round).key

\* replaceServiceItems
ServiceRowsOf(w) ==
  {[key |-> KeyOf({row \in serviceRows : row.item = s}, nextKey.services), item |-> s,
    budget |-> BudgetKey(w.services[s])]
     : s \in {x \in Services : w.services[x] # Absent}}

\* replacePartItems
PartRowsOf(w) ==
  {[key |-> KeyOf({row \in partRows : row.item = p}, nextKey.parts), item |-> p,
    budget |-> BudgetKey(w.parts[p].round),
    planned |-> w.parts[p].planned, withdrawn |-> w.parts[p].withdrawn]
     : p \in {x \in Parts : w.parts[x].round # Absent}}

After(key, table) == IF \E row \in table : row.key = key THEN key + 1 ELSE key

\* A command adds at most one row to a table, which takes the next key.
SaveRows(w) ==
  /\ order' = OrderRow(w)
  /\ budgetRows' = BudgetRowsOf(w)
  /\ serviceRows' = ServiceRowsOf(w)
  /\ partRows' = PartRowsOf(w)
  /\ nextKey' = [services |-> After(nextKey.services, serviceRows'),
                 parts |-> After(nextKey.parts, partRows'),
                 budgets |-> After(nextKey.budgets, budgetRows')]
  /\ \A table \in DOMAIN nextKey : nextKey'[table] <= MaxKey + 1

-------------------------------------------------------------------------------
(* A request: it loads, runs a command and saves. *)

SaveEdited ==
  /\ AddService(Loaded, wo') \/ PlanPart(Loaded, wo') \/ RemoveItem(Loaded, wo')
       \/ AssignMechanic(Loaded, wo')
  /\ SaveRows(wo') /\ UNCHANGED links

SaveDiagnosed == StartDiagnosis(Loaded, wo') /\ SaveRows(wo') /\ UNCHANGED links

SaveQuoted ==
  /\ CompleteDiagnosis(Loaded, wo') \/ SubmitSupplementaryBudget(Loaded, wo')
  /\ SaveRows(wo') /\ links' = links \cup Mailed(wo')

SaveDecided ==
  /\ ApproveBudget(Loaded, wo', links) \/ RejectBudget(Loaded, wo', links)
  /\ SaveRows(wo') /\ UNCHANGED links

SaveMoved ==
  /\ WithdrawParts(Loaded, wo') \/ ReturnParts(Loaded, wo')
  /\ SaveRows(wo') /\ UNCHANGED links

SaveClosed ==
  /\ ApplyDiscount(Loaded, wo') \/ Complete(Loaded, wo') \/ Deliver(Loaded, wo')
       \/ Cancel(Loaded, wo')
  /\ SaveRows(wo') /\ UNCHANGED links

RowsNext ==
  SaveEdited \/ SaveDiagnosed \/ SaveQuoted \/ SaveDecided \/ SaveMoved \/ SaveClosed

RowsSpec == RowsInit /\ [][RowsNext]_rowVars

-------------------------------------------------------------------------------
Key == 1 .. MaxKey

RowsTypeOK ==
  /\ TypeOK
  /\ \A row \in serviceRows : row.key \in Key /\ row.budget \in Key \cup {Null}
  /\ \A row \in partRows : row.key \in Key /\ row.budget \in Key \cup {Null}
  /\ \A row \in budgetRows : row.key \in Key
  /\ \A table \in DOMAIN nextKey : nextKey[table] \in 1 .. MaxKey + 1

(* A load gives back the very aggregate the last save was given: every     *)
(* item in its round, the rounds in their order, removed items gone, and   *)
(* an amount of zero no null (work-order.mapper.ts, save).                 *)
LoadsWhatWasSaved == Loaded = wo

\* The rows keep their types and tell the order that was saved.
RowsTellTheOrder == RowsTypeOK /\ LoadsWhatWasSaved

(* The tables are what a visit promises its users: every save, made of     *)
(* what was loaded, is one command of WorkOrder.                           *)
Promise == INSTANCE WorkOrder WITH wo <- Loaded
KeepsWorkOrder == Promise!Spec

\* What a save may do to a table: a row that stays keeps the key by which
\* others name it, and no key is given to a second entity.
KeepsKeys(table, next, Entity(_)) ==
  \A was \in table, row \in next : row.key = was.key <=> Entity(row) = Entity(was)

KeysAreKept ==
  /\ KeepsKeys(serviceRows, serviceRows', LAMBDA row : row.item)
  /\ KeepsKeys(partRows, partRows', LAMBDA row : row.item)
  /\ KeepsKeys(budgetRows, budgetRows', LAMBDA row : row.round)

(* A row keeps its key as long as its item or round exists, so what names  *)
(* it goes on naming it; no key is ever used again                         *)
(* (replaceBudgets, replaceServiceItems, replacePartItems).                *)
RowsKeepTheirKeys == [][KeysAreKept]_rows
===============================================================================
