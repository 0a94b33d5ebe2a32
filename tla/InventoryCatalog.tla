--------------------------- MODULE InventoryCatalog ---------------------------
(***************************************************************************)
(* The items of the inventory and the requests that change them at once.   *)
(* A request of the catalog reads its item without a lock, works on the    *)
(* copy, and saves it in a transaction that locks the row: the count is    *)
(* taken from the locked row, every other column from the copy.  A batch   *)
(* of a work order locks all of its items, one after the other in the      *)
(* order of their keys, before it changes any.  What a batch does to the   *)
(* consumptions is in StockLedger; here it moves the same units of each    *)
(* of its items.                                                           *)
(***************************************************************************)
EXTENDS Integers, FiniteSets

CONSTANTS
  Items, Skus, Prices,
  SkuOf,          \* the SKU of each item, which never changes
  Key,            \* the key the sequence gives to each item
  Stocked,        \* the items of the catalog at the start, all active
  Opening,        \* how many units of each are on the shelf then
  ItemRequests,   \* requests that may run at once; each runs once
  NoRequest,      \* nobody holds the lock
  ItemOps,        \* what they may do, of AllOps
  MaxUnits        \* bound: how many units a movement moves

Singles == {"create", "update", "deactivate", "replenish", "adjust", "plan"}
Batches == {"consume", "restore"}
AllOps == Singles \cup Batches

\* What an instance must make of the constants.
CatalogAssumption ==
  /\ SkuOf \in [Items -> Skus] /\ Items # {} /\ Prices # {} /\ Stocked \subseteq Items
  /\ Key \in [Items -> Nat] /\ \A i, j \in Items : Key[i] = Key[j] => i = j
  /\ \A i, j \in Stocked : SkuOf[i] = SkuOf[j] => i = j
  /\ NoRequest \notin ItemRequests /\ ItemOps \subseteq AllOps
  /\ Opening \in Nat /\ MaxUnits \in Nat

VARIABLES
  rows,       \* the items that have a row in inventory_items
  status,     \* its columns: the status of each item
  price,      \* its unit price
  count,      \* its quantity on hand
  moved,      \* stock_movements: the signed sum of the movements of each item
  out,        \* and the units consumed that have not come back
  holder,     \* the transaction that holds the lock of each row
  planned,    \* the requests whose work order is open and plans their item
  at,         \* where each request is
  op,         \* what it does
  item,       \* the item it is about
  copy,       \* the columns it has read and changed
  batch,      \* the items of its batch
  units       \* the units it moves

table == <<rows, status, price, count, moved, out>>
local == <<op, item, copy, batch, units>>
itemVars == <<table, holder, planned, at, local>>

Copies == [status : {"ACTIVE", "INACTIVE"}, price : Prices, count : Int]

ItemsInit ==
  /\ rows = Stocked
  /\ status = [i \in Items |-> "ACTIVE"]
  /\ price \in [Items -> {CHOOSE p \in Prices : TRUE}]
  /\ count = [i \in Items |-> IF i \in Stocked THEN Opening ELSE 0]
  /\ moved = count
  /\ out = [i \in Items |-> 0]
  /\ holder = [i \in Items |-> NoRequest]
  /\ planned = {}
  /\ at = [r \in ItemRequests |-> "idle"]
  /\ op \in [ItemRequests -> {"none"}]
  /\ item \in [ItemRequests -> {CHOOSE i \in Items : TRUE}]
  /\ copy \in [ItemRequests -> {[status |-> "ACTIVE", price |-> CHOOSE p \in Prices : TRUE, count |-> 0]}]
  /\ batch = [r \in ItemRequests |-> {}]
  /\ units = [r \in ItemRequests |-> 0]

Goes(r, from, to) == at[r] = from /\ at' = [at EXCEPT ![r] = to]

SkuTaken(i) == \E j \in rows \ {i} : SkuOf[j] = SkuOf[i] /\ status[j] = "ACTIVE"

-------------------------------------------------------------------------------
(* The reads: findById and the checks on what it returned. *)

Takes(r, o, i, c, n) ==
  /\ o \in ItemOps
  /\ op' = [op EXCEPT ![r] = o] /\ item' = [item EXCEPT ![r] = i]
  /\ copy' = [copy EXCEPT ![r] = c] /\ units' = [units EXCEPT ![r] = n]
  /\ UNCHANGED <<table, holder, planned, batch>>

Row(i) == [status |-> status[i], price |-> price[i], count |-> count[i]]

StartCreate(r, i, p) ==
  /\ i \notin rows /\ ~SkuTaken(i)
  /\ \A q \in ItemRequests : op[q] = "create" => item[q] # i
  /\ Goes(r, "idle", "saving")
  /\ Takes(r, "create", i, [status |-> "ACTIVE", price |-> p, count |-> 0], 0)

StartUpdate(r, i, p) ==
  /\ i \in rows
  /\ Goes(r, "idle", "saving")
  /\ Takes(r, "update", i, [status |-> status[i], price |-> p, count |-> count[i]], 0)

\* A second deactivation is not checked, and saves the item as it was.
StartDeactivate(r, i) ==
  /\ i \in rows
  /\ Goes(r, "idle", IF status[i] = "ACTIVE" THEN "checking" ELSE "saving")
  /\ Takes(r, "deactivate", i, Row(i), 0)

StartReplenish(r, i, n) ==
  /\ i \in rows /\ n > 0
  /\ Goes(r, "idle", "saving")
  /\ Takes(r, "replenish", i, Row(i), n)

StartAdjust(r, i, n) ==
  /\ i \in rows /\ n > 0 /\ count[i] >= n
  /\ Goes(r, "idle", "saving")
  /\ Takes(r, "adjust", i, Row(i), -n)

\* Planning a part on a work order, in the module of the work orders.
StartPlan(r, i) ==
  /\ i \in rows /\ status[i] = "ACTIVE"
  /\ Goes(r, "idle", "planning")
  /\ Takes(r, "plan", i, Row(i), 0)

SavePlan(r) ==
  /\ Goes(r, "planning", "done")
  /\ planned' = planned \cup {r}
  /\ UNCHANGED <<table, holder, local>>

\* The work order is delivered or canceled.
Close(r) ==
  /\ r \in planned /\ planned' = planned \ {r}
  /\ UNCHANGED <<table, holder, at, local>>

ItemInUse(i) == \E r \in planned : item[r] = i

CheckUse(r) ==
  /\ IF ItemInUse(item[r]) THEN Goes(r, "checking", "done") /\ UNCHANGED copy
     ELSE /\ Goes(r, "checking", "saving")
          /\ copy' = [copy EXCEPT ![r] =
               [status |-> "INACTIVE", price |-> copy[r].price, count |-> copy[r].count]]
  /\ UNCHANGED <<table, holder, planned, op, item, batch, units>>

-------------------------------------------------------------------------------
(* The save of one item. *)

\* Mutation: the count comes from the copy, like every other column.
CountFromCopy(r) == copy[r].count + units[r]

\* The count of the locked row, and what the save adds to it.
NewCount(r) == count[item[r]] + units[r]

\* What the constraints of the table refuse.
Refused(r) ==
  \/ copy[r].status = "ACTIVE" /\ SkuTaken(item[r])
  \/ NewCount(r) < 0

SaveItem(r) ==
  LET i == item[r] IN
  /\ Goes(r, "saving", "done")
  /\ holder[i] = NoRequest
  /\ IF Refused(r) THEN UNCHANGED table
     ELSE /\ rows' = rows \cup {i}
          /\ status' = [status EXCEPT ![i] = copy[r].status]
          /\ price' = [price EXCEPT ![i] = copy[r].price]
          /\ count' = [count EXCEPT ![i] = NewCount(r)]
          /\ moved' = [moved EXCEPT ![i] = moved[i] + units[r]]
          /\ UNCHANGED out
  /\ UNCHANGED <<holder, planned, local>>

-------------------------------------------------------------------------------
(* The batches of the work orders. *)

StartBatch(r, o, b, n) ==
  /\ b # {} /\ b \subseteq rows /\ n > 0
  /\ Goes(r, "idle", "locking")
  /\ o \in ItemOps \cap Batches
  /\ op' = [op EXCEPT ![r] = o] /\ batch' = [batch EXCEPT ![r] = b]
  /\ units' = [units EXCEPT ![r] = n]
  /\ UNCHANGED <<table, holder, planned, item, copy>>

Waiting(r) == {i \in batch[r] : holder[i] # r}

\* Mutation: the items of a batch are locked in the order in which they were asked for.
LocksInAnyOrder(r, i) == i \in Waiting(r)

NextToLock(r, i) == i \in Waiting(r) /\ \A j \in Waiting(r) : Key[i] <= Key[j]

LockItem(r, i) ==
  /\ at[r] = "locking" /\ NextToLock(r, i)
  /\ holder[i] = NoRequest
  /\ holder' = [holder EXCEPT ![i] = r]
  /\ UNCHANGED <<table, planned, at, local>>

Releases(r) == holder' = [i \in Items |-> IF holder[i] = r THEN NoRequest ELSE holder[i]]

\* A line that is short of units, or of consumptions to give back, throws.
Short(r) ==
  \E i \in batch[r] : IF op[r] = "consume" THEN count[i] < units[r] ELSE out[i] < units[r]

ApplyBatch(r) ==
  LET consumed == IF op[r] = "consume" THEN units[r] ELSE -units[r] IN
  /\ at[r] = "locking" /\ Waiting(r) = {} /\ ~Short(r)
  /\ at' = [at EXCEPT ![r] = "done"]
  /\ count' = [i \in Items |-> IF i \in batch[r] THEN count[i] - consumed ELSE count[i]]
  /\ moved' = [i \in Items |-> IF i \in batch[r] THEN moved[i] - consumed ELSE moved[i]]
  /\ out' = [i \in Items |-> IF i \in batch[r] THEN out[i] + consumed ELSE out[i]]
  /\ Releases(r)
  /\ UNCHANGED <<rows, status, price, planned, local>>

RollBack(r) ==
  /\ Waiting(r) = {} /\ Short(r)
  /\ Goes(r, "locking", "done")
  /\ Releases(r)
  /\ UNCHANGED <<table, planned, local>>

-------------------------------------------------------------------------------
Start(r) ==
  \/ \E i \in Items, p \in Prices : StartCreate(r, i, p) \/ StartUpdate(r, i, p)
  \/ \E i \in Items : StartDeactivate(r, i) \/ StartPlan(r, i)
  \/ \E i \in Items, n \in 1..MaxUnits : StartReplenish(r, i, n) \/ StartAdjust(r, i, n)
  \/ \E o \in Batches, b \in SUBSET Items, n \in 1..MaxUnits : StartBatch(r, o, b, n)

Proceed(r) ==
  \/ SavePlan(r) \/ CheckUse(r) \/ SaveItem(r)
  \/ (\E i \in Items : LockItem(r, i)) \/ ApplyBatch(r) \/ RollBack(r)

ItemsNext == \E r \in ItemRequests : Start(r) \/ Proceed(r) \/ Close(r)

ItemsSpec == ItemsInit /\ [][ItemsNext]_itemVars

\* A request that has started goes on, and the database hands on its locks.
FairItemsSpec == ItemsSpec /\ \A r \in ItemRequests : WF_itemVars(Proceed(r))

-------------------------------------------------------------------------------
(* Properties. *)

\* The columns of the tables, and what the requests hold.
ItemsTypeOK ==
  /\ rows \subseteq Items /\ planned \subseteq ItemRequests
  /\ status \in [Items -> {"ACTIVE", "INACTIVE"}] /\ price \in [Items -> Prices]
  /\ count \in [Items -> Int] /\ moved \in [Items -> Int] /\ out \in [Items -> Nat]
  /\ holder \in [Items -> ItemRequests \cup {NoRequest}]
  /\ at \in [ItemRequests -> {"idle", "checking", "saving", "planning", "locking", "done"}]
  /\ op \in [ItemRequests -> AllOps \cup {"none"}] /\ item \in [ItemRequests -> Items]
  /\ copy \in [ItemRequests -> Copies] /\ batch \in [ItemRequests -> SUBSET Items]
  /\ units \in [ItemRequests -> Int]

\* The count is what the movements add up to and never negative, whatever runs
\* at once: a save that read its item before others moved units loses none.
CountFollowsTheMovements ==
  \A i \in Items : count[i] = moved[i] /\ count[i] >= 0

\* Two active items do not share a SKU: not after two creations at once, and not
\* after a stale save made an item active again whose SKU was given away.
ActiveSkusAreUnique ==
  \A i, j \in rows :
    i # j /\ SkuOf[i] = SkuOf[j] => "INACTIVE" \in {status[i], status[j]}

\* What a request read before the lock never loses a movement of an item or gives
\* two active items one SKU.
ItemsAreSafe == ItemsTypeOK /\ CountFollowsTheMovements /\ ActiveSkusAreUnique

\* Every request comes to its end: no two transactions wait for each other.
RequestsFinish ==
  \A r \in ItemRequests : at[r] # "idle" ~> at[r] = "done"
===============================================================================

