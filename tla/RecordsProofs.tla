----------------------------- MODULE RecordsProofs -----------------------------
(***************************************************************************)
(* The catalogs of services and of items, the registry of customers and    *)
(* vehicles, the openings over it, the trail of a work order and the       *)
(* report of shortages keep their promises whatever they hold at the start *)
(* and however many requests run at once, and the seed leaves the workshop *)
(* whole however many of its runs overtake each other.                     *)
(***************************************************************************)
EXTENDS InventoryCatalog, ServiceCatalog, WorkOrderOpening, WorkOrderTrail,
        StockShortages, Seed, SumLemmas, TLAPS

-------------------------------------------------------------------------------
(* The services on offer. *)

ServicesInv == ServicesTypeOK /\ ActiveNamesAreUnique

LEMMA ServicesBegin ==
  ASSUME ServiceAssumption, ServicesInit
  PROVE  ServicesInv
<1>1. (CHOOSE s \in Services : TRUE) \in Services
  BY DEF ServiceAssumption
<1>2. ServicesTypeOK
  BY <1>1 DEF ServicesInit, ServicesTypeOK, ServiceRows, ServiceAssumption
<1>3. ActiveNamesAreUnique
  BY DEF ServicesInit, ActiveNamesAreUnique, Active, ServiceAssumption
<1> QED BY <1>2, <1>3 DEF ServicesInv

\* A request that takes a row of its own, whatever its place, leaves the list alone.
LEMMA DraftKeeps ==
  ASSUME ServicesInv, NEW r \in ServiceRequests, NEW to \in {"naming", "saving"}, NEW o,
         NEW s \in Services, NEW mine \in ServiceRows, mine # NoService,
         Passes(r, "idle", to), Drafts(r, o, s, mine)
  PROVE  ServicesInv'
<1>1. ServicesTypeOK'
  BY DEF ServicesInv, ServicesTypeOK, Passes, Drafts
<1>2. ActiveNamesAreUnique'
  BY DEF ServicesInv, ActiveNamesAreUnique, Active, Drafts
<1> QED BY <1>1, <1>2 DEF ServicesInv

LEMMA SaveServiceKeeps ==
  ASSUME ServiceAssumption, ServicesInv, NEW r \in ServiceRequests, SaveService(r)
  PROVE  ServicesInv'
<1>1. PICK s, mine : s = service[r] /\ mine = draft[r]
  OBVIOUS
<1>2. s \in Services /\ mine \in ServiceRows /\ mine # NoService
  BY <1>1 DEF SaveService, Passes, ServicesInv, ServicesTypeOK
<1>3. \/ services' = services
      \/ /\ services' = [services EXCEPT ![s] = mine]
         /\ mine.status = "ACTIVE" => ~NameInUse(mine.name, s)
  BY <1>1 DEF SaveService, NameRefused
<1>4. ServicesTypeOK'
  BY <1>2, <1>3 DEF ServicesInv, ServicesTypeOK, SaveService, Passes
<1>5. ActiveNamesAreUnique'
  BY <1>2, <1>3 DEF ServicesInv, ServicesTypeOK, ActiveNamesAreUnique, Active, NameInUse
<1> QED BY <1>4, <1>5 DEF ServicesInv

LEMMA ServicesStep ==
  ASSUME ServiceAssumption, ServicesInv, [ServicesNext]_serviceVars
  PROVE  ServicesInv'
<1>1. CASE UNCHANGED serviceVars
  BY <1>1 DEF ServicesInv, ServicesTypeOK, ActiveNamesAreUnique, Active, serviceVars
<1>2. ASSUME NEW r \in ServiceRequests, CheckName(r)
      PROVE  ServicesInv'
  BY <1>2 DEF CheckName, Passes, ServicesInv, ServicesTypeOK, ActiveNamesAreUnique, Active
<1>3. ASSUME NEW r \in ServiceRequests, NEW s \in Services, RepriceService(r, s)
      PROVE  ServicesInv'
  <2>1. services[s] \in ServiceRows /\ services[s] # NoService
    BY <1>3 DEF RepriceService, ServicesInv, ServicesTypeOK
  <2> QED BY <1>3, <2>1, DraftKeeps DEF RepriceService
<1>4. ASSUME NEW r \in ServiceRequests, NEW s \in Services, DeactivateService(r, s)
      PROVE  ServicesInv'
  <2>1. services[s] \in ServiceRows
    BY <1>4 DEF DeactivateService, ServicesInv, ServicesTypeOK
  <2>2. PICK mine : mine = [name |-> services[s].name, status |-> "INACTIVE"]
    OBVIOUS
  <2>3. mine \in ServiceRows /\ mine # NoService
    BY <2>1, <2>2 DEF ServiceRows, ServiceAssumption
  <2> QED BY <1>4, <2>2, <2>3, DraftKeeps DEF DeactivateService
<1>5. ASSUME NEW r \in ServiceRequests, NEW s \in Services, NEW name \in Names,
             CreateService(r, s, name)
      PROVE  ServicesInv'
  <2>1. PICK mine : mine = [name |-> name, status |-> "ACTIVE"]
    OBVIOUS
  <2>2. mine \in ServiceRows /\ mine # NoService
    BY <2>1 DEF ServiceRows, ServiceAssumption
  <2> QED BY <1>5, <2>1, <2>2, DraftKeeps DEF CreateService
<1>6. ASSUME NEW r \in ServiceRequests, NEW s \in Services, NEW name \in Names,
             RenameService(r, s, name)
      PROVE  ServicesInv'
  <2>1. services[s] \in ServiceRows
    BY <1>6 DEF RenameService, ServicesInv, ServicesTypeOK
  <2>2. PICK mine : mine = [name |-> name, status |-> services[s].status]
    OBVIOUS
  <2>3. mine \in ServiceRows /\ mine # NoService
    BY <2>1, <2>2 DEF ServiceRows, ServiceAssumption
  <2> QED BY <1>6, <2>2, <2>3, DraftKeeps DEF RenameService
<1> QED BY <1>1, <1>2, <1>3, <1>4, <1>5, <1>6, SaveServiceKeeps DEF ServicesNext

\* The save of a request on its way to its end is its own, and takes the service
\* off the list.
LEMMA DeactivationSaved ==
  ASSUME ServicesInv, [ServicesNext]_serviceVars, NEW r \in ServiceRequests,
         asking[r] = "saving", asking'[r] = "done", draft[r].status = "INACTIVE"
  PROVE  ~Active(service[r])'
<1>1. ~UNCHANGED serviceVars
  BY DEF serviceVars
<1>2. \A q \in ServiceRequests : \A from, to : q # r \/ from # "saving" => ~Passes(q, from, to)
  BY DEF Passes, ServicesInv, ServicesTypeOK
<1>3. SaveService(r)
  BY <1>1, <1>2 DEF ServicesNext, SaveService, CheckName, CreateService, RenameService,
     RepriceService, DeactivateService
<1>4. /\ service' = service /\ service[r] \in Services
      /\ services' = [services EXCEPT ![service[r]] = draft[r]]
  BY <1>3 DEF SaveService, NameRefused, ServicesInv, ServicesTypeOK
<1> QED BY <1>4 DEF Active, ServicesInv, ServicesTypeOK

\* Whatever requests run at once, two active services never have one name, and a
\* deactivation is never refused: for every catalog, every list it starts with and
\* any number of requests.
THEOREM ServicesStaySafe ==
  ASSUME ServiceAssumption
  PROVE  ServicesSpec => ServicesAreSafe
<1>1. ServicesInit => ServicesInv
  BY ServicesBegin
<1>2. ServicesInv /\ [ServicesNext]_serviceVars => ServicesInv'
  BY ServicesStep
<1>3. ServicesInv => ServicesTypeOK /\ ActiveNamesAreUnique
  BY DEF ServicesInv
<1>4. ServicesInv /\ [ServicesNext]_serviceVars =>
        [\A r \in ServiceRequests :
           asking[r] = "saving" /\ asking'[r] = "done" /\ draft[r].status = "INACTIVE"
             => ~Active(service[r])']_serviceVars
  BY DeactivationSaved
<1> QED BY <1>1, <1>2, <1>3, <1>4, PTL DEF ServicesSpec, ServicesAreSafe, DeactivationsSucceed

-------------------------------------------------------------------------------
(* The items of the inventory. *)

\* A batch that locks its rows moves units one way or the other.
ItemsInv ==
  /\ ItemsAreSafe
  /\ \A r \in ItemRequests : at[r] = "locking" => op[r] \in Batches /\ units[r] \in Nat

LEMMA ItemsBegin ==
  ASSUME CatalogAssumption, ItemsInit
  PROVE  ItemsInv
<1>1. (CHOOSE i \in Items : TRUE) \in Items /\ (CHOOSE p \in Prices : TRUE) \in Prices
  BY DEF CatalogAssumption
<1>2. ItemsTypeOK
  BY <1>1 DEF ItemsInit, ItemsTypeOK, Copies, AllOps, CatalogAssumption
<1>3. CountFollowsTheMovements /\ ActiveSkusAreUnique
  BY DEF ItemsInit, CountFollowsTheMovements, ActiveSkusAreUnique, CatalogAssumption
<1> QED BY <1>2, <1>3 DEF ItemsInv, ItemsAreSafe, ItemsInit

\* A read takes a copy, and leaves the table and the locks alone.
LEMMA TakeKeeps ==
  ASSUME CatalogAssumption, ItemsInv, NEW r \in ItemRequests,
         NEW to \in {"checking", "saving", "planning"}, NEW o, NEW i \in Items, NEW c \in Copies,
         NEW n \in Int, Goes(r, "idle", to), Takes(r, o, i, c, n)
  PROVE  ItemsInv'
<1>1. ItemsTypeOK'
  BY DEF ItemsInv, ItemsAreSafe, ItemsTypeOK, Goes, Takes, table, CatalogAssumption
<1>2. CountFollowsTheMovements' /\ ActiveSkusAreUnique'
  BY DEF ItemsInv, ItemsAreSafe, CountFollowsTheMovements, ActiveSkusAreUnique, Takes, table
<1>3. \A q \in ItemRequests : at'[q] = "locking" => op'[q] \in Batches /\ units'[q] \in Nat
  BY DEF ItemsInv, ItemsAreSafe, ItemsTypeOK, Goes, Takes
<1> QED BY <1>1, <1>2, <1>3 DEF ItemsInv, ItemsAreSafe

LEMMA StartKeeps ==
  ASSUME CatalogAssumption, ItemsInv, NEW r \in ItemRequests, Start(r)
  PROVE  ItemsInv'
<1>1. \A i \in rows : i \in Items /\ Row(i) \in Copies
  BY DEF ItemsInv, ItemsAreSafe, ItemsTypeOK, Row, Copies
<1>2. ASSUME NEW i \in Items, NEW p \in Prices, StartCreate(r, i, p)
      PROVE  ItemsInv'
  <2>1. PICK c : c = [status |-> "ACTIVE", price |-> p, count |-> 0]
    OBVIOUS
  <2>2. c \in Copies
    BY <2>1 DEF Copies
  <2> QED BY <1>2, <2>1, <2>2, TakeKeeps DEF StartCreate
<1>3. ASSUME NEW i \in Items, NEW p \in Prices, StartUpdate(r, i, p)
      PROVE  ItemsInv'
  <2>1. PICK c : c = [status |-> status[i], price |-> p, count |-> count[i]]
    OBVIOUS
  <2>2. c \in Copies
    BY <2>1 DEF Copies, ItemsInv, ItemsAreSafe, ItemsTypeOK
  <2> QED BY <1>3, <2>1, <2>2, TakeKeeps DEF StartUpdate
<1>4. ASSUME NEW i \in Items, StartDeactivate(r, i)
      PROVE  ItemsInv'
  <2>1. PICK to : to = IF status[i] = "ACTIVE" THEN "checking" ELSE "saving"
    OBVIOUS
  <2>2. to \in {"checking", "saving", "planning"} /\ i \in rows
    BY <1>4, <2>1 DEF StartDeactivate
  <2>3. Goes(r, "idle", to) /\ Takes(r, "deactivate", i, Row(i), 0)
    BY <1>4, <2>1 DEF StartDeactivate
  <2> QED BY <1>1, <2>2, <2>3, TakeKeeps
<1>5. ASSUME NEW i \in Items, StartPlan(r, i)
      PROVE  ItemsInv'
  BY <1>1, <1>5, TakeKeeps DEF StartPlan
<1>6. ASSUME NEW i \in Items, NEW n \in 1 .. MaxUnits, StartReplenish(r, i, n)
      PROVE  ItemsInv'
  BY <1>1, <1>6, TakeKeeps DEF StartReplenish
<1>7. ASSUME NEW i \in Items, NEW n \in 1 .. MaxUnits, StartAdjust(r, i, n)
      PROVE  ItemsInv'
  <2>1. -n \in Int
    OBVIOUS
  <2> QED BY <1>1, <1>7, <2>1, TakeKeeps DEF StartAdjust
<1>8. ASSUME NEW o \in Batches, NEW b \in SUBSET Items, NEW n \in 1 .. MaxUnits,
             StartBatch(r, o, b, n)
      PROVE  ItemsInv'
  <2>1. n \in Nat /\ o \in AllOps
    BY DEF AllOps
  <2>2. ItemsTypeOK'
    BY <1>8, <2>1 DEF ItemsInv, ItemsAreSafe, ItemsTypeOK, StartBatch, Goes, table
  <2>3. CountFollowsTheMovements' /\ ActiveSkusAreUnique'
    BY <1>8 DEF ItemsInv, ItemsAreSafe, CountFollowsTheMovements, ActiveSkusAreUnique,
       StartBatch, table
  <2>4. \A q \in ItemRequests : at'[q] = "locking" => op'[q] \in Batches /\ units'[q] \in Nat
    BY <1>8, <2>1 DEF ItemsInv, ItemsAreSafe, ItemsTypeOK, StartBatch, Goes
  <2> QED BY <2>2, <2>3, <2>4 DEF ItemsInv, ItemsAreSafe
<1> QED BY <1>2, <1>3, <1>4, <1>5, <1>6, <1>7, <1>8 DEF Start

\* The save of one item, which takes the count from the locked row.
LEMMA SaveItemKeeps ==
  ASSUME CatalogAssumption, ItemsInv, NEW r \in ItemRequests, SaveItem(r)
  PROVE  ItemsInv'
<1>1. PICK i, c, n : i = item[r] /\ c = copy[r] /\ n = units[r]
  OBVIOUS
<1>2. i \in Items /\ c \in Copies /\ n \in Int
  BY <1>1 DEF ItemsInv, ItemsAreSafe, ItemsTypeOK
<1>3. at[r] = "saving" /\ at' = [at EXCEPT ![r] = "done"] /\ UNCHANGED <<holder, planned, local>>
  BY DEF SaveItem, Goes
<1>4. \A q \in ItemRequests : at'[q] = "locking" => op'[q] \in Batches /\ units'[q] \in Nat
  BY <1>3 DEF ItemsInv, ItemsAreSafe, ItemsTypeOK, local
<1>5. CASE UNCHANGED table
  <2>1. ItemsTypeOK'
    BY <1>3, <1>5 DEF ItemsInv, ItemsAreSafe, ItemsTypeOK, table, local
  <2>2. CountFollowsTheMovements' /\ ActiveSkusAreUnique'
    BY <1>5 DEF ItemsInv, ItemsAreSafe, CountFollowsTheMovements, ActiveSkusAreUnique, table
  <2> QED BY <1>4, <2>1, <2>2 DEF ItemsInv, ItemsAreSafe
<1>6. CASE ~UNCHANGED table
  <2>1. /\ rows' = rows \cup {i} /\ out' = out
        /\ status' = [status EXCEPT ![i] = c.status] /\ price' = [price EXCEPT ![i] = c.price]
        /\ count' = [count EXCEPT ![i] = count[i] + n]
        /\ moved' = [moved EXCEPT ![i] = moved[i] + n]
        /\ c.status = "ACTIVE" => ~SkuTaken(i)
        /\ ~(count[i] + n < 0)
    BY <1>1, <1>6 DEF SaveItem, Refused, NewCount
  <2>2. ItemsTypeOK'
    BY <1>2, <1>3, <2>1 DEF ItemsInv, ItemsAreSafe, ItemsTypeOK, Copies, local
  <2>3. CountFollowsTheMovements'
    BY <1>2, <2>1 DEF ItemsInv, ItemsAreSafe, ItemsTypeOK, CountFollowsTheMovements
  <2>4. ActiveSkusAreUnique'
    BY <1>2, <2>1 DEF ItemsInv, ItemsAreSafe, ItemsTypeOK, ActiveSkusAreUnique, SkuTaken, Copies
  <2> QED BY <1>4, <2>2, <2>3, <2>4 DEF ItemsInv, ItemsAreSafe
<1> QED BY <1>5, <1>6

\* A batch changes all of its items or none, and takes no more than there is.
LEMMA ApplyBatchKeeps ==
  ASSUME CatalogAssumption, ItemsInv, NEW r \in ItemRequests, ApplyBatch(r)
  PROVE  ItemsInv'
<1>1. PICK n : n = units[r]
  OBVIOUS
<1>2. n \in Nat /\ op[r] \in Batches /\ batch[r] \in SUBSET Items
  BY <1>1 DEF ApplyBatch, ItemsInv, ItemsAreSafe, ItemsTypeOK
<1>3. PICK consumed : consumed = IF op[r] = "consume" THEN n ELSE -n
  OBVIOUS
<1>4. /\ at' = [at EXCEPT ![r] = "done"] /\ UNCHANGED <<rows, status, price, planned, local>>
      /\ count' = [i \in Items |-> IF i \in batch[r] THEN count[i] - consumed ELSE count[i]]
      /\ moved' = [i \in Items |-> IF i \in batch[r] THEN moved[i] - consumed ELSE moved[i]]
      /\ out' = [i \in Items |-> IF i \in batch[r] THEN out[i] + consumed ELSE out[i]]
      /\ holder' = [i \in Items |-> IF holder[i] = r THEN NoRequest ELSE holder[i]]
  BY <1>1, <1>3 DEF ApplyBatch, Releases
<1>5. consumed \in Int
  BY <1>2, <1>3
<1>6. /\ count \in [Items -> Int] /\ moved \in [Items -> Int] /\ out \in [Items -> Nat]
      /\ \A i \in Items : count[i] = moved[i] /\ count[i] >= 0
  BY DEF ItemsInv, ItemsAreSafe, ItemsTypeOK, CountFollowsTheMovements
<1>7. \A i \in batch[r] : count[i] - consumed >= 0 /\ out[i] + consumed >= 0
  <2>1. TAKE i \in batch[r]
  <2>2. i \in Items /\ count[i] \in Int /\ count[i] >= 0 /\ out[i] \in Nat
    BY <1>2, <1>6
  <2>3. CASE op[r] = "consume"
    <3>1. count[i] >= n
      BY <1>1, <1>2, <2>2, <2>3 DEF ApplyBatch, Short
    <3> QED BY <1>2, <1>3, <2>2, <2>3, <3>1
  <2>4. CASE op[r] # "consume"
    <3>1. out[i] >= n
      BY <1>1, <1>2, <2>2, <2>4 DEF ApplyBatch, Short
    <3> QED BY <1>2, <1>3, <2>2, <2>4, <3>1
  <2> QED BY <2>3, <2>4
<1>8. count' \in [Items -> Int] /\ moved' \in [Items -> Int] /\ out' \in [Items -> Nat]
  BY <1>4, <1>5, <1>6, <1>7
<1>9. ItemsTypeOK'
  BY <1>4, <1>8 DEF ItemsInv, ItemsAreSafe, ItemsTypeOK, local
<1>10. CountFollowsTheMovements'
  BY <1>4, <1>5, <1>6, <1>7 DEF CountFollowsTheMovements
<1>11. ActiveSkusAreUnique'
  BY <1>4 DEF ItemsInv, ItemsAreSafe, ActiveSkusAreUnique
<1>12. \A q \in ItemRequests : at'[q] = "locking" => op'[q] \in Batches /\ units'[q] \in Nat
  BY <1>4 DEF ItemsInv, ItemsAreSafe, ItemsTypeOK, local
<1> QED BY <1>9, <1>10, <1>11, <1>12 DEF ItemsInv, ItemsAreSafe

\* The steps that change neither the columns of the table nor what a batch moves.
LEMMA QuietItemsKeep ==
  ASSUME CatalogAssumption, ItemsInv, UNCHANGED <<table, op, item, batch, units>>, ItemsTypeOK',
         \A q \in ItemRequests : at'[q] = "locking" => at[q] = "locking"
  PROVE  ItemsInv'
<1>1. CountFollowsTheMovements' /\ ActiveSkusAreUnique'
  BY DEF ItemsInv, ItemsAreSafe, CountFollowsTheMovements, ActiveSkusAreUnique, table
<1> QED BY <1>1 DEF ItemsInv, ItemsAreSafe

LEMMA ItemsStep ==
  ASSUME CatalogAssumption, ItemsInv, [ItemsNext]_itemVars
  PROVE  ItemsInv'
<1>1. CASE UNCHANGED itemVars
  <2>1. ItemsTypeOK'
    BY <1>1 DEF itemVars, table, local, ItemsInv, ItemsAreSafe, ItemsTypeOK
  <2> QED BY <1>1, <2>1, QuietItemsKeep DEF itemVars, table, local
<1>2. ASSUME NEW r \in ItemRequests, SavePlan(r)
      PROVE  ItemsInv'
  <2>1. ItemsTypeOK' /\ \A q \in ItemRequests : at'[q] = "locking" => at[q] = "locking"
    BY <1>2 DEF SavePlan, Goes, table, local, ItemsInv, ItemsAreSafe, ItemsTypeOK
  <2> QED BY <1>2, <2>1, QuietItemsKeep DEF SavePlan, local
<1>3. ASSUME NEW r \in ItemRequests, CheckUse(r)
      PROVE  ItemsInv'
  <2>1. at' \in [ItemRequests -> {"idle", "checking", "saving", "planning", "locking", "done"}]
    BY <1>3 DEF CheckUse, Goes, ItemsInv, ItemsAreSafe, ItemsTypeOK
  <2>2. \A q \in ItemRequests : at'[q] = "locking" => at[q] = "locking"
    BY <1>3 DEF CheckUse, Goes, ItemsInv, ItemsAreSafe, ItemsTypeOK
  <2>3. copy' \in [ItemRequests -> Copies]
    BY <1>3 DEF CheckUse, Copies, ItemsInv, ItemsAreSafe, ItemsTypeOK
  <2>4. ItemsTypeOK'
    BY <1>3, <2>1, <2>3 DEF CheckUse, table, ItemsInv, ItemsAreSafe, ItemsTypeOK
  <2> QED BY <1>3, <2>2, <2>4, QuietItemsKeep DEF CheckUse
<1>4. ASSUME NEW r \in ItemRequests, NEW i \in Items, LockItem(r, i)
      PROVE  ItemsInv'
  <2>1. ItemsTypeOK' /\ \A q \in ItemRequests : at'[q] = "locking" => at[q] = "locking"
    BY <1>4 DEF LockItem, table, local, ItemsInv, ItemsAreSafe, ItemsTypeOK
  <2> QED BY <1>4, <2>1, QuietItemsKeep DEF LockItem, local
<1>5. ASSUME NEW r \in ItemRequests, RollBack(r)
      PROVE  ItemsInv'
  <2>1. ItemsTypeOK' /\ \A q \in ItemRequests : at'[q] = "locking" => at[q] = "locking"
    BY <1>5 DEF RollBack, Goes, Releases, table, local, ItemsInv, ItemsAreSafe, ItemsTypeOK
  <2> QED BY <1>5, <2>1, QuietItemsKeep DEF RollBack, local
<1>6. ASSUME NEW r \in ItemRequests, Close(r)
      PROVE  ItemsInv'
  <2>1. ItemsTypeOK' /\ \A q \in ItemRequests : at'[q] = "locking" => at[q] = "locking"
    BY <1>6 DEF Close, table, local, ItemsInv, ItemsAreSafe, ItemsTypeOK
  <2> QED BY <1>6, <2>1, QuietItemsKeep DEF Close, local
<1>7. ASSUME NEW r \in ItemRequests, Proceed(r)
      PROVE  ItemsInv'
  BY <1>2, <1>3, <1>4, <1>5, <1>7, SaveItemKeeps, ApplyBatchKeeps DEF Proceed
<1> QED BY <1>1, <1>6, <1>7, StartKeeps DEF ItemsNext

\* Whatever movements, edits and batches run at once, the count of an item is what
\* its movements add up to and never negative, and two active items never have one
\* SKU: for every inventory and any number of requests.
THEOREM ItemsStaySafe ==
  ASSUME CatalogAssumption
  PROVE  ItemsSpec => []ItemsAreSafe
<1>1. ItemsInit => ItemsInv
  BY ItemsBegin
<1>2. ItemsInv /\ [ItemsNext]_itemVars => ItemsInv'
  BY ItemsStep
<1>3. ItemsInv => ItemsAreSafe
  BY DEF ItemsInv
<1> QED BY <1>1, <1>2, <1>3, PTL DEF ItemsSpec

-------------------------------------------------------------------------------
(* The report of shortages. *)

\* What a report between its two reads says of the shelf.
ReportFits ==
  report.at = "demand" =>
    /\ report.standing /\ ~report.cameIn => report.demand > shelf
    /\ ~report.stirred => (report.standing <=> report.demand > shelf)

ShortagesInv ==
  ShortagesTypeOK /\ ReportFits /\ StandingShortageIsReported /\ QuietReportIsExact

\* The demand is what is planned at most; a real shortage is one of the demand too,
\* and the other way round while no units are on their way.
LEMMA DemandIs ==
  ASSUME QuantitiesAssumption, ShortagesTypeOK
  PROVE  /\ OutstandingDemand \in 0 .. SumFunctionOnSet(Planned, Orders)
         /\ ReallyShort => OutstandingDemand > shelf
         /\ (\A o \in Orders : taken[o] + owed[o] = 0) =>
              (ReallyShort <=> OutstandingDemand > shelf)
<1> DEFINE S == InExecution
           f == [o \in Orders |-> Planned[o] - withdrawn[o]]
           g == [o \in Orders |-> Planned[o] - withdrawn[o] - taken[o]]
<1>1. /\ IsFiniteSet(Orders) /\ S \in SUBSET Orders /\ shelf \in Nat
      /\ \A o \in Orders : /\ Planned[o] \in Nat /\ withdrawn[o] \in Nat /\ taken[o] \in Nat
                           /\ owed[o] \in Nat /\ withdrawn[o] + taken[o] <= Planned[o]
  BY DEF QuantitiesAssumption, ShortagesTypeOK, InExecution
<1>2. IsFiniteSet(S)
  BY <1>1, FS_Subset
<1>3. /\ OutstandingDemand = SumFunctionOnSet(f, S)
      /\ ReallyShort <=> SumFunctionOnSet(g, S) > shelf + SumFunctionOnSet(owed, Orders)
  BY DEF OutstandingDemand, ReallyShort
<1>4. \A o \in Orders : /\ f[o] \in Nat /\ g[o] \in Int /\ g[o] <= f[o] /\ f[o] <= Planned[o]
                        /\ taken[o] = 0 => f[o] = g[o]
  BY <1>1
<1> HIDE DEF S, f, g
<1>5. SumFunctionOnSet(f, S) \in Nat
  BY <1>1, <1>2, <1>4, SumIsNat
<1>6. SumFunctionOnSet(f, S) <= SumFunctionOnSet(Planned, S)
  BY <1>1, <1>2, <1>4, SumIsMonotone
<1>7. SumFunctionOnSet(Planned, S) <= SumFunctionOnSet(Planned, Orders)
  BY <1>1, SumOfPart
<1>8. SumFunctionOnSet(g, S) <= SumFunctionOnSet(f, S)
  BY <1>1, <1>2, <1>4, SumIsMonotone
<1>9. /\ SumFunctionOnSet(owed, Orders) \in Nat /\ SumFunctionOnSet(g, S) \in Int
      /\ SumFunctionOnSet(Planned, S) \in Nat /\ SumFunctionOnSet(Planned, Orders) \in Nat
  BY <1>1, <1>2, <1>4, SumIsNat, SumIsInt
<1>10. ASSUME \A o \in Orders : taken[o] + owed[o] = 0
       PROVE  ReallyShort <=> OutstandingDemand > shelf
  <2>1. \A o \in Orders : taken[o] = 0 /\ owed[o] = 0
    BY <1>1, <1>10
  <2>2. SumFunctionOnSet(f, S) = SumFunctionOnSet(g, S)
    BY <1>1, <1>2, <1>4, <2>1, SumsAgree
  <2>3. SumFunctionOnSet(owed, Orders) = 0
    BY <1>1, <2>1, SumOfZeros
  <2> QED BY <1>1, <1>3, <2>2, <2>3
<1> QED BY <1>1, <1>3, <1>5, <1>6, <1>7, <1>8, <1>9, <1>10

\* A write while the report is read, by what it does to the shelf.
LEMMA WriteKeepsReport ==
  ASSUME ShortagesInv, NEW puts \in BOOLEAN, During(puts), shelf' \in Nat,
         puts \/ shelf' <= shelf
  PROVE  /\ report' \in Reports /\ ReportFits'
         /\ StandingShortageIsReported' /\ QuietReportIsExact'
<1> DEFINE stands == report.standing /\ ReallyShort'
           came == report.cameIn \/ puts
<1>1. /\ report \in Reports /\ shelf \in Nat /\ report.at # "done"
      /\ ReportFits /\ StandingShortageIsReported /\ QuietReportIsExact
  BY DEF During, ShortagesInv, ShortagesTypeOK
<1>2. CASE report' = report /\ report.at = "idle"
  BY <1>1, <1>2 DEF ReportFits, StandingShortageIsReported, QuietReportIsExact
<1>3. CASE report' = [report EXCEPT !.standing = stands, !.stirred = TRUE, !.cameIn = came]
  <2>1. stands \in BOOLEAN /\ came \in BOOLEAN /\ (stands => report.standing)
    OBVIOUS
  <2>2. ~came => ~report.cameIn /\ shelf' <= shelf
    OBVIOUS
  <2> HIDE DEF stands, came
  <2>3. report' \in Reports
    BY <1>1, <1>3, <2>1 DEF Reports
  <2>4. /\ report'.at = report.at /\ report'.demand = report.demand /\ report'.stirred = TRUE
        /\ report'.cameIn = came /\ report'.standing = stands
    BY <1>1, <1>3, <2>1 DEF Reports
  <2>5. ReportFits'
    BY <1>1, <2>1, <2>2, <2>3, <2>4 DEF Reports, ReportFits
  <2>6. StandingShortageIsReported' /\ QuietReportIsExact'
    BY <1>1, <2>4 DEF StandingShortageIsReported, QuietReportIsExact
  <2> QED BY <2>3, <2>5, <2>6
<1>4. \/ report' = report /\ report.at = "idle"
      \/ report' = [report EXCEPT !.standing = stands, !.stirred = TRUE, !.cameIn = came]
  BY DEF During
<1> QED BY <1>2, <1>3, <1>4

\* A write that leaves the orders within their plans.
LEMMA WriteKeeps ==
  ASSUME ShortagesInv, NEW puts \in BOOLEAN, During(puts), shelf' \in Nat,
         puts \/ shelf' <= shelf, round' \in [Orders -> {"awaiting", "executing", "closed"}],
         withdrawn' \in [Orders -> Nat], taken' \in [Orders -> Nat], owed' \in [Orders -> Nat],
         stale' \in [Orders -> BOOLEAN],
         \A p \in Orders : withdrawn'[p] + taken'[p] <= Planned[p]
  PROVE  ShortagesInv'
<1>1. ShortagesTypeOK'
  BY WriteKeepsReport DEF ShortagesTypeOK
<1> QED BY <1>1, WriteKeepsReport DEF ShortagesInv

LEMMA ShortagesBegin ==
  ASSUME QuantitiesAssumption, ShortagesInit
  PROVE  ShortagesInv
<1>1. 0 \in 0 .. SumFunctionOnSet(Planned, Orders)
  BY SumIsNat DEF QuantitiesAssumption
<1> QED
  BY <1>1
  DEF ShortagesInit, NoReport, Reports, QuantitiesAssumption, ShortagesInv, ShortagesTypeOK,
      ReportFits, StandingShortageIsReported, QuietReportIsExact

\* The first read of the report: its demand is the current one.
LEMMA ReadDemandKeeps ==
  ASSUME QuantitiesAssumption, ShortagesInv, ReadDemand
  PROVE  ShortagesInv'
<1> DEFINE short == ReallyShort
           moves == \E o \in Orders : taken[o] + owed[o] > 0
           demand == OutstandingDemand
<1>1. UNCHANGED stock /\ ShortagesTypeOK /\ shelf \in Nat
  BY DEF ReadDemand, ShortagesInv, ShortagesTypeOK
<1>2. /\ demand \in 0 .. SumFunctionOnSet(Planned, Orders)
      /\ short => demand > shelf
      /\ ~moves => (short <=> demand > shelf)
  <2>1. ASSUME ~moves PROVE \A o \in Orders : taken[o] + owed[o] = 0
    <3> SUFFICES ASSUME NEW o \in Orders PROVE taken[o] + owed[o] = 0
      OBVIOUS
    <3>1. taken[o] \in Nat /\ owed[o] \in Nat /\ ~(taken[o] + owed[o] > 0)
      BY <1>1, <2>1 DEF ShortagesTypeOK
    <3> QED BY <3>1
  <2> QED BY <1>1, <2>1, DemandIs
<1>3. short \in BOOLEAN /\ moves \in BOOLEAN
  BY DEF ReallyShort
<1>4. report' = [at |-> IF demand = 0 THEN "done" ELSE "demand", demand |-> demand,
                 short |-> FALSE, standing |-> short, cameIn |-> FALSE, stirred |-> moves]
  BY DEF ReadDemand, NoReport
<1> HIDE DEF short, moves, demand
<1>5. ShortagesTypeOK'
  <2>1. report' \in Reports
    BY <1>2, <1>3, <1>4 DEF Reports
  <2> QED BY <1>1, <2>1 DEF ShortagesTypeOK, stock
<1>6. shelf' = shelf
  BY <1>1 DEF stock
<1>7. ReportFits' /\ StandingShortageIsReported' /\ QuietReportIsExact'
  <2>1. /\ report'.at = (IF demand = 0 THEN "done" ELSE "demand") /\ report'.demand = demand
        /\ report'.short = FALSE /\ report'.standing = short /\ report'.stirred = moves
    BY <1>4
  <2>2. CASE demand = 0
    <3>1. report'.at = "done" /\ ~report'.short /\ ~short
      BY <1>1, <1>2, <2>1, <2>2
    <3> QED
      BY <2>1, <3>1 DEF ReportFits, StandingShortageIsReported, QuietReportIsExact
  <2>3. CASE demand # 0
    <3>1. report'.at = "demand"
      BY <2>1, <2>3
    <3> QED
      BY <1>2, <1>6, <2>1, <3>1 DEF ReportFits, StandingShortageIsReported, QuietReportIsExact
  <2> QED BY <2>2, <2>3
<1> QED BY <1>5, <1>7 DEF ShortagesInv

\* The second read, and the answer.
LEMMA ReadShelfKeeps ==
  ASSUME QuantitiesAssumption, ShortagesInv, ReadShelf \/ Answer
  PROVE  ShortagesInv'
<1>1. UNCHANGED stock /\ ShortagesTypeOK /\ shelf \in Nat /\ report \in Reports /\ ReportFits
  BY DEF ReadShelf, Answer, ShortagesInv, ShortagesTypeOK
<1>2. ShortagesTypeOK' <=> report' \in Reports
  BY <1>1 DEF ShortagesTypeOK, stock
<1>3. CASE ReadShelf
  <2> DEFINE short == report.demand > shelf
  <2>1. report' = [report EXCEPT !.at = "done", !.short = short] /\ report.at = "demand"
    BY <1>3 DEF ReadShelf
  <2>2. short \in BOOLEAN
    OBVIOUS
  <2>3. /\ report.standing /\ ~report.cameIn => short
        /\ ~report.stirred => (report.standing <=> short)
    BY <1>1, <2>1 DEF ReportFits
  <2> HIDE DEF short
  <2>4. report' \in Reports
    BY <1>1, <2>1, <2>2 DEF Reports
  <2>5. /\ report'.at = "done" /\ report'.short = short /\ report'.standing = report.standing
        /\ report'.cameIn = report.cameIn /\ report'.stirred = report.stirred
    BY <1>1, <2>1, <2>2 DEF Reports
  <2>6. ReportFits' /\ StandingShortageIsReported' /\ QuietReportIsExact'
    BY <2>3, <2>5 DEF ReportFits, StandingShortageIsReported, QuietReportIsExact
  <2> QED BY <1>2, <2>4, <2>6 DEF ShortagesInv
<1>4. CASE Answer
  <2>1. 0 \in 0 .. SumFunctionOnSet(Planned, Orders)
    BY SumIsNat DEF QuantitiesAssumption
  <2>2. report' \in Reports /\ report'.at = "idle"
    BY <1>4, <2>1 DEF Answer, NoReport, Reports
  <2> QED
    BY <1>2, <2>2
    DEF ShortagesInv, ReportFits, StandingShortageIsReported, QuietReportIsExact
<1> QED BY <1>3, <1>4

\* Approvals, endings, withdrawals, returns and counts of the shelf.
LEMMA WritesKeepShortages ==
  ASSUME QuantitiesAssumption, ShortagesInv, ShortagesNext
  PROVE  ShortagesInv'
<1>1. /\ withdrawn \in [Orders -> Nat] /\ taken \in [Orders -> Nat] /\ owed \in [Orders -> Nat]
      /\ stale \in [Orders -> BOOLEAN] /\ shelf \in Nat /\ Planned \in [Orders -> Nat]
      /\ round \in [Orders -> {"awaiting", "executing", "closed"}]
      /\ \A o \in Orders : withdrawn[o] + taken[o] <= Planned[o]
  BY DEF ShortagesInv, ShortagesTypeOK, QuantitiesAssumption
<1>2. ASSUME NEW o \in Orders
      PROVE  withdrawn[o] \in Nat /\ taken[o] \in Nat /\ owed[o] \in Nat /\ Planned[o] \in Nat
  BY <1>1
<1>0. shelf' = shelf => shelf' \in Nat /\ shelf' <= shelf
  BY <1>1
<1>3. ASSUME NEW o \in Orders, Approve(o) \/ EndOrder(o) PROVE ShortagesInv'
  <2>1. /\ round' \in [Orders -> {"awaiting", "executing", "closed"}] /\ During(FALSE)
        /\ withdrawn' = withdrawn /\ taken' = taken /\ owed' = owed /\ stale' = stale
        /\ shelf' = shelf
    BY <1>1, <1>3 DEF Approve, EndOrder
  <2> QED BY <1>0, <1>1, <2>1, WriteKeeps
<1>4. ASSUME NEW o \in Orders, SaveWithdrawal(o) PROVE ShortagesInv'
  <2>1. /\ withdrawn' = [withdrawn EXCEPT ![o] = withdrawn[o] + taken[o]]
        /\ taken' = [taken EXCEPT ![o] = 0] /\ owed' = owed /\ stale' = stale
        /\ round' = round /\ shelf' = shelf /\ During(FALSE)
    BY <1>4 DEF SaveWithdrawal
  <2>2. /\ withdrawn' \in [Orders -> Nat] /\ taken' \in [Orders -> Nat]
        /\ \A p \in Orders : withdrawn'[p] + taken'[p] <= Planned[p]
    BY <1>1, <1>2, <2>1
  <2> QED BY <1>0, <1>1, <2>1, <2>2, WriteKeeps
<1>5. ASSUME NEW o \in Orders, UndoConsumption(o) PROVE ShortagesInv'
  <2>1. /\ taken' = [taken EXCEPT ![o] = 0] /\ withdrawn' = withdrawn /\ owed' = owed
        /\ stale' = stale /\ round' = round /\ shelf' = shelf + taken[o] /\ During(TRUE)
    BY <1>5 DEF UndoConsumption
  <2>2. /\ taken' \in [Orders -> Nat] /\ shelf' \in Nat
        /\ \A p \in Orders : withdrawn'[p] + taken'[p] <= Planned[p]
    BY <1>1, <1>2, <2>1
  <2> QED BY <1>1, <2>1, <2>2, WriteKeeps
<1>6. ASSUME NEW o \in Orders, Restore(o) PROVE ShortagesInv'
  <2>1. /\ owed' = [owed EXCEPT ![o] = 0] /\ withdrawn' = withdrawn /\ taken' = taken
        /\ stale' = stale /\ round' = round /\ shelf' = shelf + owed[o] /\ During(TRUE)
    BY <1>6 DEF Restore
  <2>2. owed' \in [Orders -> Nat] /\ shelf' \in Nat
    BY <1>1, <1>2, <2>1
  <2> QED BY <1>1, <2>1, <2>2, WriteKeeps
<1>7. ASSUME NEW o \in Orders, NEW q \in 1 .. Planned[o], Consume(o, q) PROVE ShortagesInv'
  <2>1. /\ taken' = [taken EXCEPT ![o] = q] /\ stale' = [stale EXCEPT ![o] = FALSE]
        /\ withdrawn' = withdrawn /\ owed' = owed /\ round' = round
        /\ shelf' = shelf - q /\ q <= shelf /\ withdrawn[o] + q <= Planned[o] /\ During(FALSE)
    BY <1>7 DEF Consume
  <2>2. q \in Nat /\ shelf - q \in Nat /\ shelf - q <= shelf
    BY <1>1, <1>2, <2>1
  <2>3. /\ taken' \in [Orders -> Nat] /\ stale' \in [Orders -> BOOLEAN]
        /\ \A p \in Orders : withdrawn'[p] + taken'[p] <= Planned[p]
    BY <1>1, <2>1, <2>2
  <2> QED BY <1>1, <2>1, <2>2, <2>3, WriteKeeps
<1>8. ASSUME NEW o \in Orders, NEW q \in 1 .. Planned[o], SaveReturn(o, q) PROVE ShortagesInv'
  <2>1. /\ withdrawn' = [withdrawn EXCEPT ![o] = withdrawn[o] - q] /\ q <= withdrawn[o]
        /\ owed' = [owed EXCEPT ![o] = owed[o] + q] /\ stale' = [stale EXCEPT ![o] = TRUE]
        /\ taken' = taken /\ round' = round /\ shelf' = shelf /\ During(FALSE)
    BY <1>8 DEF SaveReturn
  <2>2. /\ withdrawn[o] - q \in Nat /\ owed[o] + q \in Nat /\ withdrawn[o] - q <= withdrawn[o]
    BY <1>2, <2>1
  <2>3. /\ withdrawn' \in [Orders -> Nat] /\ owed' \in [Orders -> Nat]
        /\ stale' \in [Orders -> BOOLEAN]
        /\ \A p \in Orders : withdrawn'[p] + taken'[p] <= Planned[p]
    BY <1>1, <1>2, <2>1, <2>2
  <2> QED BY <1>0, <1>1, <2>1, <2>2, <2>3, WriteKeeps
<1>9. ASSUME NEW q \in 0 .. MaxShelf, Adjust(q) PROVE ShortagesInv'
  <2> DEFINE puts == q > shelf
  <2>1. /\ During(puts) /\ puts \in BOOLEAN /\ shelf' = q
        /\ round' = round /\ withdrawn' = withdrawn /\ taken' = taken /\ owed' = owed
        /\ stale' = stale
    BY <1>9 DEF Adjust
  <2>2. q \in Nat /\ (puts \/ q <= shelf)
    BY <1>1 DEF QuantitiesAssumption
  <2> HIDE DEF puts
  <2> QED BY <1>1, <2>1, <2>2, WriteKeeps
<1> QED
  BY <1>3, <1>4, <1>5, <1>6, <1>7, <1>8, <1>9, ReadDemandKeeps, ReadShelfKeeps DEF ShortagesNext

\* For any number of work orders, and whatever is withdrawn, returned, approved, ended
\* and counted between the two reads of the report: a shortage that stood is in it unless
\* units came in, and a report that nothing disturbed is exact.
THEOREM ShortagesStayReported ==
  ASSUME QuantitiesAssumption
  PROVE  ShortagesSpec => [](StandingShortageIsReported /\ QuietReportIsExact)
<1>1. ShortagesInit => ShortagesInv
  BY ShortagesBegin
<1>2. ShortagesInv /\ [ShortagesNext]_shortageVars => ShortagesInv'
  <2>1. ShortagesInv /\ UNCHANGED shortageVars => ShortagesInv'
    BY DEF shortageVars, ShortagesInv, ShortagesTypeOK, ReportFits, StandingShortageIsReported,
           QuietReportIsExact
  <2> QED BY <2>1, WritesKeepShortages
<1>3. ShortagesInv => StandingShortageIsReported /\ QuietReportIsExact
  BY DEF ShortagesInv
<1> QED BY <1>1, <1>2, <1>3, PTL DEF ShortagesSpec

-------------------------------------------------------------------------------
(* The registry of customers and vehicles. *)

\* What a request holds until its save: a status for its customer; a row for its
\* vehicle with an owner there is, which is new only to the request that adds it.
Fits(s, o, v, new, vehicle) ==
  /\ s = "idle" => o = "none"
  /\ s = "saving customer" => new # "none"
  /\ s = "checking owner" => o = "transfer"
  /\ s \in {"checking owner", "saving vehicle"} =>
       /\ vehicle # NoVehicle /\ customers[vehicle.owner] # "none"
       /\ vehicles[v] = NoVehicle <=> o = "add vehicle"

NoTransfers == \A r \in Requests : does[r] # "transfer"

\* The owner a request is about to save is the one the vehicle has.
OwnerIsKept(r) ==
  stage[r] = "saving vehicle" /\ does[r] # "add vehicle" => row[r].owner = vehicles[what[r]].owner

AddersDiffer ==
  \A r, q \in Requests :
    does[r] = "add vehicle" /\ does[q] = "add vehicle" /\ what[r] = what[q] => r = q

RegistryInv ==
  /\ RegistryTypeOK /\ OneCustomerPerUser /\ PlatesAreUnique
  /\ \A r \in Requests : Fits(stage[r], does[r], what[r], standing[r], row[r])
  /\ AddersDiffer
  /\ NoTransfers => \A r \in Requests : OwnerIsKept(r)

LEMMA RegistryBegins ==
  ASSUME RegistryAssumption, RegistryInit
  PROVE  RegistryInv
<1>1. (CHOOSE c \in Customers : TRUE) \in Customers /\ (CHOOSE v \in Vehicles : TRUE) \in Vehicles
  BY DEF RegistryAssumption
<1>2. \A v \in DOMAIN Owned : v \in Vehicles /\ Owned[v] \in Registered /\ Owned[v] \in Customers
  BY DEF RegistryAssumption
<1>3. RegistryTypeOK
  BY <1>1, <1>2 DEF RegistryInit, RegistryTypeOK, VehicleRows, RegistryAssumption
<1>4. OneCustomerPerUser /\ PlatesAreUnique
  BY DEF RegistryInit, OneCustomerPerUser, PlatesAreUnique, Present, RegistryAssumption
<1>5. /\ \A r \in Requests : Fits(stage[r], does[r], what[r], standing[r], row[r])
      /\ AddersDiffer
      /\ \A r \in Requests : OwnerIsKept(r)
  BY DEF RegistryInit, Fits, AddersDiffer, OwnerIsKept
<1> QED BY <1>3, <1>4, <1>5 DEF RegistryInv

\* What a step of the registry means to a vehicle: it never loses its row, and
\* while nobody transfers it keeps its owner.
VehiclesStay ==
  /\ NoTransfers' => NoTransfers
  /\ \A v \in Vehicles : vehicles[v] # NoVehicle =>
       /\ vehicles'[v] # NoVehicle
       /\ NoTransfers' => vehicles'[v].owner = vehicles[v].owner

\* A request that reads what it will change leaves the tables alone.
LEMMA ReadsKeep ==
  ASSUME RegistryInv, NEW r \in Requests,
         NEW to \in {"saving customer", "checking owner", "saving vehicle"},
         NEW o \in RegistryOps, NEW c \in Customers, NEW v \in Vehicles,
         NEW s \in {"none", "ACTIVE", "INACTIVE"}, NEW mine \in VehicleRows \cup {NoVehicle},
         Reaches(r, "idle", to), Reads(r, o, c, v, s, mine),
         Fits(to, o, v, s, mine),
         o = "add vehicle" => \A q \in Requests : does[q] = "add vehicle" => what[q] # v,
         to = "saving vehicle" /\ o # "add vehicle" => mine.owner = vehicles[v].owner
  PROVE  RegistryInv' /\ VehiclesStay
<1>1. /\ UNCHANGED tables /\ stage[r] = "idle" /\ does[r] = "none"
      /\ stage' = [stage EXCEPT ![r] = to] /\ does' = [does EXCEPT ![r] = o]
      /\ who' = [who EXCEPT ![r] = c] /\ what' = [what EXCEPT ![r] = v]
      /\ standing' = [standing EXCEPT ![r] = s] /\ row' = [row EXCEPT ![r] = mine]
  BY DEF Reaches, Reads, RegistryInv, Fits
<1>2. RegistryTypeOK'
  BY <1>1 DEF RegistryInv, RegistryTypeOK, tables
<1>3. OneCustomerPerUser' /\ PlatesAreUnique'
  BY <1>1 DEF RegistryInv, OneCustomerPerUser, PlatesAreUnique, Present, tables
<1>4. ASSUME NEW q \in Requests
      PROVE  Fits(stage[q], does[q], what[q], standing[q], row[q])'
  <2>1. CASE q = r
    BY <1>1, <2>1 DEF Fits, tables, RegistryInv, RegistryTypeOK
  <2>2. CASE q # r
    <3>1. Fits(stage[q], does[q], what[q], standing[q], row[q])
      BY DEF RegistryInv
    <3>2. /\ stage'[q] = stage[q] /\ does'[q] = does[q] /\ what'[q] = what[q]
          /\ standing'[q] = standing[q] /\ row'[q] = row[q]
      BY <1>1, <2>2 DEF RegistryInv, RegistryTypeOK
    <3> QED BY <1>1, <3>1, <3>2 DEF Fits, tables
  <2> QED BY <2>1, <2>2
<1>5. AddersDiffer'
  <2>1. /\ does'[r] = o /\ what'[r] = v
        /\ \A q \in Requests : q # r => does'[q] = does[q] /\ what'[q] = what[q]
    BY <1>1 DEF RegistryInv, RegistryTypeOK
  <2>2. AddersDiffer
    BY DEF RegistryInv
  <2>3. ASSUME NEW p \in Requests, p # r, does'[p] = "add vehicle", does'[r] = "add vehicle"
        PROVE  what'[p] # what'[r]
    BY <2>1, <2>3
  <2>4. ASSUME NEW p \in Requests, NEW q \in Requests, p # r, q # r,
               does'[p] = "add vehicle", does'[q] = "add vehicle", what'[p] = what'[q]
        PROVE  p = q
    BY <2>1, <2>2, <2>4 DEF AddersDiffer
  <2> QED BY <2>3, <2>4 DEF AddersDiffer
<1>6. NoTransfers' => NoTransfers
  BY <1>1 DEF NoTransfers, RegistryInv, RegistryTypeOK
<1>7. NoTransfers' => \A q \in Requests : OwnerIsKept(q)'
  BY <1>1, <1>6 DEF RegistryInv, RegistryTypeOK, OwnerIsKept, tables
<1> QED BY <1>1, <1>2, <1>3, <1>4, <1>5, <1>6, <1>7 DEF RegistryInv, VehiclesStay, tables

LEMMA RowIs ==
  ASSUME RegistryAssumption, NEW c \in Customers, NEW gone \in BOOLEAN, NEW mine,
         mine = [owner |-> c, removed |-> gone]
  PROVE  mine \in VehicleRows /\ mine # NoVehicle /\ mine.owner = c
<1>1. mine \in VehicleRows /\ mine.owner = c
  BY DEF VehicleRows
<1> QED BY <1>1 DEF RegistryAssumption

LEMMA StartCustomerKeeps ==
  ASSUME RegistryAssumption, RegistryInv, NEW r \in Requests, NEW c \in Customers,
         StartRegister(r, c) \/ StartUpdateCustomer(r, c) \/ StartDeactivateCustomer(r, c)
  PROVE  RegistryInv' /\ VehiclesStay
<1>1. PICK v, mine : v = what[r] /\ mine = NoVehicle
  OBVIOUS
<1>2. /\ v \in Vehicles /\ mine \in VehicleRows \cup {NoVehicle}
      /\ customers[c] \in {"none", "ACTIVE", "INACTIVE"}
  BY <1>1 DEF RegistryInv, RegistryTypeOK
<1>3. CASE StartRegister(r, c)
  <2>1. Fits("saving customer", "register", v, "ACTIVE", mine)
    BY DEF Fits
  <2> QED BY <1>1, <1>2, <1>3, <2>1, ReadsKeep DEF StartRegister, RegistryOps
<1>4. CASE StartUpdateCustomer(r, c)
  <2>1. CASE customers[c] = "ACTIVE"
    <3>1. Fits("saving customer", "update", v, "ACTIVE", mine)
      BY DEF Fits
    <3>2. /\ Reaches(r, "idle", "saving customer")
          /\ Reads(r, "update", c, v, "ACTIVE", mine)
      BY <1>1, <1>4, <2>1 DEF StartUpdateCustomer
    <3> QED BY <1>2, <3>1, <3>2, ReadsKeep DEF RegistryOps
  <2>2. CASE customers[c] = "INACTIVE"
    <3>1. Fits("saving customer", "update", v, "INACTIVE", mine)
      BY DEF Fits
    <3>2. /\ Reaches(r, "idle", "saving customer")
          /\ Reads(r, "update", c, v, "INACTIVE", mine)
      BY <1>1, <1>4, <2>2 DEF StartUpdateCustomer
    <3> QED BY <1>2, <3>1, <3>2, ReadsKeep DEF RegistryOps
  <2> QED BY <1>2, <1>4, <2>1, <2>2 DEF StartUpdateCustomer
<1>5. CASE StartDeactivateCustomer(r, c)
  <2>1. Fits("saving customer", "deactivate", v, "INACTIVE", mine)
    BY DEF Fits
  <2> QED BY <1>1, <1>2, <1>5, <2>1, ReadsKeep DEF StartDeactivateCustomer, RegistryOps
<1> QED BY <1>3, <1>4, <1>5

LEMMA StartAddVehicleKeeps ==
  ASSUME RegistryAssumption, RegistryInv, NEW r \in Requests, NEW c \in Customers,
         NEW v \in Vehicles, StartAddVehicle(r, c, v)
  PROVE  RegistryInv' /\ VehiclesStay
<1>1. PICK mine : mine = [owner |-> c, removed |-> FALSE]
  OBVIOUS
<1>2. mine \in VehicleRows /\ mine # NoVehicle /\ mine.owner = c
  BY <1>1, RowIs
<1>3. /\ vehicles[v] = NoVehicle /\ customers[c] = "ACTIVE"
      /\ \A q \in Requests : does[q] = "add vehicle" => what[q] # v
      /\ Reaches(r, "idle", "saving vehicle") /\ Reads(r, "add vehicle", c, v, "none", mine)
  BY <1>1 DEF StartAddVehicle, MayOwn
<1>4. PICK to, o, s : to = "saving vehicle" /\ o = "add vehicle" /\ s = "none"
  OBVIOUS
<1>5. /\ to \in {"saving customer", "checking owner", "saving vehicle"} /\ o \in RegistryOps
      /\ s \in {"none", "ACTIVE", "INACTIVE"} /\ mine \in VehicleRows \cup {NoVehicle}
  BY <1>2, <1>4 DEF RegistryOps
<1>6. Fits(to, o, v, s, mine)
  BY <1>2, <1>3, <1>4 DEF Fits
<1> QED BY <1>3, <1>4, <1>5, <1>6, ReadsKeep

\* The edit, the removal and the first read of a transfer take the row there is.
LEMMA StartVehicleKeeps ==
  ASSUME RegistryAssumption, RegistryInv, NEW r \in Requests, NEW c \in Customers,
         NEW v \in Vehicles,
         StartTransfer(r, c, v) \/ StartEditVehicle(r, v) \/ StartRemoveVehicle(r, v)
  PROVE  RegistryInv' /\ VehiclesStay
<1>1. /\ vehicles[v] # NoVehicle /\ vehicles[v] \in VehicleRows
      /\ customers[vehicles[v].owner] # "none" /\ who[r] \in Customers
  BY DEF RegistryInv, RegistryTypeOK, StartTransfer, StartEditVehicle, StartRemoveVehicle
<1>2. PICK gone : gone = [owner |-> vehicles[v].owner, removed |-> TRUE]
  OBVIOUS
<1>3. gone \in VehicleRows /\ gone # NoVehicle /\ gone.owner = vehicles[v].owner
  <2>1. vehicles[v].owner \in Customers
    BY <1>1 DEF VehicleRows
  <2> QED BY <1>2, <2>1, RowIs
<1>4. PICK d, to, o, s, mine :
        /\ Reaches(r, "idle", to) /\ Reads(r, o, d, v, s, mine) /\ d \in Customers
        /\ to \in {"checking owner", "saving vehicle"} /\ s = "none"
        /\ \/ o = "transfer" /\ to = "checking owner"
           \/ o \in {"edit vehicle", "remove vehicle"} /\ to = "saving vehicle"
        /\ mine \in {vehicles[v], gone}
  <2>1. CASE StartTransfer(r, c, v)
    BY <2>1 DEF StartTransfer
  <2>2. CASE StartEditVehicle(r, v)
    BY <1>1, <2>2 DEF StartEditVehicle
  <2>3. CASE StartRemoveVehicle(r, v)
    BY <1>1, <1>2, <2>3 DEF StartRemoveVehicle
  <2> QED BY <2>1, <2>2, <2>3
<1>5. mine \in VehicleRows /\ mine # NoVehicle /\ mine.owner = vehicles[v].owner
  BY <1>1, <1>3, <1>4
<1>6. /\ to \in {"saving customer", "checking owner", "saving vehicle"} /\ o \in RegistryOps
      /\ s \in {"none", "ACTIVE", "INACTIVE"} /\ mine \in VehicleRows \cup {NoVehicle}
      /\ o # "add vehicle"
  BY <1>4, <1>5 DEF RegistryOps
<1>7. Fits(to, o, v, s, mine)
  BY <1>1, <1>4, <1>5 DEF Fits
<1> QED BY <1>4, <1>5, <1>6, <1>7, ReadsKeep

\* The second read of a transfer: the owner it gives is there and active, or the
\* request ends.
LEMMA CheckOwnerKeeps ==
  ASSUME RegistryAssumption, RegistryInv, NEW r \in Requests, CheckOwner(r)
  PROVE  RegistryInv' /\ VehiclesStay
<1>1. /\ stage[r] = "checking owner" /\ does[r] = "transfer" /\ row[r] # NoVehicle
      /\ vehicles[what[r]] # NoVehicle /\ who[r] \in Customers /\ row[r] \in VehicleRows
  BY DEF CheckOwner, Reaches, RegistryInv, RegistryTypeOK, Fits
<1>2. PICK to, mine :
        /\ stage' = [stage EXCEPT ![r] = to] /\ row' = [row EXCEPT ![r] = mine]
        /\ mine \in VehicleRows /\ to \in {"saving vehicle", "done"}
        /\ to = "saving vehicle" => mine # NoVehicle /\ customers[mine.owner] # "none"
  <2>1. CASE MayOwn(who[r])
    <3>1. PICK c \in Customers, gone \in BOOLEAN : c = who[r] /\ gone = row[r].removed
      BY <1>1 DEF VehicleRows
    <3>4. PICK mine : mine = [owner |-> c, removed |-> gone]
      OBVIOUS
    <3>2. mine \in VehicleRows /\ mine # NoVehicle /\ mine.owner = who[r]
      BY <3>1, <3>4, RowIs
    <3>3. stage' = [stage EXCEPT ![r] = "saving vehicle"] /\ row' = [row EXCEPT ![r] = mine]
      BY <2>1, <3>1, <3>4 DEF CheckOwner, Reaches
    <3> QED BY <2>1, <3>2, <3>3 DEF MayOwn
  <2>2. CASE ~MayOwn(who[r])
    <3>1. PICK to, mine : to = "done" /\ mine = row[r]
      OBVIOUS
    <3>2. stage' = [stage EXCEPT ![r] = to] /\ row' = [row EXCEPT ![r] = mine]
      BY <2>2, <3>1 DEF CheckOwner, Reaches, RegistryInv, RegistryTypeOK
    <3>3. mine \in VehicleRows /\ to \in {"saving vehicle", "done"} /\ to # "saving vehicle"
      BY <1>1, <3>1
    <3> QED BY <3>2, <3>3
  <2> QED BY <2>1, <2>2
<1>3. UNCHANGED <<tables, does, who, what, standing>>
  BY DEF CheckOwner
<1>4. RegistryTypeOK'
  BY <1>2, <1>3 DEF RegistryInv, RegistryTypeOK, tables
<1>5. OneCustomerPerUser' /\ PlatesAreUnique' /\ AddersDiffer'
  BY <1>3 DEF RegistryInv, OneCustomerPerUser, PlatesAreUnique, Present, AddersDiffer, tables
<1>6. ASSUME NEW q \in Requests
      PROVE  Fits(stage[q], does[q], what[q], standing[q], row[q])'
  <2>1. CASE q = r
    <3>1. stage'[r] = to /\ row'[r] = mine
      BY <1>2 DEF RegistryInv, RegistryTypeOK
    <3> QED BY <1>1, <1>2, <1>3, <2>1, <3>1 DEF Fits, tables
  <2>2. CASE q # r
    <3>1. Fits(stage[q], does[q], what[q], standing[q], row[q])
      BY DEF RegistryInv
    <3>2. stage'[q] = stage[q] /\ row'[q] = row[q]
      BY <1>2, <2>2 DEF RegistryInv, RegistryTypeOK
    <3> QED BY <1>3, <3>1, <3>2 DEF Fits, tables
  <2> QED BY <2>1, <2>2
<1>7. ~NoTransfers /\ ~NoTransfers'
  BY <1>1, <1>3 DEF NoTransfers
<1> QED BY <1>3, <1>4, <1>5, <1>6, <1>7 DEF RegistryInv, VehiclesStay, tables

\* A customer that is saved has a row from then on.
LEMMA SaveCustomerKeeps ==
  ASSUME RegistryAssumption, RegistryInv, NEW r \in Requests, SaveCustomer(r)
  PROVE  RegistryInv' /\ VehiclesStay
<1>1. PICK c, new : c = who[r] /\ new = standing[r]
  OBVIOUS
<1>2. c \in Customers /\ new \in {"ACTIVE", "INACTIVE"}
  BY <1>1 DEF SaveCustomer, Reaches, RegistryInv, RegistryTypeOK, Fits
<1>3. /\ stage' = [stage EXCEPT ![r] = "done"] /\ UNCHANGED <<vehicles, copies>>
      /\ \/ customers' = customers
         \/ customers' = [customers EXCEPT ![c] = new] /\ ~UserTaken(c)
  BY <1>1 DEF SaveCustomer, Reaches
<1>4. customers \in [Customers -> {"none", "ACTIVE", "INACTIVE"}]
  BY DEF RegistryInv, RegistryTypeOK
<1>5. /\ customers' \in [Customers -> {"none", "ACTIVE", "INACTIVE"}]
      /\ \A d \in Customers : customers'[d] = customers[d] \/ (d = c /\ customers'[d] = new)
  BY <1>2, <1>3, <1>4
<1>11. \A d \in Customers : customers[d] # "none" => customers'[d] # "none"
  BY <1>2, <1>5
<1>12. RegistryTypeOK'
  <2>1. \A v \in Vehicles : vehicles[v] # NoVehicle => vehicles[v].owner \in Customers
    BY DEF RegistryInv, RegistryTypeOK, VehicleRows
  <2>2. \A v \in Vehicles : vehicles'[v] # NoVehicle => customers'[vehicles'[v].owner] # "none"
    BY <1>3, <1>11, <2>1 DEF RegistryInv, RegistryTypeOK
  <2> QED BY <1>3, <1>5, <2>2 DEF RegistryInv, RegistryTypeOK, copies
<1>6. OneCustomerPerUser'
  <2>1. CASE customers' = customers
    BY <2>1 DEF RegistryInv, OneCustomerPerUser
  <2>2. CASE customers' # customers
    <3>1. ~UserTaken(c)
      BY <1>3, <2>2
    <3> QED BY <1>2, <1>5, <3>1 DEF RegistryInv, OneCustomerPerUser, UserTaken
  <2> QED BY <2>1, <2>2
<1>7. PlatesAreUnique' /\ AddersDiffer'
  BY <1>3 DEF RegistryInv, PlatesAreUnique, Present, AddersDiffer, copies
<1>8. ASSUME NEW q \in Requests
      PROVE  Fits(stage[q], does[q], what[q], standing[q], row[q])'
  <2>1. Fits(stage[q], does[q], what[q], standing[q], row[q])
    BY DEF RegistryInv
  <2>2. stage'[q] = stage[q] \/ stage'[q] = "done"
    BY <1>3 DEF RegistryInv, RegistryTypeOK
  <2>3. row[q] # NoVehicle => row[q].owner \in Customers
    BY DEF RegistryInv, RegistryTypeOK, VehicleRows
  <2> QED BY <1>3, <1>11, <2>1, <2>2, <2>3 DEF Fits, copies
<1>9. NoTransfers' => NoTransfers
  BY <1>3 DEF NoTransfers, copies
<1>10. NoTransfers' => \A q \in Requests : OwnerIsKept(q)'
  BY <1>3, <1>9 DEF RegistryInv, RegistryTypeOK, OwnerIsKept, copies
<1> QED BY <1>3, <1>12, <1>6, <1>7, <1>8, <1>9, <1>10 DEF RegistryInv, VehiclesStay

\* A vehicle is saved with an owner there is, and with no other owner unless
\* somebody transfers.
LEMMA SaveVehicleKeeps ==
  ASSUME RegistryAssumption, RegistryInv, NEW r \in Requests, SaveVehicle(r)
  PROVE  RegistryInv' /\ VehiclesStay
<1>1. PICK v, mine : v = what[r] /\ mine = row[r]
  OBVIOUS
<1>2. /\ v \in Vehicles /\ mine \in VehicleRows /\ mine # NoVehicle
      /\ customers[mine.owner] # "none" /\ (vehicles[v] = NoVehicle <=> does[r] = "add vehicle")
  BY <1>1 DEF SaveVehicle, Reaches, RegistryInv, RegistryTypeOK, Fits
<1>3. /\ stage[r] = "saving vehicle" /\ stage' = [stage EXCEPT ![r] = "done"]
      /\ UNCHANGED <<customers, copies>>
      /\ \/ vehicles' = vehicles
         \/ vehicles' = [vehicles EXCEPT ![v] = mine] /\ ~PlateTaken(r)
  BY <1>1 DEF SaveVehicle, Reaches
<1>4. RegistryTypeOK'
  BY <1>2, <1>3 DEF RegistryInv, RegistryTypeOK, copies
<1>5. OneCustomerPerUser' /\ AddersDiffer'
  BY <1>3 DEF RegistryInv, OneCustomerPerUser, AddersDiffer, copies
<1>7. \A q \in Requests : q # r => stage'[q] = stage[q]
  BY <1>3 DEF RegistryInv, RegistryTypeOK
<1>8. stage'[r] = "done"
  BY <1>3 DEF RegistryInv, RegistryTypeOK
<1>9. \A w \in Vehicles : vehicles'[w] = vehicles[w] \/ (w = v /\ vehicles'[w] = mine)
  BY <1>3 DEF RegistryInv, RegistryTypeOK
<1>6. PlatesAreUnique'
  <2>1. CASE vehicles' = vehicles
    BY <2>1 DEF RegistryInv, PlatesAreUnique, Present
  <2>2. CASE vehicles' # vehicles
    <3>1. ~mine.removed => \A w \in Vehicles \ {v} : PlateOf[w] = PlateOf[v] => ~Present(w)
      BY <1>1, <1>3, <2>2 DEF PlateTaken
    <3> QED BY <1>2, <1>9, <3>1 DEF RegistryInv, PlatesAreUnique, Present
  <2> QED BY <2>1, <2>2
<1>10. ASSUME NEW q \in Requests
       PROVE  Fits(stage[q], does[q], what[q], standing[q], row[q])'
  <2>1. CASE q = r
    BY <1>8, <2>1 DEF Fits
  <2>2. CASE q # r
    <3>1. Fits(stage[q], does[q], what[q], standing[q], row[q])
      BY DEF RegistryInv
    <3>2. what[q] \in Vehicles
      BY DEF RegistryInv, RegistryTypeOK
    <3>3. does[q] = "add vehicle" /\ does[r] = "add vehicle" => what[q] # v
      BY <1>1, <2>2 DEF RegistryInv, AddersDiffer
    <3>4. stage[q] \in {"checking owner", "saving vehicle"} =>
            (vehicles'[what[q]] = NoVehicle <=> does[q] = "add vehicle")
      BY <1>2, <1>9, <3>1, <3>2, <3>3 DEF Fits
    <3> QED BY <1>3, <1>7, <2>2, <3>1, <3>4 DEF Fits, copies
  <2> QED BY <2>1, <2>2
<1>11. NoTransfers' => NoTransfers
  BY <1>3 DEF NoTransfers, copies
<1>12. NoTransfers /\ vehicles[v] # NoVehicle => mine.owner = vehicles[v].owner
  BY <1>1, <1>2, <1>3 DEF RegistryInv, OwnerIsKept
<1>13. \A w \in Vehicles : vehicles[w] # NoVehicle =>
         vehicles'[w] # NoVehicle /\ (NoTransfers => vehicles'[w].owner = vehicles[w].owner)
  BY <1>2, <1>9, <1>12
<1>14. ASSUME NoTransfers', NEW q \in Requests
       PROVE  OwnerIsKept(q)'
  <2>1. CASE q = r
    BY <1>8, <2>1 DEF OwnerIsKept
  <2>2. CASE q # r
    <3>1. OwnerIsKept(q) /\ what[q] \in Vehicles
      BY <1>11, <1>14 DEF RegistryInv, RegistryTypeOK
    <3>2. stage[q] = "saving vehicle" /\ does[q] # "add vehicle" => vehicles[what[q]] # NoVehicle
      BY DEF RegistryInv, Fits
    <3> QED BY <1>3, <1>7, <1>11, <1>13, <1>14, <2>2, <3>1, <3>2 DEF OwnerIsKept, copies
  <2> QED BY <2>1, <2>2
<1> QED BY <1>4, <1>5, <1>6, <1>10, <1>11, <1>13, <1>14 DEF RegistryInv, VehiclesStay

LEMMA RegistryStep ==
  ASSUME RegistryAssumption, RegistryInv, RegistryNext
  PROVE  RegistryInv' /\ VehiclesStay
<1>1. ASSUME NEW r \in Requests, NEW v \in Vehicles,
             StartEditVehicle(r, v) \/ StartRemoveVehicle(r, v)
      PROVE  RegistryInv' /\ VehiclesStay
  <2>1. PICK c \in Customers : TRUE
    BY DEF RegistryAssumption
  <2> QED BY <1>1, <2>1, StartVehicleKeeps
<1> QED BY <1>1, StartCustomerKeeps, StartAddVehicleKeeps, StartVehicleKeeps, CheckOwnerKeeps,
   SaveCustomerKeeps, SaveVehicleKeeps DEF RegistryNext

LEMMA RegistryStutters ==
  ASSUME RegistryInv, UNCHANGED registry
  PROVE  RegistryInv'
<1>1. RegistryTypeOK' /\ OneCustomerPerUser' /\ PlatesAreUnique' /\ AddersDiffer'
  BY DEF registry, tables, copies, RegistryInv, RegistryTypeOK, OneCustomerPerUser,
     PlatesAreUnique, Present, AddersDiffer
<1>2. \A r \in Requests : Fits(stage[r], does[r], what[r], standing[r], row[r])'
  BY DEF registry, tables, copies, RegistryInv, Fits
<1>3. NoTransfers' => \A r \in Requests : OwnerIsKept(r)'
  BY DEF registry, tables, copies, RegistryInv, NoTransfers, OwnerIsKept
<1> QED BY <1>1, <1>2, <1>3 DEF RegistryInv

-------------------------------------------------------------------------------
(* The openings. *)

\* An opening that has found its vehicle keeps finding it, of the customer it gave
\* while nobody transfers; one that has not ended may draw once more.
OpeningFits(q) ==
  /\ q.at \in {"vehicle found", "drawing"} =>
       /\ vehicles[q.vehicle] # NoVehicle
       /\ NoTransfers => vehicles[q.vehicle].owner = q.customer
  /\ q.at \in {"customer found", "vehicle found", "drawing"} => q.draws < MaxDraws

WorkshopInv ==
  /\ RegistryInv
  /\ OpeningsTypeOK /\ OneOpenOrderPerVehicle /\ CustomerOwnedVehicle
  /\ \A n \in Openings : OpeningFits(opening[n])

LEMMA WorkshopBegins ==
  ASSUME RegistryAssumption, OpeningAssumption, WorkshopInit
  PROVE  WorkshopInv
<1>1. RegistryInv
  BY RegistryBegins DEF WorkshopInit
<1>2. (CHOOSE c \in Customers : TRUE) \in Customers /\ (CHOOSE v \in Vehicles : TRUE) \in Vehicles
  BY DEF RegistryAssumption
<1>3. Idle \in OpeningType /\ Idle.at = "idle"
  BY <1>2 DEF Idle, OpeningType, OpeningAssumption
<1>4. /\ listed = Offers /\ opening = [n \in Openings |-> Idle]
      /\ orders = [n \in Openings |-> NoOrder]
  BY DEF WorkshopInit, OpeningsInit
<1>5. OpeningsTypeOK
  BY <1>1, <1>3, <1>4 DEF OpeningsTypeOK, RegistryInv
<1>6. OneOpenOrderPerVehicle /\ CustomerOwnedVehicle
  BY <1>4 DEF OneOpenOrderPerVehicle, CustomerOwnedVehicle, Open
<1>7. \A n \in Openings : OpeningFits(opening[n])
  BY <1>3, <1>4 DEF OpeningFits
<1> QED BY <1>1, <1>5, <1>6, <1>7 DEF WorkshopInv

\* The requests of the registry, between any two steps of an opening.
LEMMA RegistryMovesKeep ==
  ASSUME WorkshopInv, RegistryInv', VehiclesStay, UNCHANGED visits
  PROVE  WorkshopInv'
<1>1. \A n \in Openings : opening[n].vehicle \in Vehicles
  BY DEF WorkshopInv, OpeningsTypeOK, OpeningType
<1>2. \A n \in Openings : orders[n] # NoOrder =>
        orders[n].vehicle \in Vehicles /\ vehicles[orders[n].vehicle] # NoVehicle
  BY DEF WorkshopInv, OpeningsTypeOK, OrderRows
<1>3. OpeningsTypeOK'
  <2>1. \A n \in Openings : orders[n] # NoOrder => vehicles'[orders[n].vehicle] # NoVehicle
    BY <1>2 DEF VehiclesStay
  <2> QED BY <2>1 DEF WorkshopInv, OpeningsTypeOK, RegistryInv, visits
<1>4. OneOpenOrderPerVehicle'
  BY DEF WorkshopInv, OneOpenOrderPerVehicle, Open, visits
<1>5. CustomerOwnedVehicle'
  <2>1. SUFFICES ASSUME NoTransfers', NEW n \in Openings, orders[n] # NoOrder
                 PROVE  vehicles'[orders[n].vehicle].owner = orders[n].customer
    BY DEF CustomerOwnedVehicle, NoTransfers, visits
  <2>2. vehicles[orders[n].vehicle].owner = orders[n].customer
    BY <2>1 DEF WorkshopInv, CustomerOwnedVehicle, VehiclesStay, NoTransfers
  <2> QED BY <1>2, <2>1, <2>2 DEF VehiclesStay
<1>6. \A n \in Openings : OpeningFits(opening[n])'
  <2>1. TAKE n \in Openings
  <2>2. OpeningFits(opening[n])
    BY DEF WorkshopInv
  <2> QED BY <1>1, <2>2 DEF OpeningFits, VehiclesStay, visits
<1> QED BY <1>3, <1>4, <1>5, <1>6 DEF WorkshopInv

\* What does not touch the registry and the work orders only has to leave every
\* opening in a place that fits.
LEMMA OpeningsMoveKeeps ==
  ASSUME WorkshopInv, UNCHANGED <<registry, orders>>, listed' \subseteq Offers,
         NEW n \in Openings, NEW q \in OpeningType, opening' = [opening EXCEPT ![n] = q],
         opening[n].at # "opened", q.at # "opened", OpeningFits(q)
  PROVE  WorkshopInv'
<1>1. RegistryInv'
  BY RegistryStutters DEF WorkshopInv
<1>2. UNCHANGED <<vehicles, does>>
  BY DEF registry, tables, copies
<1>3. opening \in [Openings -> OpeningType]
  BY DEF WorkshopInv, OpeningsTypeOK
<1>4. OpeningsTypeOK'
  BY <1>1, <1>2, <1>3 DEF WorkshopInv, OpeningsTypeOK, RegistryInv
<1>5. OneOpenOrderPerVehicle' /\ CustomerOwnedVehicle'
  BY <1>2 DEF WorkshopInv, OneOpenOrderPerVehicle, CustomerOwnedVehicle, Open
<1>6. \A m \in Openings : OpeningFits(opening[m])'
  <2>1. TAKE m \in Openings
  <2>2. OpeningFits(opening'[m])
    BY <1>3 DEF WorkshopInv
  <2> QED BY <1>2, <2>2 DEF OpeningFits, NoTransfers
<1> QED BY <1>1, <1>4, <1>5, <1>6 DEF WorkshopInv

\* A step that only moves an opening on.
LEMMA StepsKeep ==
  ASSUME WorkshopInv, NEW n \in Openings, NEW from,
         NEW to \in {"vehicle found", "drawing", "refused"}, Steps(n, from, to),
         from \in {"customer found", "vehicle found", "drawing"},
         OpeningFits([opening[n] EXCEPT !.at = to])
  PROVE  WorkshopInv'
<1>1. PICK q : q = [opening[n] EXCEPT !.at = to]
  OBVIOUS
<1>2. opening[n] \in OpeningType /\ opening[n].at = from
  BY DEF WorkshopInv, OpeningsTypeOK, Steps
<1>3. q \in OpeningType /\ q.at = to
  BY <1>1, <1>2 DEF OpeningType
<1>4. opening' = [opening EXCEPT ![n] = q] /\ UNCHANGED <<registry, listed, orders>>
  BY <1>1 DEF WorkshopInv, OpeningsTypeOK, Steps
<1>5. listed' \subseteq Offers
  BY <1>4 DEF WorkshopInv, OpeningsTypeOK
<1> QED BY <1>1, <1>2, <1>3, <1>4, <1>5, OpeningsMoveKeeps

LEMMA FindCustomerKeeps ==
  ASSUME OpeningAssumption, WorkshopInv, NEW n \in Openings, NEW c \in Customers,
         NEW v \in Vehicles, NEW items \in SUBSET Offers, FindCustomer(n, c, v, items)
  PROVE  WorkshopInv'
<1>1. PICK to : to = IF customers[c] = "ACTIVE" THEN "customer found" ELSE "refused"
  OBVIOUS
<1>2. PICK q : q = [at |-> to, customer |-> c, vehicle |-> v, items |-> items, draws |-> 0]
  OBVIOUS
<1>3. q \in OpeningType /\ q.at # "opened" /\ OpeningFits(q)
  <2>1. MaxDraws \in Nat \ {0}
    BY DEF OpeningAssumption
  <2>2. to \in {"customer found", "refused"}
    BY <1>1
  <2>3. 0 \in 0 .. MaxDraws /\ 0 < MaxDraws
    BY <2>1
  <2>4. q.at = to /\ q.draws = 0
    BY <1>2
  <2>5. q \in OpeningType
    BY <1>2, <2>2, <2>3 DEF OpeningType
  <2> QED BY <2>2, <2>3, <2>4, <2>5 DEF OpeningFits
<1>4. /\ opening[n].at # "opened" /\ opening' = [opening EXCEPT ![n] = q]
      /\ UNCHANGED <<registry, listed, orders>>
  BY <1>1, <1>2 DEF FindCustomer
<1>5. listed' \subseteq Offers
  BY <1>4 DEF WorkshopInv, OpeningsTypeOK
<1> QED BY <1>3, <1>4, <1>5, OpeningsMoveKeeps

LEMMA FindVehicleKeeps ==
  ASSUME WorkshopInv, NEW n \in Openings, FindVehicle(n)
  PROVE  WorkshopInv'
<1>1. PICK to : to = IF OwnedByCustomer(n) THEN "vehicle found" ELSE "refused"
  OBVIOUS
<1>2. Steps(n, "customer found", to) /\ opening[n] \in OpeningType
  BY <1>1 DEF FindVehicle, WorkshopInv, OpeningsTypeOK
<1>3. opening[n].at = "customer found" /\ OpeningFits(opening[n])
  BY <1>2 DEF Steps, WorkshopInv
<1>4. PICK q : q = [opening[n] EXCEPT !.at = to]
  OBVIOUS
<1>5. /\ q.at = to /\ q.vehicle = opening[n].vehicle /\ q.customer = opening[n].customer
      /\ q.draws = opening[n].draws
  BY <1>2, <1>4 DEF OpeningType
<1>6. OpeningFits(q)
  BY <1>1, <1>3, <1>5 DEF OpeningFits, OwnedByCustomer, Present
<1> QED BY <1>1, <1>2, <1>4, <1>6, StepsKeep

LEMMA ResolveItemsKeeps ==
  ASSUME WorkshopInv, NEW n \in Openings, ResolveItems(n)
  PROVE  WorkshopInv'
<1>1. PICK to : to = IF opening[n].items \subseteq listed THEN "drawing" ELSE "refused"
  OBVIOUS
<1>2. Steps(n, "vehicle found", to) /\ opening[n] \in OpeningType
  BY <1>1 DEF ResolveItems, WorkshopInv, OpeningsTypeOK
<1>3. opening[n].at = "vehicle found" /\ OpeningFits(opening[n])
  BY <1>2 DEF Steps, WorkshopInv
<1>4. PICK q : q = [opening[n] EXCEPT !.at = to]
  OBVIOUS
<1>5. /\ q.at = to /\ q.vehicle = opening[n].vehicle /\ q.customer = opening[n].customer
      /\ q.draws = opening[n].draws
  BY <1>2, <1>4 DEF OpeningType
<1>6. OpeningFits(q)
  BY <1>1, <1>3, <1>5 DEF OpeningFits
<1> QED BY <1>1, <1>2, <1>4, <1>6, StepsKeep

LEMMA RefuseVisitingKeeps ==
  ASSUME WorkshopInv, NEW n \in Openings, RefuseVisiting(n)
  PROVE  WorkshopInv'
<1>1. Steps(n, "drawing", "refused") /\ opening[n] \in OpeningType
  BY DEF RefuseVisiting, WorkshopInv, OpeningsTypeOK
<1>2. OpeningFits([opening[n] EXCEPT !.at = "refused"])
  BY <1>1 DEF OpeningFits, OpeningType
<1> QED BY <1>1, <1>2, StepsKeep

\* The draws end before they are more than MaxDraws.
LEMMA DrawAgainKeeps ==
  ASSUME OpeningAssumption, WorkshopInv, NEW n \in Openings, NEW number \in Numbers,
         DrawAgain(n, number)
  PROVE  WorkshopInv'
<1>1. PICK o : o = opening[n]
  OBVIOUS
<1>2. o \in OpeningType /\ o.at = "drawing" /\ OpeningFits(o)
  BY <1>1 DEF DrawAgain, WorkshopInv, OpeningsTypeOK
<1>3. o.draws \in Nat /\ o.draws < MaxDraws /\ MaxDraws \in Nat
  <2>1. MaxDraws \in Nat \ {0}
    BY DEF OpeningAssumption
  <2>2. o.draws \in 0 .. MaxDraws
    BY <1>2 DEF OpeningType
  <2> QED BY <1>2, <2>1, <2>2 DEF OpeningFits
<1>4. PICK to, d : /\ to = IF o.draws + 1 = MaxDraws THEN "refused" ELSE "drawing"
                   /\ d = o.draws + 1
  OBVIOUS
<1>5. PICK q : q = [o EXCEPT !.at = to, !.draws = d]
  OBVIOUS
<1>6. /\ q.at = to /\ q.draws = d /\ q.vehicle = o.vehicle /\ q.customer = o.customer
      /\ q \in OpeningType
  <2>1. d \in 0 .. MaxDraws /\ to \in {"refused", "drawing"}
    BY <1>3, <1>4
  <2> QED BY <1>2, <1>5, <2>1 DEF OpeningType
<1>7. OpeningFits(q) /\ q.at # "opened"
  BY <1>2, <1>3, <1>4, <1>6 DEF OpeningFits
<1>8. opening' = [opening EXCEPT ![n] = q] /\ UNCHANGED <<registry, listed, orders>>
  BY <1>1, <1>4, <1>5 DEF DrawAgain, WorkshopInv, OpeningsTypeOK
<1>9. listed' \subseteq Offers /\ opening[n].at # "opened"
  BY <1>1, <1>2, <1>8 DEF WorkshopInv, OpeningsTypeOK
<1> QED BY <1>6, <1>7, <1>8, <1>9, OpeningsMoveKeeps

\* The save of a work order: no other of the vehicle is open, none has its number,
\* and the vehicle is still one of its customer unless somebody transfers.
LEMMA SaveOpenedKeeps ==
  ASSUME OpeningAssumption, WorkshopInv, NEW n \in Openings, NEW number \in Numbers,
         SaveOpened(n, number)
  PROVE  WorkshopInv'
<1>1. PICK o : o = opening[n]
  OBVIOUS
<1>2. o \in OpeningType /\ o.at = "drawing" /\ OpeningFits(o)
  BY <1>1 DEF SaveOpened, WorkshopInv, OpeningsTypeOK
<1>3. PICK w : w = [number |-> number, vehicle |-> o.vehicle, customer |-> o.customer,
                    items |-> o.items, open |-> TRUE]
  OBVIOUS
<1>4. /\ w \in OrderRows /\ w.number = number /\ w.vehicle = o.vehicle
      /\ w.customer = o.customer /\ w.open
  BY <1>2, <1>3 DEF OrderRows, OpeningType
<1>5. w # NoOrder
  BY <1>4 DEF OpeningAssumption
<1>6. PICK q : q = [o EXCEPT !.at = "opened"]
  OBVIOUS
<1>7. q \in OpeningType /\ q.at = "opened"
  BY <1>2, <1>6 DEF OpeningType
<1>8. /\ opening' = [opening EXCEPT ![n] = q] /\ orders' = [orders EXCEPT ![n] = w]
      /\ UNCHANGED <<registry, listed>> /\ ~NumberTaken(number) /\ ~Visiting(o.vehicle)
  BY <1>1, <1>3, <1>6 DEF SaveOpened, WorkshopInv, OpeningsTypeOK
<1>9. RegistryInv' /\ UNCHANGED <<vehicles, does>>
  BY <1>8, RegistryStutters DEF WorkshopInv, registry, tables, copies
<1>10. /\ orders'[n] = w /\ opening'[n] = q
       /\ \A m \in Openings : m # n => orders'[m] = orders[m] /\ opening'[m] = opening[m]
  BY <1>8 DEF WorkshopInv, OpeningsTypeOK
<1>11. OpeningsTypeOK'
  <2>1. opening' \in [Openings -> OpeningType]
    BY <1>7, <1>8 DEF WorkshopInv, OpeningsTypeOK
  <2>2. vehicles[w.vehicle] # NoVehicle
    BY <1>2, <1>4 DEF OpeningFits
  <2> QED BY <1>4, <1>5, <1>7, <1>8, <1>9, <1>10, <2>1, <2>2
        DEF WorkshopInv, OpeningsTypeOK, RegistryInv
<1>12. OneOpenOrderPerVehicle'
  <2>1. \A m \in Openings : Open(m)' => m = n \/ Open(m)
    BY <1>10 DEF Open
  <2>2. \A m \in Openings : m # n /\ Open(m) => orders[m].vehicle # w.vehicle
    BY <1>4, <1>8 DEF Visiting
  <2>3. \A m \in Openings : m # n /\ orders[m] # NoOrder => orders[m].number # w.number
    BY <1>4, <1>8 DEF NumberTaken
  <2> QED BY <1>10, <2>1, <2>2, <2>3 DEF WorkshopInv, OneOpenOrderPerVehicle
<1>13. CustomerOwnedVehicle'
  <2>1. NoTransfers => vehicles[w.vehicle].owner = w.customer
    BY <1>2, <1>4 DEF OpeningFits
  <2> QED BY <1>9, <1>10, <2>1 DEF WorkshopInv, CustomerOwnedVehicle, NoTransfers
<1>14. \A m \in Openings : OpeningFits(opening[m])'
  <2>1. TAKE m \in Openings
  <2>2. CASE m = n
    BY <1>7, <1>10, <2>2 DEF OpeningFits
  <2>3. CASE m # n
    <3>1. OpeningFits(opening[m])
      BY DEF WorkshopInv
    <3> QED BY <1>9, <1>10, <2>3, <3>1 DEF OpeningFits, NoTransfers
  <2> QED BY <2>2, <2>3
<1> QED BY <1>9, <1>11, <1>12, <1>13, <1>14 DEF WorkshopInv

LEMMA CloseOrderKeeps ==
  ASSUME OpeningAssumption, WorkshopInv, NEW n \in Openings, CloseOrder(n)
  PROVE  WorkshopInv'
<1>1. orders[n] # NoOrder /\ orders[n] \in OrderRows
  BY DEF CloseOrder, Open, WorkshopInv, OpeningsTypeOK
<1>2. PICK w : w = [orders[n] EXCEPT !.open = FALSE]
  OBVIOUS
<1>3. /\ w \in OrderRows /\ w.number = orders[n].number /\ w.vehicle = orders[n].vehicle
      /\ w.customer = orders[n].customer /\ ~w.open
  BY <1>1, <1>2 DEF OrderRows
<1>4. w # NoOrder
  BY <1>3 DEF OpeningAssumption
<1>5. orders' = [orders EXCEPT ![n] = w] /\ UNCHANGED <<registry, listed, opening>>
  BY <1>2 DEF CloseOrder
<1>6. RegistryInv' /\ UNCHANGED <<vehicles, does>>
  BY <1>5, RegistryStutters DEF WorkshopInv, registry, tables, copies
<1>7. \A m \in Openings :
        /\ orders'[m] = orders[m] \/ (m = n /\ orders'[m] = w)
        /\ Open(m)' => Open(m) /\ orders'[m] = orders[m]
  BY <1>3, <1>5 DEF Open, CloseOrder
<1>8. OpeningsTypeOK'
  BY <1>1, <1>3, <1>4, <1>5, <1>6, <1>7 DEF WorkshopInv, OpeningsTypeOK, RegistryInv
<1>9. OneOpenOrderPerVehicle'
  BY <1>1, <1>3, <1>7 DEF WorkshopInv, OneOpenOrderPerVehicle
<1>10. CustomerOwnedVehicle'
  BY <1>1, <1>3, <1>6, <1>7 DEF WorkshopInv, CustomerOwnedVehicle
<1>11. \A m \in Openings : OpeningFits(opening[m])'
  BY <1>5, <1>6 DEF WorkshopInv, OpeningFits, NoTransfers
<1> QED BY <1>6, <1>8, <1>9, <1>10, <1>11 DEF WorkshopInv

LEMMA WorkshopStep ==
  ASSUME RegistryAssumption, OpeningAssumption, WorkshopInv, [WorkshopNext]_workshop
  PROVE  WorkshopInv'
<1>1. CASE UNCHANGED workshop \/ \E i \in Offers : Unlist(i)
  <2>1. UNCHANGED <<registry, opening, orders>> /\ listed' \subseteq Offers
    BY <1>1 DEF workshop, visits, Unlist, WorkshopInv, OpeningsTypeOK
  <2>2. RegistryInv' /\ UNCHANGED <<vehicles, does>>
    BY <2>1, RegistryStutters DEF WorkshopInv, registry, tables, copies
  <2>3. OpeningsTypeOK' /\ OneOpenOrderPerVehicle' /\ CustomerOwnedVehicle'
    BY <2>1, <2>2 DEF WorkshopInv, OpeningsTypeOK, RegistryInv, OneOpenOrderPerVehicle,
       CustomerOwnedVehicle, Open
  <2>4. \A n \in Openings : OpeningFits(opening[n])'
    BY <2>1, <2>2 DEF WorkshopInv, OpeningFits, NoTransfers
  <2> QED BY <2>2, <2>3, <2>4 DEF WorkshopInv
<1>2. CASE RegistryNext /\ UNCHANGED visits
  <2>1. RegistryInv
    BY DEF WorkshopInv
  <2> QED BY <1>2, <2>1, RegistryStep, RegistryMovesKeep
<1>3. ASSUME NEW n \in Openings, OpeningStep(n)
      PROVE  WorkshopInv'
  BY <1>3, FindVehicleKeeps, ResolveItemsKeeps, RefuseVisitingKeeps, DrawAgainKeeps,
     SaveOpenedKeeps DEF OpeningStep
<1> QED BY <1>1, <1>2, <1>3, CloseOrderKeeps, FindCustomerKeeps DEF WorkshopNext

\* Whatever requests and openings run at once, a user backs one customer, a plate
\* one vehicle and a vehicle one open work order, of a customer that owned it: for
\* every registry, any number of requests and openings, and any number of draws.
THEOREM CustomersStaySafe ==
  ASSUME RegistryAssumption, OpeningAssumption
  PROVE  WorkshopSpec => []CustomersAreSafe
<1>1. WorkshopInit => WorkshopInv
  BY WorkshopBegins
<1>2. WorkshopInv /\ [WorkshopNext]_workshop => WorkshopInv'
  BY WorkshopStep
<1>3. WorkshopInv => CustomersAreSafe
  BY DEF WorkshopInv, RegistryInv, CustomersAreSafe
<1> QED BY <1>1, <1>2, <1>3, PTL DEF WorkshopSpec

-------------------------------------------------------------------------------
(* The trail of a work order: how a listing is folded into a status. *)

\* What a reader takes the status to be after all entries of a trail.
Told(s) == FoldLeft(Tell, Null, s)

\* The fold, with its recursion named: over sets of ids, by their greatest.
ToldOf(s, it, t) == IF t = {} THEN Null ELSE Tell(it[t \ {Max(t)}], s[Max(t)])
Telling(s) == CHOOSE it : it = [t \in SUBSET DOMAIN s |-> ToldOf(s, it, t)]

\* What is told of a trail is the recursion at the set of all its ids.
LEMMA ToldUnfolds ==
  ASSUME NEW s
  PROVE  Told(s) = Telling(s)[DOMAIN s]
BY DEF Told, Telling, ToldOf, FoldLeft, MapThenFoldSet

\* A set of ids up to some number has a greatest.
LEMMA GreatestId ==
  ASSUME NEW n \in Nat, NEW t \in SUBSET (1 .. n), t # {}
  PROVE  Max(t) \in t /\ \A i \in t : i <= Max(t)
<1> DEFINE B == {n - i : i \in t}
<1>1. B \subseteq Nat /\ B # {}
  <2>1. \A i \in t : n - i \in Nat OBVIOUS
  <2> QED BY <2>1
<1>2. PICK b \in B : \A k \in B : <<k, b>> \notin OpToRel(<, Nat)
  BY <1>1, WFMin, NatLessThanWellFounded, Zenon
<1>3. \A k \in B : k >= b
  <2> SUFFICES ASSUME NEW k \in B, ~(k >= b) PROVE FALSE OBVIOUS
  <2> HIDE DEF B
  <2>1. k \in Nat /\ b \in Nat /\ k < b BY <1>1
  <2>2. <<k, b>> \in OpToRel(<, Nat) BY <2>1 DEF OpToRel
  <2> QED BY <2>2, <1>2
<1>4. PICK m \in t : b = n - m OBVIOUS
<1>5. \A i \in t : m >= i
  <2> SUFFICES ASSUME NEW i \in t PROVE m >= i OBVIOUS
  <2>1. n - i \in B OBVIOUS
  <2>2. n - i >= n - m BY <2>1, <1>3, <1>4
  <2>3. n \in Int /\ i \in Int /\ m \in Int OBVIOUS
  <2> QED BY <2>2, <2>3
<1>6. \E x \in t : \A y \in t : x >= y BY <1>5
<1> DEFINE g == CHOOSE x \in t : \A y \in t : x >= y
<1>7. g \in t /\ \A y \in t : g >= y BY <1>6
<1>8. Max(t) = g BY DEF Max
<1> QED BY <1>7, <1>8

\* The recursion has a solution: one for the ids up to k + 1 is built from one
\* for those up to k.
LEMMA TellingExists ==
  ASSUME NEW s, NEW n \in Nat, DOMAIN s = 1 .. n
  PROVE  \E it : it = [t \in SUBSET DOMAIN s |-> ToldOf(s, it, t)]
<1> DEFINE Good(it, k) == \A t \in SUBSET (1 .. n) : t \subseteq 1 .. k => it[t] = ToldOf(s, it,
    t)
           N == {k \in Nat : \E it : Good(it, k)}
<1>1. 0 \in N
  <2> DEFINE it == [t \in SUBSET (1 .. n) |-> Null]
  <2>1. \A t \in SUBSET (1 .. n) : t \subseteq 1 .. 0 => t = {} OBVIOUS
  <2>2. Good(it, 0) BY <2>1 DEF ToldOf
  <2> QED BY <2>2
<1>2. ASSUME NEW k \in Nat, k \in N PROVE k + 1 \in N
  <2>1. PICK it : Good(it, k) BY <1>2
  <2> DEFINE jt == [t \in SUBSET (1 .. n) |-> ToldOf(s, it, t)]
  <2>2. \A t \in SUBSET (1 .. n) : t \subseteq 1 .. k => jt[t] = it[t] BY <2>1
  <2>3. ASSUME NEW t \in SUBSET (1 .. n), t \subseteq 1 .. (k + 1) PROVE jt[t] = ToldOf(s, jt, t)
    <3>1. CASE t = {} BY <3>1 DEF ToldOf
    <3>2. CASE t # {}
      <4> DEFINE r == t \ {Max(t)}
      <4>1. Max(t) \in t /\ \A i \in t : i <= Max(t) BY <3>2, GreatestId
      <4>2. r \in SUBSET (1 .. n) OBVIOUS
      <4>5. ASSUME NEW i \in r PROVE i \in 1 .. k
        <5>1. i \in 1 .. (k + 1) /\ i # Max(t) /\ i <= Max(t) /\ Max(t) \in 1 .. (k + 1)
          BY <4>1, <2>3
        <5> HIDE DEF r
        <5> QED BY <5>1
      <4>3. jt[r] = it[r] BY <4>2, <4>5, <2>2
      <4> QED BY <4>3 DEF ToldOf
    <3> QED BY <3>1, <3>2
  <2>4. Good(jt, k + 1) BY <2>3
  <2> HIDE DEF jt
  <2>5. \E i : Good(i, k + 1) BY <2>4
  <2> HIDE DEF Good
  <2> QED BY <2>5
<1>3. n \in N
  <2> HIDE DEF N
  <2> QED BY <1>1, <1>2, NatSetInduction
<1>4. PICK it : Good(it, n) BY <1>3
<1> DEFINE jt == [t \in SUBSET (1 .. n) |-> it[t]]
<1>5. \A t \in SUBSET (1 .. n) : ToldOf(s, it, t) = ToldOf(s, jt, t) BY DEF ToldOf
<1>6. jt = [t \in SUBSET (1 .. n) |-> ToldOf(s, jt, t)] BY <1>4, <1>5
<1> HIDE DEF jt
<1> QED BY <1>6

\* One entry more is told after those before it.
LEMMA TellingGoesOn ==
  ASSUME NEW s, NEW n \in Nat, DOMAIN s = 1 .. n
  PROVE  /\ Telling(s)[1 .. 0] = Null
         /\ \A k \in Nat : k < n =>
              Telling(s)[1 .. (k + 1)] = Tell(Telling(s)[1 .. k], s[k + 1])
<1>1. Telling(s) = [t \in SUBSET DOMAIN s |-> ToldOf(s, Telling(s), t)]
  BY TellingExists DEF Telling
<1> DEFINE h == Telling(s)
<1> HIDE DEF h
<1>2. \A t \in SUBSET (1 .. n) : h[t] = ToldOf(s, h, t) BY <1>1 DEF h
<1>3. h[1 .. 0] = Null
  <2>1. 1 .. 0 = {} OBVIOUS
  <2> QED BY <1>2, <2>1 DEF ToldOf
<1>4. ASSUME NEW k \in Nat, k < n PROVE h[1 .. (k + 1)] = Tell(h[1 .. k], s[k + 1])
  <2> DEFINE t == 1 .. (k + 1)
  <2>1. t \in SUBSET (1 .. n) /\ k + 1 \in t /\ t # {} BY <1>4
  <2>2. Max(t) = k + 1
    <3>1. Max(t) \in t /\ \A i \in t : i <= Max(t) BY <2>1, GreatestId
    <3> QED BY <3>1, <2>1
  <2>3. t \ {k + 1} = 1 .. k BY <1>4
  <2>4. h[t] = ToldOf(s, h, t) BY <2>1, <1>2
  <2> QED BY <2>1, <2>2, <2>3, <2>4 DEF ToldOf
<1> QED BY <1>3, <1>4 DEF h

\* What is told of the first entries does not depend on those that follow.
LEMMA TellingAgrees ==
  ASSUME NEW s, NEW n \in Nat, DOMAIN s = 1 .. n,
         NEW u, NEW m \in Nat, DOMAIN u = 1 .. m, n <= m, \A i \in 1 .. n : u[i] = s[i]
  PROVE  Telling(u)[1 .. n] = Told(s)
<1> DEFINE h == Telling(s)
           g == Telling(u)
           N == {k \in Nat : k <= n => g[1 .. k] = h[1 .. k]}
<1>1. h[1 .. 0] = Null /\ \A k \in Nat : k < n => h[1 .. (k + 1)] = Tell(h[1 .. k], s[k + 1])
  BY TellingGoesOn
<1>2. g[1 .. 0] = Null /\ \A k \in Nat : k < m => g[1 .. (k + 1)] = Tell(g[1 .. k], u[k + 1])
  BY TellingGoesOn
<1>3. Told(s) = h[1 .. n] BY ToldUnfolds
<1> HIDE DEF h, g
<1>4. 0 \in N BY <1>1, <1>2
<1>5. ASSUME NEW k \in Nat, k \in N PROVE k + 1 \in N
  <2> SUFFICES ASSUME k + 1 <= n PROVE g[1 .. (k + 1)] = h[1 .. (k + 1)] OBVIOUS
  <2>1. k < n /\ k < m /\ k <= n /\ k + 1 \in 1 .. n OBVIOUS
  <2>2. g[1 .. k] = h[1 .. k] /\ u[k + 1] = s[k + 1] BY <1>5, <2>1
  <2> QED BY <1>1, <1>2, <2>1, <2>2
<1>6. n \in N
  <2> HIDE DEF N
  <2> QED BY <1>4, <1>5, NatSetInduction
<1> QED BY <1>3, <1>6 DEF h, g

\* One, two or three entries more.
LEMMA ToldOneMore ==
  ASSUME NEW s, NEW n \in Nat, DOMAIN s = 1 .. n,
         NEW u, DOMAIN u = 1 .. (n + 1), \A i \in 1 .. n : u[i] = s[i]
  PROVE  Told(u) = Tell(Told(s), u[n + 1])
<1>1. Telling(u)[1 .. n] = Told(s)
  <2>1. n + 1 \in Nat /\ n <= n + 1 OBVIOUS
  <2> QED BY <2>1, TellingAgrees
<1>2. Telling(u)[1 .. (n + 1)] = Tell(Telling(u)[1 .. n], u[n + 1]) BY TellingGoesOn
<1>3. Told(u) = Telling(u)[1 .. (n + 1)] BY ToldUnfolds
<1> QED BY <1>1, <1>2, <1>3

\* The entries a save may append to a trail.
EventTypes ==
  {"WORK_ORDER_CREATED", "ANOTHER_FACT", "DIAGNOSIS_STARTED", "DIAGNOSIS_COMPLETED",
   "BUDGET_GENERATED", "SUPPLEMENTARY_BUDGET_GENERATED", "BUDGET_SENT", "BUDGET_APPROVED",
   "BUDGET_REJECTED", "EXECUTION_STARTED", "WORK_ORDER_COMPLETED", "VEHICLE_DELIVERED",
   "WORK_ORDER_CANCELED"}
Event == [type : EventTypes, from : Statuses \cup {Null}, to : Statuses \cup {Null}]
Entry == [type : EventTypes, from : Statuses \cup {Null}, to : Statuses \cup {Null}, at : Nat]

\* One entry more, and two, and three.
LEMMA ToldAppended ==
  ASSUME NEW s \in Seq(Entry), NEW e \in Seq(Entry)
  PROVE  /\ Len(e) = 1 => Told(s \o e) = Tell(Told(s), e[1])
         /\ Len(e) = 2 => Told(s \o e) = Tell(Tell(Told(s), e[1]), e[2])
         /\ Len(e) = 3 => Told(s \o e) = Tell(Tell(Tell(Told(s), e[1]), e[2]), e[3])
<1> DEFINE n == Len(s)
           u == s \o e
           g == Telling(u)
<1>1. n \in Nat /\ DOMAIN s = 1 .. n /\ DOMAIN e = 1 .. Len(e) /\ Len(e) \in Nat OBVIOUS
<1>2. DOMAIN u = 1 .. (n + Len(e)) /\ \A i \in 1 .. n : u[i] = s[i] OBVIOUS
<1>3. \A i \in 1 .. Len(e) : u[n + i] = e[i] OBVIOUS
<1>4. n + Len(e) \in Nat /\ n <= n + Len(e) BY <1>1
<1> HIDE DEF n, u
<1>5. g[1 .. n] = Told(s) BY <1>1, <1>2, <1>4, TellingAgrees
<1>6. \A k \in Nat : k < n + Len(e) => g[1 .. (k + 1)] = Tell(g[1 .. k], u[k + 1])
  BY <1>2, <1>4, TellingGoesOn
<1>7. Told(u) = g[1 .. (n + Len(e))] BY <1>2, ToldUnfolds
<1> HIDE DEF g
<1>8. Len(e) >= 1 => g[1 .. (n + 1)] = Tell(g[1 .. n], e[1])
  <2> HAVE Len(e) >= 1
  <2>1. n < n + Len(e) /\ 1 \in 1 .. Len(e) BY <1>1
  <2> QED BY <2>1, <1>1, <1>3, <1>6
<1>9. Len(e) >= 2 => g[1 .. (n + 2)] = Tell(g[1 .. (n + 1)], e[2])
  <2> HAVE Len(e) >= 2
  <2>1. n + 1 < n + Len(e) /\ 2 \in 1 .. Len(e) /\ n + 1 \in Nat /\ (n + 1) + 1 = n + 2 BY <1>1
  <2>2. g[1 .. ((n + 1) + 1)] = Tell(g[1 .. (n + 1)], u[(n + 1) + 1]) BY <2>1, <1>6
  <2> QED BY <2>1, <2>2, <1>3
<1>10. Len(e) >= 3 => g[1 .. (n + 3)] = Tell(g[1 .. (n + 2)], e[3])
  <2> HAVE Len(e) >= 3
  <2>1. n + 2 < n + Len(e) /\ 3 \in 1 .. Len(e) /\ n + 2 \in Nat /\ (n + 2) + 1 = n + 3 BY <1>1
  <2>2. g[1 .. ((n + 2) + 1)] = Tell(g[1 .. (n + 2)], u[(n + 2) + 1]) BY <2>1, <1>6
  <2> QED BY <2>1, <2>2, <1>3
<1>11. Len(e) = 1 => Told(u) = Tell(Told(s), e[1]) BY <1>5, <1>7, <1>8
<1>12. Len(e) = 2 => Told(u) = Tell(Tell(Told(s), e[1]), e[2]) BY <1>5, <1>7, <1>8, <1>9
<1>13. Len(e) = 3 => Told(u) = Tell(Tell(Tell(Told(s), e[1]), e[2]), e[3])
  BY <1>5, <1>7, <1>8, <1>9, <1>10
<1> QED BY <1>11, <1>12, <1>13 DEF u

\* A trail whose moments never go back.
InOrder(s) == \A i, j \in DOMAIN s : i < j => s[i].at <= s[j].at

\* Such a trail is listed as it was saved.
LEMMA ListedInOrder ==
  ASSUME trail \in Seq(Entry), InOrder(trail)
  PROVE  ListedIds = [i \in DOMAIN trail |-> i] /\ ListTrail = trail
<1>1. DOMAIN trail = 1 .. Len(trail) /\ Len(trail) \in Nat OBVIOUS
<1>2. \A i \in DOMAIN trail : trail[i].at \in Nat
  <2>1. \A i \in DOMAIN trail : trail[i] \in Entry BY <1>1
  <2> QED BY <2>1 DEF Entry
<1>3. ASSUME NEW i \in DOMAIN trail PROVE Place(i) = i
  <2>1. ASSUME NEW j \in DOMAIN trail PROVE ComesBefore(j, i) <=> j < i
    <3>1. trail[i].at \in Nat /\ trail[j].at \in Nat BY <1>2
    <3>2. j < i => trail[j].at <= trail[i].at BY DEF InOrder
    <3>3. i < j => trail[i].at <= trail[j].at BY DEF InOrder
    <3>4. i \in Nat /\ j \in Nat BY <1>1
    <3> QED BY <3>1, <3>2, <3>3, <3>4 DEF ComesBefore
  <2>2. {j \in DOMAIN trail : ComesBefore(j, i)} = 1 .. (i - 1)
    <3>1. {j \in DOMAIN trail : ComesBefore(j, i)} = {j \in DOMAIN trail : j < i} BY <2>1
    <3>2. {j \in DOMAIN trail : j < i} = 1 .. (i - 1) BY <1>1
    <3> QED BY <3>1, <3>2
  <2>3. Cardinality(1 .. (i - 1)) = i - 1 BY <1>1, FS_Interval
  <2>4. Place(i) = (i - 1) + 1 BY <2>2, <2>3 DEF Place
  <2> QED BY <1>1, <2>4
<1> DEFINE placed == {<<i, Place(i)>> : i \in DOMAIN trail}
<1>4. ASSUME NEW k \in DOMAIN trail PROVE (CHOOSE i \in DOMAIN trail : <<i, k>> \in placed) = k
  <2>1. ASSUME NEW i \in DOMAIN trail PROVE <<i, k>> \in placed <=> i = k
    BY <1>3
  <2> HIDE DEF placed
  <2> QED BY <2>1
<1>5. ListedIds = [i \in DOMAIN trail |-> i]
  BY <1>4 DEF ListedIds
<1>6. ListTrail = trail
  <2>1. ListTrail = [k \in DOMAIN trail |-> trail[k]] BY <1>5 DEF ListTrail
  <2>2. trail = [k \in DOMAIN trail |-> trail[k]] OBVIOUS
  <2> QED BY <2>1, <2>2
<1> QED BY <1>5, <1>6

-------------------------------------------------------------------------------
(* The requests on it. *)

Flights == [at : {"idle", "loaded", "stamped"}, version : Nat,
            order : [status : Statuses, rounds : Nat], now : Nat]

\* What a request in flight knows, if nothing was saved since it loaded: the work
\* order as it is, and, once stamped, a moment that none of the trail is after.
Follows(q, od, vs, tr) ==
  q.at # "idle" /\ q.version = vs =>
    /\ q.order = od
    /\ q.at = "stamped" => \A i \in DOMAIN tr : tr[i].at <= q.now

TrailInv ==
  /\ TrailTypeOK
  /\ order \in [status : Statuses, rounds : Nat]
  /\ trail \in Seq(Entry) /\ request \in [Writers -> Flights]
  /\ InOrder(trail)
  /\ \A c \in Writers : Follows(request[c], order, version, trail)
  /\ Told(trail) = order.status

\* The trail begins with the entry of the opening.
LEMMA TrailBegins ==
  ASSUME TrailAssumption, TrailInit
  PROVE  TrailInv
<1> DEFINE e == [type |-> "WORK_ORDER_CREATED", from |-> Null, to |-> "RECEIVED", at |-> 0]
<1>1. trail = <<e>>
  <2>1. DOMAIN <<Move("WORK_ORDER_CREATED", Null, "RECEIVED")>> = 1 .. 1 OBVIOUS
  <2>2. trail = [i \in 1 .. 1 |-> e] BY <2>1 DEF TrailInit, Stamped, Move
  <2> QED BY <2>2
<1>2. e \in Entry BY DEF Entry, EventTypes, Statuses
<1>3. trail \in Seq(Entry) /\ DOMAIN trail = 1 .. 1 /\ trail[1] = e BY <1>1, <1>2
<1>4. Told(trail) = "RECEIVED"
  <2>1. /\ Telling(trail)[1 .. 0] = Null
        /\ Telling(trail)[1 .. 1] = Tell(Telling(trail)[1 .. 0], trail[1])
    <3>1. 0 \in Nat /\ 1 \in Nat /\ 0 < 1 /\ 0 + 1 = 1 OBVIOUS
    <3> QED BY <1>3, <3>1, TellingGoesOn
  <2>2. Told(trail) = Tell(Null, e) BY <1>3, <2>1, ToldUnfolds
  <2> QED BY <2>2 DEF Tell, Null
<1>5. order = Opened /\ Opened \in [status : Statuses, rounds : Nat] /\ order.status = "RECEIVED"
  BY DEF TrailInit, Opened, Statuses
<1>6. request \in [Writers -> Flights] BY <1>5 DEF TrailInit, AtRest, Flights
<1>7. TrailTypeOK
  BY <1>2, <1>3, <1>5 DEF TrailInit, TrailTypeOK, TrailAssumption, AtRest, Opened, Statuses
<1>8. \A c \in Writers : Follows(request[c], order, version, trail)
  BY DEF TrailInit, Follows, AtRest
<1>9. InOrder(trail) BY <1>3 DEF InOrder
<1> QED BY <1>3, <1>4, <1>5, <1>6, <1>7, <1>8, <1>9 DEF TrailInv

\* The clock only goes on.
LEMMA TickKeeps ==
  ASSUME TrailAssumption, TrailInv, Tick
  PROVE  TrailInv'
<1>1. TrailTypeOK' BY DEF TrailInv, TrailTypeOK, Tick, TrailAssumption
<1>2. UNCHANGED <<order, version, trail, request>> BY DEF Tick
<1> QED BY <1>1, <1>2 DEF TrailInv, InOrder, Follows, Told

\* A load copies the work order as it is.
LEMMA LoadKeeps ==
  ASSUME TrailInv, NEW c \in Writers, Load(c)
  PROVE  TrailInv'
<1> DEFINE q == [at |-> "loaded", version |-> version, order |-> order, now |-> 0]
<1>1. /\ request' = [request EXCEPT ![c] = q] /\ UNCHANGED <<order, version, trail, clock>>
  BY DEF Load
<1>2. q \in Flights BY DEF Flights, TrailInv, TrailTypeOK
<1>3. Follows(q, order, version, trail) BY DEF Follows
<1>4. q.at = "loaded" /\ q.version = version /\ q.now = 0 OBVIOUS
<1>5. version \in Nat /\ clock \in Nat BY DEF TrailInv, TrailTypeOK
<1> HIDE DEF q
<1>6. request' \in [Writers -> Flights]
    /\ \A d \in Writers : request'[d] = IF d = c THEN q ELSE request[d]
  BY <1>1, <1>2 DEF TrailInv
<1>7. TrailTypeOK' BY <1>1, <1>4, <1>5, <1>6 DEF TrailInv, TrailTypeOK
<1>8. \A d \in Writers : Follows(request'[d], order, version, trail) BY <1>3, <1>6 DEF TrailInv
<1> QED BY <1>1, <1>6, <1>7, <1>8 DEF TrailInv, InOrder, Told

\* A stamp is no earlier than any entry of the trail.
LEMMA ReadClockKeeps ==
  ASSUME TrailInv, NEW c \in Writers, ReadClock(c)
  PROVE  TrailInv'
<1> DEFINE q == [request[c] EXCEPT !.at = "stamped", !.now = clock]
<1>1. /\ request[c].at = "loaded" /\ request' = [request EXCEPT ![c] = q]
      /\ UNCHANGED <<order, version, trail, clock>>
  BY DEF ReadClock, TrailInv, Flights
<1>2. request[c] \in Flights /\ clock \in Nat BY DEF TrailInv, TrailTypeOK
<1>3. /\ q \in Flights /\ q.at = "stamped" /\ q.now = clock /\ q.version = request[c].version
      /\ q.order = request[c].order
  BY <1>2 DEF Flights
<1>4. \A i \in DOMAIN trail : trail[i].at <= clock BY <1>2 DEF TrailInv, TrailTypeOK
<1> HIDE DEF q
<1>5. Follows(q, order, version, trail) BY <1>1, <1>3, <1>4 DEF TrailInv, Follows
<1>6. request' \in [Writers -> Flights]
    /\ \A d \in Writers : request'[d] = IF d = c THEN q ELSE request[d]
  BY <1>1, <1>3 DEF TrailInv
<1>7. TrailTypeOK' BY <1>1, <1>2, <1>3, <1>6 DEF TrailInv, TrailTypeOK
<1>8. \A d \in Writers : Follows(request'[d], order, version, trail) BY <1>5, <1>6 DEF TrailInv
<1> QED BY <1>1, <1>6, <1>7, <1>8 DEF TrailInv, InOrder, Told

\* A request that gives up leaves nothing.
LEMMA GiveUpKeeps ==
  ASSUME TrailInv, NEW c \in Writers, GiveUp(c)
  PROVE  TrailInv'
<1>1. request' = [request EXCEPT ![c] = AtRest] /\ UNCHANGED <<order, version, trail, clock>>
  BY DEF GiveUp
<1>2. AtRest \in Flights /\ AtRest.at = "idle" /\ AtRest.version = 0 /\ AtRest.now = 0
  BY DEF AtRest, Flights, Opened, Statuses
<1>3. version \in Nat /\ clock \in Nat BY DEF TrailInv, TrailTypeOK
<1>6. request' \in [Writers -> Flights]
    /\ \A d \in Writers : request'[d] = IF d = c THEN AtRest ELSE request[d]
  BY <1>1, <1>2 DEF TrailInv
<1>7. TrailTypeOK' BY <1>1, <1>2, <1>3, <1>6 DEF TrailInv, TrailTypeOK
<1>8. \A d \in Writers : Follows(request'[d], order, version, trail)
  BY <1>2, <1>6 DEF TrailInv, Follows
<1> QED BY <1>1, <1>6, <1>7, <1>8 DEF TrailInv, InOrder, Told

\* A save on a current copy: its entries, in the order the command recorded them,
\* tell the way from the status saved over to the new one.
LEMMA TrailSaveKeeps ==
  ASSUME TrailAssumption, TrailInv, NEW c \in Writers, NEW from, NEW next, NEW events,
         Save(c, from, next, events),
         next \in [status : Statuses, rounds : Nat], next.rounds <= request[c].order.rounds + 1,
         Stamped(events, request[c].now) \in Seq(Entry),
         \A i \in DOMAIN Stamped(events, request[c].now) :
           Stamped(events, request[c].now)[i].at = request[c].now,
         Told(trail \o Stamped(events, request[c].now)) = next.status
  PROVE  TrailInv'
<1> DEFINE e == Stamped(events, request[c].now)
           q == request[c]
<1>1. /\ q.at = "stamped" /\ q.version = version /\ version < MaxVersion
      /\ order' = next /\ version' = version + 1 /\ trail' = trail \o e
      /\ request' = [request EXCEPT ![c] = AtRest] /\ clock' = clock
  BY DEF Save
<1>2. /\ e \in Seq(Entry) /\ \A i \in DOMAIN e : e[i].at = q.now
      /\ Told(trail \o e) = next.status
  OBVIOUS
<1>3. q \in Flights /\ q.order = order /\ \A i \in DOMAIN trail : trail[i].at <= q.now
  BY <1>1 DEF TrailInv, Follows
<1>4. /\ version \in Nat /\ clock \in Nat /\ MaxVersion \in Nat /\ q.now \in Nat /\ q.now <= clock
      /\ order.rounds \in Nat /\ order.rounds <= version /\ clock <= MaxClock
  BY <1>3 DEF TrailInv, TrailTypeOK, TrailAssumption, Flights
<1> HIDE DEF e, q
<1>5. trail' \in Seq(Entry) BY <1>1, <1>2 DEF TrailInv
<1>6. ASSUME NEW i \in DOMAIN trail'
      PROVE  \/ i \in DOMAIN trail /\ trail'[i] = trail[i]
             \/ trail'[i].at = q.now /\ i \notin DOMAIN trail
  <2>1. trail \in Seq(Entry) /\ e \in Seq(Entry) BY <1>2 DEF TrailInv
  <2>2. i \in 1 .. (Len(trail) + Len(e)) BY <1>1, <2>1
  <2>3. CASE i <= Len(trail) BY <1>1, <2>1, <2>2, <2>3
  <2>4. CASE i > Len(trail)
    <3>1. i - Len(trail) \in DOMAIN e /\ trail'[i] = e[i - Len(trail)] BY <1>1, <2>1, <2>2, <2>4
    <3> QED BY <1>2, <2>1, <2>4, <3>1
  <2> QED BY <2>1, <2>2, <2>3, <2>4
<1>7. InOrder(trail')
  <2> SUFFICES ASSUME NEW i \in DOMAIN trail', NEW j \in DOMAIN trail', i < j
               PROVE  trail'[i].at <= trail'[j].at
    BY DEF InOrder
  <2>1. DOMAIN trail = 1 .. Len(trail) /\ Len(trail) \in Nat BY DEF TrailInv
  <2>2. j \in DOMAIN trail => i \in DOMAIN trail
    <3>1. DOMAIN trail' = 1 .. Len(trail') /\ Len(trail') \in Nat BY <1>5
    <3> QED BY <2>1, <3>1
  <2>3. CASE j \in DOMAIN trail BY <1>6, <2>2, <2>3 DEF TrailInv, InOrder
  <2>4. CASE j \notin DOMAIN trail
    <3>1. trail'[j].at = q.now BY <1>6, <2>4
    <3>2. trail'[i].at <= q.now BY <1>3, <1>4, <1>6
    <3> QED BY <3>1, <3>2
  <2> QED BY <2>3, <2>4
<1>8. AtRest \in Flights /\ AtRest.at = "idle" /\ AtRest.version = 0 /\ AtRest.now = 0
  BY DEF AtRest, Flights, Opened, Statuses
<1>9. request' \in [Writers -> Flights]
    /\ \A d \in Writers : request'[d] = IF d = c THEN AtRest ELSE request[d]
  BY <1>1, <1>8 DEF TrailInv
<1>10. \A d \in Writers : Follows(request'[d], order', version', trail')
  <2> SUFFICES ASSUME NEW d \in Writers
    PROVE Follows(request'[d], order', version', trail') OBVIOUS
  <2>1. CASE d = c BY <1>8, <1>9, <2>1 DEF Follows
  <2>2. CASE d # c
    <3>1. request'[d] = request[d] /\ request[d].version \in 0 .. version
      BY <1>9, <2>2 DEF TrailInv, TrailTypeOK
    <3>2. request'[d].version # version' BY <1>1, <1>4, <3>1
    <3> QED BY <3>2 DEF Follows
  <2> QED BY <2>1, <2>2
<1>11. TrailTypeOK'
  <2>1. order'.status \in Statuses /\ order'.rounds \in 0 .. version' BY <1>1, <1>3, <1>4 DEF q
  <2>2. version' \in 0 .. MaxVersion /\ clock' \in 0 .. MaxClock BY <1>1, <1>4 DEF TrailAssumption
  <2>3. \A i \in DOMAIN trail' : /\ {trail'[i].from, trail'[i].to} \subseteq Statuses \cup {Null}
                                 /\ trail'[i].at \in 0 .. clock'
    <3> SUFFICES ASSUME NEW i \in DOMAIN trail'
                 PROVE  /\ {trail'[i].from, trail'[i].to} \subseteq Statuses \cup {Null}
                        /\ trail'[i].at \in 0 .. clock'
      OBVIOUS
    <3>1. trail'[i] \in Entry BY <1>5
    <3>2. trail'[i].at <= q.now BY <1>3, <1>4, <1>6
    <3>3. {trail'[i].from, trail'[i].to} \subseteq Statuses \cup {Null} BY <3>1 DEF Entry
    <3>4. trail'[i].at \in Nat BY <3>1 DEF Entry
    <3>5. q.now <= clock' /\ q.now \in Nat /\ clock' \in Nat BY <1>1, <1>4
    <3>6. trail'[i].at \in 0 .. clock' BY <3>2, <3>4, <3>5
    <3> QED BY <3>3, <3>6
  <2>4. \A d \in Writers : /\ request'[d].at \in {"idle", "loaded", "stamped"}
                           /\ request'[d].version \in 0 .. version'
                           /\ request'[d].now \in 0 .. clock'
    <3> SUFFICES ASSUME NEW d \in Writers
                 PROVE  /\ request'[d].at \in {"idle", "loaded", "stamped"}
                        /\ request'[d].version \in 0 .. version'
                        /\ request'[d].now \in 0 .. clock'
      OBVIOUS
    <3>1. CASE d = c
      <4>1. version' \in Nat /\ clock' \in Nat BY <1>1, <1>4
      <4> QED BY <1>8, <1>9, <3>1, <4>1
    <3>2. CASE d # c
      <4>1. request'[d] = request[d] BY <1>9, <3>2
      <4>2. /\ request[d].at \in {"idle", "loaded", "stamped"}
            /\ request[d].version \in 0 .. version /\ request[d].now \in 0 .. clock
        BY DEF TrailInv, TrailTypeOK
      <4>3. 0 .. version \subseteq 0 .. version' /\ 0 .. clock \subseteq 0 .. clock'
        BY <1>1, <1>4
      <4> QED BY <4>1, <4>2, <4>3
    <3> QED BY <3>1, <3>2
  <2> QED BY <2>1, <2>2, <2>3, <2>4 DEF TrailTypeOK
<1>12. order' \in [status : Statuses, rounds : Nat] /\ Told(trail)' = order'.status
  BY <1>1, <1>2 DEF Told
<1> QED BY <1>5, <1>7, <1>9, <1>10, <1>11, <1>12 DEF TrailInv, InOrder

\* An entry is the event with the moment it was stamped with, and tells what it tells.
At(m, now) == [type |-> m.type, from |-> m.from, to |-> m.to, at |-> now]

\* The moment does not change what is told.
LEMMA EntryTells ==
  ASSUME NEW m \in Event, NEW now \in Nat
  PROVE  /\ At(m, now) \in Entry /\ At(m, now).at = now
         /\ \A t : Tell(t, At(m, now)) = Tell(t, m)
BY DEF Event, Entry, At, Tell

\* The entries of a save are its events, each with the moment of the request.
LEMMA StampedTells ==
  ASSUME NEW v \in Seq(Event), NEW now \in Nat, NEW s \in Seq(Entry)
  PROVE  /\ Stamped(v, now) \in Seq(Entry)
         /\ \A i \in DOMAIN Stamped(v, now) : Stamped(v, now)[i].at = now
         /\ Len(v) = 1 => Told(s \o Stamped(v, now)) = Tell(Told(s), v[1])
         /\ Len(v) = 2 => Told(s \o Stamped(v, now)) = Tell(Tell(Told(s), v[1]), v[2])
         /\ Len(v) = 3 =>
              Told(s \o Stamped(v, now)) = Tell(Tell(Tell(Told(s), v[1]), v[2]), v[3])
<1> DEFINE e == Stamped(v, now)
<1>1. DOMAIN v = 1 .. Len(v) /\ Len(v) \in Nat /\ \A i \in DOMAIN v : v[i] \in Event OBVIOUS
<1>2. e = [i \in 1 .. Len(v) |-> At(v[i], now)] BY <1>1 DEF Stamped, At
<1>3. \A i \in 1 .. Len(v) : /\ e[i] \in Entry /\ e[i].at = now
                              /\ \A t : Tell(t, e[i]) = Tell(t, v[i])
  BY <1>1, <1>2, EntryTells
<1>4. e \in Seq(Entry) /\ Len(e) = Len(v) /\ DOMAIN e = 1 .. Len(v)
  <2>1. e \in [1 .. Len(v) -> Entry] BY <1>2, <1>3
  <2> QED BY <1>1, <2>1
<1> HIDE DEF e
<1>5. /\ Len(e) = 1 => Told(s \o e) = Tell(Told(s), e[1])
      /\ Len(e) = 2 => Told(s \o e) = Tell(Tell(Told(s), e[1]), e[2])
      /\ Len(e) = 3 => Told(s \o e) = Tell(Tell(Tell(Told(s), e[1]), e[2]), e[3])
  BY <1>4, ToldAppended
<1>6. Len(v) = 1 => Told(s \o e) = Tell(Told(s), v[1]) BY <1>3, <1>4, <1>5
<1>7. Len(v) = 2 => Told(s \o e) = Tell(Tell(Told(s), v[1]), v[2]) BY <1>3, <1>4, <1>5
<1>8. Len(v) = 3 => Told(s \o e) = Tell(Tell(Tell(Told(s), v[1]), v[2]), v[3]) BY <1>3, <1>4, <1>5
<1> QED BY <1>3, <1>4, <1>6, <1>7, <1>8 DEF e

\* Every command: its events tell the move it makes.
LEMMA CommandKeeps ==
  ASSUME TrailAssumption, TrailInv, NEW c \in Writers, Command(c)
  PROVE  TrailInv'
<1> DEFINE q == request[c]
           s == q.order.status
           Makes(next, events) ==
             /\ \E from : Save(c, from, next, events)
             /\ next \in [status : Statuses, rounds : Nat] /\ next.rounds <= q.order.rounds + 1
<1>0. request \in [Writers -> Flights] /\ trail \in Seq(Entry)
  BY DEF TrailInv
<1>1. /\ q \in Flights /\ q.now \in Nat /\ trail \in Seq(Entry)
      /\ q.order \in [status : Statuses, rounds : Nat] /\ s \in Statuses
  BY <1>0 DEF Flights
<1>2. q.at = "stamped" /\ q.version = version
  BY Zenon
  DEF Command, RecordFact, StartDiagnosis, CompleteDiagnosis, ApproveBudget, RejectBudget,
      SubmitSupplementaryBudget, Complete, Deliver, Cancel, Save
<1>3. Told(trail) = s BY <1>2 DEF TrailInv, Follows
<1>4. ASSUME NEW next, NEW a \in Event, Makes(next, <<a>>),
             Tell(s, a) = next.status
      PROVE  TrailInv'
  <2> DEFINE v == <<a>>
             e == Stamped(v, q.now)
  <2>1. PICK from : Save(c, from, next, v) BY <1>4
  <2>2. next \in [status : Statuses, rounds : Nat] /\ next.rounds <= q.order.rounds + 1
    BY <1>4
  <2>3. v \in Seq(Event) /\ Len(v) = 1 /\ v[1] = a
    OBVIOUS
  <2> HIDE DEF v
  <2>4. /\ e \in Seq(Entry) /\ \A i \in DOMAIN e : e[i].at = q.now
        /\ Told(trail \o e) = Tell(Told(trail), v[1])
    BY <1>1, <2>3, StampedTells
  <2>5. Told(trail \o e) = next.status BY <1>3, <1>4, <2>3, <2>4
  <2> QED BY <2>1, <2>2, <2>4, <2>5, TrailSaveKeeps
<1>5. ASSUME NEW next, NEW a \in Event, NEW b \in Event, Makes(next, <<a, b>>),
             Tell(Tell(s, a), b) = next.status
      PROVE  TrailInv'
  <2> DEFINE v == <<a, b>>
             e == Stamped(v, q.now)
  <2>1. PICK from : Save(c, from, next, v) BY <1>5
  <2>2. next \in [status : Statuses, rounds : Nat] /\ next.rounds <= q.order.rounds + 1
    BY <1>5
  <2>3. v \in Seq(Event) /\ Len(v) = 2 /\ v[1] = a /\ v[2] = b
    OBVIOUS
  <2> HIDE DEF v
  <2>4. /\ e \in Seq(Entry) /\ \A i \in DOMAIN e : e[i].at = q.now
        /\ Told(trail \o e) = Tell(Tell(Told(trail), v[1]), v[2])
    BY <1>1, <2>3, StampedTells
  <2>5. Told(trail \o e) = next.status BY <1>3, <1>5, <2>3, <2>4
  <2> QED BY <2>1, <2>2, <2>4, <2>5, TrailSaveKeeps
<1>6. ASSUME NEW next, NEW a \in Event, NEW b \in Event, NEW d \in Event, Makes(next, <<a, b,
    d>>),
             Tell(Tell(Tell(s, a), b), d) = next.status
      PROVE  TrailInv'
  <2> DEFINE v == <<a, b, d>>
             e == Stamped(v, q.now)
  <2>1. PICK from : Save(c, from, next, v) BY <1>6
  <2>2. next \in [status : Statuses, rounds : Nat] /\ next.rounds <= q.order.rounds + 1
    BY <1>6
  <2>3. v \in Seq(Event) /\ Len(v) = 3 /\ v[1] = a /\ v[2] = b /\ v[3] = d
    OBVIOUS
  <2> HIDE DEF v
  <2>4. /\ e \in Seq(Entry) /\ \A i \in DOMAIN e : e[i].at = q.now
        /\ Told(trail \o e) = Tell(Tell(Tell(Told(trail), v[1]), v[2]), v[3])
    BY <1>1, <2>3, StampedTells
  <2>5. Told(trail \o e) = next.status BY <1>3, <1>6, <2>3, <2>4
  <2> QED BY <2>1, <2>2, <2>4, <2>5, TrailSaveKeeps
<1> HIDE DEF Makes
<1>7. CASE RecordFact(c)
  <2>1. Makes(q.order, <<Fact("ANOTHER_FACT")>>) BY <1>1, <1>7 DEF Makes, RecordFact
  <2>2. Fact("ANOTHER_FACT") \in Event BY DEF Fact, Move, Event, EventTypes
  <2>3. Tell(s, Fact("ANOTHER_FACT")) = s BY DEF Tell, Fact, Move
  <2> QED BY <1>4, <2>1, <2>2, <2>3
<1>8. CASE StartDiagnosis(c)
  <2> DEFINE a == Move("DIAGNOSIS_STARTED", "RECEIVED", "IN_DIAGNOSIS")
  <2>1. Makes(Moved(c, "IN_DIAGNOSIS"), <<a>>)
    BY <1>1, <1>8 DEF Makes, StartDiagnosis, Moved, Statuses
  <2>6. s = "RECEIVED" BY <1>8 DEF StartDiagnosis, Save
  <2>2. a \in Event BY DEF Move, Event, EventTypes, Statuses
  <2>3. Tell(s, a) = "IN_DIAGNOSIS" BY <2>6 DEF Tell, Move, Null
  <2>4. Moved(c, "IN_DIAGNOSIS").status = "IN_DIAGNOSIS" BY <1>1 DEF Moved
  <2> QED BY <1>4, <2>1, <2>2, <2>3, <2>4
<1>9. CASE CompleteDiagnosis(c)
  <2> DEFINE a == Move("DIAGNOSIS_COMPLETED", "IN_DIAGNOSIS", "AWAITING_APPROVAL")
             b == Fact("BUDGET_GENERATED")
             d == Fact("BUDGET_SENT")
             next == [status |-> "AWAITING_APPROVAL", rounds |-> 1]
  <2>1. Makes(next, <<a, b, d>>)
    BY <1>1, <1>9 DEF Makes, CompleteDiagnosis, Statuses
  <2>6. s = "IN_DIAGNOSIS" BY <1>9 DEF CompleteDiagnosis, Save
  <2>2. a \in Event /\ b \in Event /\ d \in Event BY DEF Fact, Move, Event, EventTypes, Statuses
  <2>3. Tell(s, a) = "AWAITING_APPROVAL" BY <2>6 DEF Tell, Move, Null
  <2>4. \A t : Tell(t, b) = t /\ Tell(t, d) = t BY DEF Tell, Fact, Move
  <2>5. next.status = "AWAITING_APPROVAL" OBVIOUS
  <2> HIDE DEF a, b, d, next
  <2> QED BY <1>6, <2>1, <2>2, <2>3, <2>4, <2>5
<1>10. CASE ApproveBudget(c)
  <2> DEFINE a == Move("BUDGET_APPROVED", "AWAITING_APPROVAL", "IN_EXECUTION")
  <2>1. Makes(Moved(c, "IN_EXECUTION"), <<a, ExecutionStarted>>)
    BY <1>1, <1>10 DEF Makes, ApproveBudget, Moved, Statuses
  <2>6. s = "AWAITING_APPROVAL" BY <1>10 DEF ApproveBudget, Save
  <2>2. a \in Event /\ ExecutionStarted \in Event
    BY DEF ExecutionStarted, Move, Event, EventTypes, Statuses
  <2>3. Tell(s, a) = "IN_EXECUTION" BY <2>6 DEF Tell, Move, Null
  <2>4. Tell("IN_EXECUTION", ExecutionStarted) = "IN_EXECUTION"
    BY DEF Tell, ExecutionStarted, Move, Null
  <2>5. Moved(c, "IN_EXECUTION").status = "IN_EXECUTION" BY <1>1 DEF Moved
  <2> HIDE DEF a
  <2> QED BY <1>5, <2>1, <2>2, <2>3, <2>4, <2>5
<1>11. CASE RejectBudget(c)
  <2> DEFINE a(to) == Move("BUDGET_REJECTED", "AWAITING_APPROVAL", to)
  <2>1. s = "AWAITING_APPROVAL" BY <1>11 DEF RejectBudget, Save
  <2>2. CASE q.order.rounds = 1
    <3>1. Makes(Moved(c, "IN_DIAGNOSIS"), <<a("IN_DIAGNOSIS")>>)
      BY <1>1, <1>11, <2>2 DEF Makes, RejectBudget, Moved, Statuses
    <3>2. a("IN_DIAGNOSIS") \in Event BY DEF Move, Event, EventTypes, Statuses
    <3>3. Tell(s, a("IN_DIAGNOSIS")) = "IN_DIAGNOSIS" BY <2>1 DEF Tell, Move, Null
    <3>4. Moved(c, "IN_DIAGNOSIS").status = "IN_DIAGNOSIS" BY <1>1 DEF Moved
    <3> QED BY <1>4, <3>1, <3>2, <3>3, <3>4
  <2>3. CASE q.order.rounds # 1
    <3>1. Makes(Moved(c, "IN_EXECUTION"), <<a("IN_EXECUTION"), ExecutionStarted>>)
      BY <1>1, <1>11, <2>3 DEF Makes, RejectBudget, Moved, Statuses
    <3>2. a("IN_EXECUTION") \in Event /\ ExecutionStarted \in Event
      BY DEF ExecutionStarted, Move, Event, EventTypes, Statuses
    <3>3. Tell(s, a("IN_EXECUTION")) = "IN_EXECUTION" BY <2>1 DEF Tell, Move, Null
    <3>4. Tell("IN_EXECUTION", ExecutionStarted) = "IN_EXECUTION"
      BY DEF Tell, ExecutionStarted, Move, Null
    <3>5. Moved(c, "IN_EXECUTION").status = "IN_EXECUTION" BY <1>1 DEF Moved
    <3> HIDE DEF a
    <3> QED BY <1>5, <3>1, <3>2, <3>3, <3>4, <3>5
  <2> QED BY <2>2, <2>3
<1>12. CASE SubmitSupplementaryBudget(c)
  <2> DEFINE a == Fact("SUPPLEMENTARY_BUDGET_GENERATED")
             b == Fact("BUDGET_SENT")
             next == [status |-> "AWAITING_APPROVAL", rounds |-> q.order.rounds + 1]
  <2>1. Makes(next, <<a, b>>)
    BY <1>1, <1>12 DEF Makes, SubmitSupplementaryBudget, Statuses
  <2>6. s = "IN_EXECUTION" BY <1>12 DEF SubmitSupplementaryBudget, Save
  <2>2. a \in Event /\ b \in Event BY DEF Fact, Move, Event, EventTypes
  <2>3. Tell(s, a) = "AWAITING_APPROVAL" BY <2>6 DEF Tell, Fact, Move
  <2>4. \A t : Tell(t, b) = t BY DEF Tell, Fact, Move
  <2>5. next.status = "AWAITING_APPROVAL" OBVIOUS
  <2> HIDE DEF a, b, next
  <2> QED BY <1>5, <2>1, <2>2, <2>3, <2>4, <2>5
<1>13. CASE Complete(c)
  <2> DEFINE a == Move("WORK_ORDER_COMPLETED", "IN_EXECUTION", "COMPLETED")
  <2>1. Makes(Moved(c, "COMPLETED"), <<a>>)
    BY <1>1, <1>13 DEF Makes, Complete, Moved, Statuses
  <2>6. s = "IN_EXECUTION" BY <1>13 DEF Complete, Save
  <2>2. a \in Event BY DEF Move, Event, EventTypes, Statuses
  <2>3. Tell(s, a) = "COMPLETED" BY <2>6 DEF Tell, Move, Null
  <2>4. Moved(c, "COMPLETED").status = "COMPLETED" BY <1>1 DEF Moved
  <2> QED BY <1>4, <2>1, <2>2, <2>3, <2>4
<1>14. CASE Deliver(c)
  <2> DEFINE a == Move("VEHICLE_DELIVERED", "COMPLETED", "DELIVERED")
  <2>1. Makes(Moved(c, "DELIVERED"), <<a>>)
    BY <1>1, <1>14 DEF Makes, Deliver, Moved, Statuses
  <2>6. s = "COMPLETED" BY <1>14 DEF Deliver, Save
  <2>2. a \in Event BY DEF Move, Event, EventTypes, Statuses
  <2>3. Tell(s, a) = "DELIVERED" BY <2>6 DEF Tell, Move, Null
  <2>4. Moved(c, "DELIVERED").status = "DELIVERED" BY <1>1 DEF Moved
  <2> QED BY <1>4, <2>1, <2>2, <2>3, <2>4
<1>15. CASE Cancel(c)
  <2> DEFINE a == Move("WORK_ORDER_CANCELED", s, "CANCELED")
  <2>1. Makes(Moved(c, "CANCELED"), <<a>>)
    BY <1>1, <1>15 DEF Makes, Cancel, Moved, Statuses
  <2>2. a \in Event BY <1>1 DEF Move, Event, EventTypes, Statuses
  <2>3. Tell(s, a) = "CANCELED" BY DEF Tell, Move, Null
  <2>4. Moved(c, "CANCELED").status = "CANCELED" BY <1>1 DEF Moved
  <2> QED BY <1>4, <2>1, <2>2, <2>3, <2>4
<1> QED BY <1>7, <1>8, <1>9, <1>10, <1>11, <1>12, <1>13, <1>14, <1>15 DEF Command

\* In every reachable state of any number of requests on one work order, the listing by moment
\* gives the entries back in the order their saves committed, although a request reads the clock
\* before it saves, and read from first to last it tells every move up to the stored status.
THEOREM TrailsStayWhole ==
  ASSUME TrailAssumption
  PROVE  TrailSpec => []TrailIsWhole
<1>1. TrailInv => TrailIsWhole
  BY ListedInOrder DEF TrailInv, TrailIsWhole, TrailIsInOrderOfSaves, TrailTellsEveryMove, Told
<1>2. TrailInit => TrailInv BY TrailBegins
<1>3. TrailInv /\ [TrailNext]_trailVars => TrailInv'
  <2> SUFFICES ASSUME TrailInv, [TrailNext]_trailVars PROVE TrailInv' OBVIOUS
  <2>1. CASE UNCHANGED trailVars
    BY <2>1 DEF TrailInv, TrailTypeOK, InOrder, Follows, Told, trailVars
  <2>2. CASE Tick BY <2>2, TickKeeps
  <2>3. ASSUME NEW c \in Writers, Load(c) \/ ReadClock(c) \/ Command(c) \/ GiveUp(c)
    PROVE TrailInv'
    BY <2>3, LoadKeeps, ReadClockKeeps, CommandKeeps, GiveUpKeeps
  <2> QED BY <2>1, <2>2, <2>3 DEF TrailNext
<1> QED BY <1>1, <1>2, <1>3, PTL DEF TrailSpec

-------------------------------------------------------------------------------
(* The seed, beside other seeds, seed:admin and people who deactivate rows. *)

\* What the columns hold, the strings that the statements spell out among them, and what a run
\* carries from one query to the next.
SeedTables == {"users", "services", "inventory_items", "customers", "vehicles"}
SeedPlaces == {"idle", "look", "document", "insert", "grant", "read", "create", "stock"}
SeedTexts == STRING \cup {"", "SUPER_ADMIN"}
SeedRows == [table : SeedTables, key : SeedTexts, document : SeedTexts, roles : SUBSET SeedTexts,
             user : Nat, owner : Nat, stock : Nat, live : BOOLEAN]
SeedRuns == [task : Nat, at : SeedPlaces, found : Nat, user : Nat, customer : Nat]

\* The task at which the customer is registered: behind it are the vehicles.
CustomerTask == Len(Actors) + Len(SERVICES) + Len(INVENTORY) + 1

\* An account is one of those the seed or seed:admin knows, an item one of the seed's, a vehicle
\* has an owner, and rows refer to rows before them.
IsKnown(rec, n) ==
  /\ rec.table = "users" =>
       \/ \E i \in DOMAIN Actors : rec.key = Actors[i].email /\ rec.document = Actors[i].document
       \/ rec.key = Admin.email /\ rec.document = Admin.document
  /\ rec.table = "vehicles" => rec.owner # 0
  /\ rec.table = "inventory_items" =>
       /\ \E i \in DOMAIN INVENTORY : rec.key = INVENTORY[i]
       /\ rec.stock \in {0, OpeningStock[rec.key]}
  /\ rec.user < n /\ rec.owner < n

RowsAreKnown ==
  \A n \in DOMAIN written : IsKnown(written[n], n) /\ (edits = 0 => written[n].live)

\* Rows go by keys: no two live ones share one.
OneOfEach ==
  \A m, n \in DOMAIN written :
    /\ written[m].live /\ written[n].live /\ written[m].table # "customers"
    /\ written[m].table = written[n].table /\ written[m].key = written[n].key
    => m = n

\* An item without its opening stock is in the hands of the run that created it.
Pending(p, n) == run[p].at = "stock" /\ run[p].found = n
StockIsComing ==
  stops = 0 => \A n \in DOMAIN written :
    written[n].table = "inventory_items" /\ written[n].stock # OpeningStock[written[n].key]
      => \E p \in Runs : Pending(p, n)
OneHandEach == \A p, q \in Runs : \A n \in DOMAIN written : Pending(p, n) /\ Pending(q, n) => p = q

\* A run is at a place its task has, and refers to rows that are there.
RunIsPlaced(p) ==
  LET r == run[p] IN
  /\ (r.at = "idle" => r = NotRunning) /\ (r.at # "idle" => r.task > 0)
  /\ r.task <= Len(Tasks) + 1 /\ (r.task = Len(Tasks) + 1 => r.at = "look")
  /\ r.at \in {"document", "insert", "grant", "read"} => Task(p).table = "users"
  /\ r.at = "create" => Task(p).table # "users"
  /\ r.at = "stock" =>
       /\ Task(p).table = "inventory_items" /\ r.found \in DOMAIN written
       /\ written[r.found].table = "inventory_items" /\ written[r.found].key = Task(p).key
       /\ written[r.found].stock = 0
  /\ r.user <= Len(written) /\ r.customer <= Len(written)
  /\ r.task > Len(Actors) =>
       /\ r.user # 0 /\ written[r.user].table = "users"
       /\ written[r.user].key = Actors[Len(Actors)].email
  /\ r.task > CustomerTask => r.customer # 0

\* What the seed left of a task it is past, if nobody undid it.
Has(i) ==
  /\ Tasks[i].table = "users" =>
       \E n \in Live("users", Tasks[i].key) : ActorOf(Tasks[i].key).role \in written[n].roles
  /\ Tasks[i].table \in {"services", "inventory_items", "vehicles"} =>
       Live(Tasks[i].table, Tasks[i].key) # {}

RunHasDone(p) ==
  LET r == run[p] IN
  /\ r.at \in {"grant", "read"} => Live("users", Task(p).key) # {}
  /\ r.at = "read" => Has(r.task)
  /\ \A i \in DOMAIN Tasks : i < r.task => Has(i)
  /\ r.task > Len(Actors) => "CUSTOMER" \in written[r.user].roles

\* A run beside which nobody wrote finds what it looked for as it was.
AsItWas(p) ==
  LET r == run[p] IN
  /\ r.at \in {"document", "insert"} => Live("users", Task(p).key) = {}
  /\ r.at = "insert" => WithDocument(ActorOf(Task(p).key).document) = {}
  /\ r.at = "create" /\ Task(p).table # "customers" => Live(Task(p).table, Task(p).key) = {}
  /\ edits = 0 /\ r.at = "create" /\ Task(p).table = "customers" => CustomersOf(r.user) = {}

RunIsAlone(p) ==
  run[p].at # "idle" /\ ~disturbed[p] =>
    /\ \A q \in Runs : q # p => run[q].at = "idle"
    /\ admin # "granting" /\ AsItWas(p)

RunEnds(p) ==
  /\ run[p].at # "idle" => last[p] = "running"
  /\ edits = 0 /\ last[p] = "failed" => disturbed[p]
  /\ edits = 0 /\ last[p] = "finished" => \A i \in DOMAIN Tasks : Has(i)

SeedTyped ==
  /\ written \in Seq(SeedRows) /\ run \in [Runs -> SeedRuns]
  /\ admin \in {"idle", "granting", "done"} /\ disturbed \in [Runs -> BOOLEAN]
  /\ last \in [Runs -> {"none", "running", "finished", "failed", "stopped"}]
  /\ edits \in Nat /\ stops \in Nat

SeedInv ==
  /\ SeedTyped /\ RowsAreKnown /\ OneOfEach /\ StockIsComing /\ OneHandEach
  /\ \A p \in Runs : /\ RunIsPlaced(p) /\ RunIsAlone(p) /\ RunEnds(p)
                     /\ edits = 0 => RunHasDone(p)

\* The tasks in their order: the accounts, the services, the items, the customer, the vehicles.
TasksLaidOut ==
  /\ Len(Actors) \in Nat \ {0} /\ CustomerTask \in Nat /\ Len(Actors) < CustomerTask
  /\ Tasks \in Seq([table : SeedTables, key : SeedTexts])
  /\ Len(Tasks) = CustomerTask + Len(VEHICLES)
  /\ \A i \in DOMAIN Tasks :
       /\ Tasks[i].table = "users" <=> i <= Len(Actors)
       /\ Tasks[i].table = "customers" <=> i = CustomerTask
       /\ Tasks[i].table = "vehicles" <=> i > CustomerTask
       /\ i <= Len(Actors) => Tasks[i].key = Actors[i].email
       /\ Tasks[i].table = "inventory_items" =>
            \E j \in DOMAIN INVENTORY : Tasks[i].key = INVENTORY[j]
  /\ \A j \in DOMAIN SERVICES :
       \E i \in DOMAIN Tasks : Tasks[i].table = "services" /\ Tasks[i].key = SERVICES[j]
  /\ \A j \in DOMAIN INVENTORY :
       \E i \in DOMAIN Tasks : Tasks[i].table = "inventory_items" /\ Tasks[i].key = INVENTORY[j]
  /\ \A j \in DOMAIN VEHICLES :
       \E i \in DOMAIN Tasks : Tasks[i].table = "vehicles" /\ Tasks[i].key = VEHICLES[j]

\* A sequence behind another keeps its elements, each that far on.
Joined(s, t, u) ==
  /\ Len(u) = Len(s) + Len(t)
  /\ \A i \in DOMAIN s : i \in DOMAIN u /\ u[i] = s[i]
  /\ \A i \in DOMAIN t : Len(s) + i \in DOMAIN u /\ u[Len(s) + i] = t[i]
  /\ \A i \in DOMAIN u :
       \/ i \in DOMAIN s
       \/ i > Len(s) /\ i - Len(s) \in DOMAIN t /\ u[i] = t[i - Len(s)]

\* Two sequences one behind the other.
LEMMA Behind ==
  ASSUME NEW S, NEW s \in Seq(S), NEW t \in Seq(S)
  PROVE  s \o t \in Seq(S) /\ Joined(s, t, s \o t)
<1>1. /\ Len(s) \in Nat /\ Len(t) \in Nat /\ DOMAIN s = 1 .. Len(s) /\ DOMAIN t = 1 .. Len(t)
      /\ s \o t \in Seq(S) /\ Len(s \o t) = Len(s) + Len(t)
      /\ DOMAIN (s \o t) = 1 .. (Len(s) + Len(t))
  OBVIOUS
<1>2. \A i \in 1 .. (Len(s) + Len(t)) :
        (s \o t)[i] = IF i <= Len(s) THEN s[i] ELSE t[i - Len(s)]
  OBVIOUS
<1> DEFINE u == s \o t
<1> HIDE DEF u
<1>3. \A i \in DOMAIN s : i \in DOMAIN u /\ u[i] = s[i] BY <1>1, <1>2 DEF u
<1>4. \A i \in DOMAIN t : Len(s) + i \in DOMAIN u /\ u[Len(s) + i] = t[i]
  BY <1>1, <1>2 DEF u
<1>5. \A i \in DOMAIN u :
        \/ i \in DOMAIN s
        \/ i > Len(s) /\ i - Len(s) \in DOMAIN t /\ u[i] = t[i - Len(s)]
  BY <1>1, <1>2 DEF u
<1> QED BY <1>1, <1>3, <1>4, <1>5 DEF Joined, u

\* The tasks of one table are as many as its keys.
OneTable(sheet, keys, t) ==
  /\ t \in Seq([table : SeedTables, key : SeedTexts]) /\ Len(t) = Len(keys)
  /\ DOMAIN t = DOMAIN keys /\ \A i \in DOMAIN keys : t[i].table = sheet /\ t[i].key = keys[i]

\* The tasks of one table go by its keys.
LEMMA TasksOfOne ==
  ASSUME NEW sheet \in SeedTables, NEW keys \in Seq(STRING)
  PROVE  OneTable(sheet, keys, TasksOf(sheet, keys))
<1>1. /\ DOMAIN keys = 1 .. Len(keys) /\ Len(keys) \in Nat
      /\ \A i \in DOMAIN keys : keys[i] \in STRING
  OBVIOUS
<1>2. TasksOf(sheet, keys) \in [1 .. Len(keys) -> [table : SeedTables, key : SeedTexts]]
  BY <1>1 DEF TasksOf, SeedTexts
<1>3. \A i \in DOMAIN keys : /\ TasksOf(sheet, keys)[i].table = sheet
                             /\ TasksOf(sheet, keys)[i].key = keys[i]
  BY <1>1 DEF TasksOf
<1>4. TasksOf(sheet, keys) \in Seq([table : SeedTables, key : SeedTexts])
      /\ Len(TasksOf(sheet, keys)) = Len(keys) /\ DOMAIN TasksOf(sheet, keys) = DOMAIN keys
  <2> DEFINE T == [table : SeedTables, key : SeedTexts]
             f == TasksOf(sheet, keys)
  <2>1. f \in [1 .. Len(keys) -> T] BY <1>2
  <2> HIDE DEF T, f
  <2>2. f \in Seq(T) /\ Len(f) = Len(keys) /\ DOMAIN f = DOMAIN keys BY <1>1, <2>1
  <2> QED BY <2>2 DEF T, f
<1> QED BY <1>3, <1>4 DEF OneTable

\* The tasks are laid out so.
LEMMA TasksAreLaidOut ==
  ASSUME SeedAssumption
  PROVE  TasksLaidOut
<1> DEFINE T == [table : SeedTables, key : SeedTexts]
           emails == [i \in DOMAIN Actors |-> Actors[i].email]
           a == TasksOf("users", emails)
           b == TasksOf("services", SERVICES)
           c == TasksOf("inventory_items", INVENTORY)
           d == <<[table |-> "customers", key |-> ""]>>
           e == TasksOf("vehicles", VEHICLES)
           A == Len(Actors)
           B == Len(SERVICES)
           D == Len(INVENTORY)
           E == Len(VEHICLES)
<1> DEFINE Person == [email : STRING, document : STRING, role : STRING]
<1>1. /\ Actors \in Seq(Person) /\ Actors # << >>
      /\ SERVICES \in Seq(STRING) /\ INVENTORY \in Seq(STRING) /\ VEHICLES \in Seq(STRING)
  BY DEF SeedAssumption
<1>2. emails \in Seq(STRING) /\ DOMAIN emails = 1 .. A /\ A \in Nat \ {0}
      /\ Len(emails) = A /\ \A i \in 1 .. A : emails[i] = Actors[i].email
  <2>1. A \in Nat \ {0} /\ DOMAIN Actors = 1 .. A
        /\ \A i \in 1 .. A : Actors[i] \in Person
    <3> HIDE DEF Person
    <3> QED BY <1>1
  <2>2. emails \in [1 .. A -> STRING] BY <2>1
  <2> QED BY <2>1, <2>2
<1> HIDE DEF emails
<1>3. B \in Nat /\ D \in Nat /\ E \in Nat /\ DOMAIN SERVICES = 1 .. B /\ DOMAIN INVENTORY = 1 .. D
      /\ DOMAIN VEHICLES = 1 .. E
  BY <1>1
<1>4. a \in Seq(T) /\ Len(a) = A /\ DOMAIN a = 1 .. A
      /\ \A i \in 1 .. A : a[i].table = "users" /\ a[i].key = Actors[i].email
  <2>1. OneTable("users", emails, a) BY <1>2, TasksOfOne DEF SeedTables
  <2> HIDE DEF a
  <2> QED BY <1>2, <2>1 DEF OneTable
<1>5. b \in Seq(T) /\ Len(b) = B /\ DOMAIN b = 1 .. B
      /\ \A i \in 1 .. B : b[i].table = "services" /\ b[i].key = SERVICES[i]
  <2>1. OneTable("services", SERVICES, b) BY <1>1, TasksOfOne DEF SeedTables
  <2> HIDE DEF b
  <2> QED BY <1>3, <2>1 DEF OneTable
<1>6. c \in Seq(T) /\ Len(c) = D /\ DOMAIN c = 1 .. D
      /\ \A i \in 1 .. D : c[i].table = "inventory_items" /\ c[i].key = INVENTORY[i]
  <2>1. OneTable("inventory_items", INVENTORY, c) BY <1>1, TasksOfOne DEF SeedTables
  <2> HIDE DEF c
  <2> QED BY <1>3, <2>1 DEF OneTable
<1>7. d \in Seq(T) /\ Len(d) = 1 /\ DOMAIN d = {1} /\ d[1].table = "customers"
  <2> DEFINE task == [table |-> "customers", key |-> ""]
  <2>1. "" \in SeedTexts /\ "customers" \in SeedTables BY DEF SeedTables, SeedTexts
  <2>2. task \in T /\ task.table = "customers" BY <2>1
  <2> HIDE DEF task, T
  <2>3. <<task>> \in Seq(T) /\ Len(<<task>>) = 1 /\ DOMAIN <<task>> = {1} /\ <<task>>[1] = task
    BY <2>2
  <2> QED BY <2>2, <2>3 DEF task
<1>8. e \in Seq(T) /\ Len(e) = E /\ DOMAIN e = 1 .. E
      /\ \A i \in 1 .. E : e[i].table = "vehicles" /\ e[i].key = VEHICLES[i]
  <2>1. OneTable("vehicles", VEHICLES, e) BY <1>1, TasksOfOne DEF SeedTables
  <2> HIDE DEF e
  <2> QED BY <1>3, <2>1 DEF OneTable
<1>9. Tasks = a \o b \o c \o d \o e BY DEF Tasks, emails
<1>10. CustomerTask = A + B + D + 1 BY DEF CustomerTask
<1>0. A \in Nat \ {0} /\ B \in Nat /\ D \in Nat /\ E \in Nat BY <1>2, <1>3
<1> HIDE DEF a, b, c, d, e, A, B, D, E, T, Person
<1> DEFINE ab == a \o b
           abc == ab \o c
           abcd == abc \o d
<1>11. /\ ab \in Seq(T) /\ Joined(a, b, ab) /\ abc \in Seq(T) /\ Joined(ab, c, abc)
       /\ abcd \in Seq(T) /\ Joined(abc, d, abcd)
       /\ abcd \o e \in Seq(T) /\ Joined(abcd, e, abcd \o e)
  <2>1. ab \in Seq(T) /\ Joined(a, b, ab) BY <1>4, <1>5, Behind
  <2> HIDE DEF ab
  <2>2. abc \in Seq(T) /\ Joined(ab, c, abc) BY <1>6, <2>1, Behind
  <2> HIDE DEF abc
  <2>3. abcd \in Seq(T) /\ Joined(abc, d, abcd) BY <1>7, <2>2, Behind
  <2> HIDE DEF abcd
  <2>4. abcd \o e \in Seq(T) /\ Joined(abcd, e, abcd \o e) BY <1>8, <2>3, Behind
  <2> QED BY <2>1, <2>2, <2>3, <2>4
<1>12. Tasks \in Seq(T) /\ Joined(abcd, e, Tasks)
  <2>1. Tasks = abcd \o e BY <1>9
  <2> QED BY <1>11, <2>1
<1> HIDE DEF ab, abc, abcd
<1>13. /\ Len(ab) = A + B /\ Len(abc) = A + B + D /\ Len(abcd) = CustomerTask
       /\ Len(Tasks) = CustomerTask + E
  BY <1>0, <1>4, <1>5, <1>6, <1>7, <1>8, <1>10, <1>11, <1>12 DEF Joined
<1>15. A \in Nat \ {0} /\ CustomerTask \in Nat /\ A < CustomerTask
  BY <1>2, <1>3, <1>10 DEF A
<1>16. ASSUME NEW i \in DOMAIN Tasks
  PROVE  \/ i <= A /\ Tasks[i] = a[i] /\ i \in 1 .. A
         \/ i > A /\ i < CustomerTask /\ \E j \in 1 .. B : Tasks[i] = b[j]
         \/ i > A /\ i < CustomerTask /\ \E j \in 1 .. D : Tasks[i] = c[j]
         \/ i = CustomerTask /\ Tasks[i] = d[1]
         \/ i > CustomerTask /\ \E j \in 1 .. E : Tasks[i] = e[j]
  <2>1. CASE i \notin DOMAIN abcd
    BY <1>8, <1>12, <1>13, <2>1 DEF Joined
  <2>2. CASE i \in DOMAIN abcd /\ i \notin DOMAIN abc
    <3>1. i > Len(abc) /\ i - Len(abc) \in {1} /\ abcd[i] = d[i - Len(abc)]
      BY <1>7, <1>11, <2>2 DEF Joined
    <3>2. Tasks[i] = abcd[i] BY <1>12, <2>2 DEF Joined
    <3>3. Len(abc) \in Nat /\ i \in Int /\ i = Len(abc) + 1 BY <1>11, <2>2, <3>1
    <3> QED BY <1>0, <1>10, <1>13, <3>1, <3>2, <3>3
  <2>3. CASE i \in DOMAIN abc /\ i \notin DOMAIN ab
    <3>1. i > Len(ab) /\ i - Len(ab) \in 1 .. D /\ abc[i] = c[i - Len(ab)]
      BY <1>6, <1>11, <2>3 DEF Joined
    <3>2. Tasks[i] = abc[i] BY <1>11, <1>12, <2>3 DEF Joined
    <3>3. i \in Int BY <1>11, <2>3
    <3>4. i > A /\ i < CustomerTask BY <1>0, <1>10, <1>13, <3>1, <3>3
    <3> QED BY <3>1, <3>2, <3>4
  <2>4. CASE i \in DOMAIN ab
    <3>1. Tasks[i] = ab[i] BY <1>11, <1>12, <2>4 DEF Joined
    <3>2. \/ i \in 1 .. A /\ ab[i] = a[i]
          \/ i > A /\ i - A \in 1 .. B /\ ab[i] = b[i - A]
      BY <1>4, <1>5, <1>11, <2>4 DEF Joined
    <3>3. i \in Int BY <1>11, <2>4
    <3>4. i > A /\ i - A \in 1 .. B => i < CustomerTask BY <1>0, <1>10, <3>3
    <3> QED BY <1>0, <3>1, <3>2, <3>3, <3>4
  <2> QED BY <2>1, <2>2, <2>3, <2>4
<1>17. \A i \in DOMAIN Tasks :
         /\ Tasks[i].table = "users" <=> i <= A
         /\ Tasks[i].table = "customers" <=> i = CustomerTask
         /\ Tasks[i].table = "vehicles" <=> i > CustomerTask
         /\ i <= A => Tasks[i].key = Actors[i].email
         /\ Tasks[i].table = "inventory_items" => \E j \in 1 .. D : Tasks[i].key = INVENTORY[j]
  <2> SUFFICES ASSUME NEW i \in DOMAIN Tasks
      PROVE /\ Tasks[i].table = "users" <=> i <= A
            /\ Tasks[i].table = "customers" <=> i = CustomerTask
            /\ Tasks[i].table = "vehicles" <=> i > CustomerTask
            /\ i <= A => Tasks[i].key = Actors[i].email
            /\ Tasks[i].table = "inventory_items" => \E j \in 1 .. D : Tasks[i].key = INVENTORY[j]
    OBVIOUS
  <2>0. i \in Nat BY <1>12
  <2>1. CASE i <= A /\ Tasks[i] = a[i] /\ i \in 1 .. A BY <1>4, <1>15, <2>0, <2>1
  <2>2. CASE i > A /\ i < CustomerTask /\ \E j \in 1 .. B : Tasks[i] = b[j]
    BY <1>5, <1>15, <2>0, <2>2
  <2>3. CASE i > A /\ i < CustomerTask /\ \E j \in 1 .. D : Tasks[i] = c[j]
    BY <1>6, <1>15, <2>0, <2>3
  <2>4. CASE i = CustomerTask /\ Tasks[i] = d[1] BY <1>7, <1>15, <2>0, <2>4
  <2>5. CASE i > CustomerTask /\ \E j \in 1 .. E : Tasks[i] = e[j] BY <1>8, <1>15, <2>0, <2>5
  <2> QED BY <1>16, <2>1, <2>2, <2>3, <2>4, <2>5
<1>18. \A j \in 1 .. B :
         \E i \in DOMAIN Tasks : Tasks[i].table = "services" /\ Tasks[i].key = SERVICES[j]
  <2> SUFFICES ASSUME NEW j \in 1 .. B
      PROVE \E i \in DOMAIN Tasks : Tasks[i].table = "services" /\ Tasks[i].key = SERVICES[j]
    OBVIOUS
  <2>1. A + j \in DOMAIN ab /\ ab[A + j] = b[j] BY <1>4, <1>5, <1>11 DEF Joined
  <2>2. A + j \in DOMAIN Tasks /\ Tasks[A + j] = b[j] BY <1>11, <1>12, <2>1 DEF Joined
  <2> QED BY <1>5, <2>2
<1>19. \A j \in 1 .. D :
         \E i \in DOMAIN Tasks : Tasks[i].table = "inventory_items" /\ Tasks[i].key = INVENTORY[j]
  <2> SUFFICES ASSUME NEW j \in 1 .. D
      PROVE \E i \in DOMAIN Tasks :
              Tasks[i].table = "inventory_items" /\ Tasks[i].key = INVENTORY[j]
    OBVIOUS
  <2>1. A + B + j \in DOMAIN abc /\ abc[A + B + j] = c[j] BY <1>6, <1>11, <1>13 DEF Joined
  <2>2. A + B + j \in DOMAIN Tasks /\ Tasks[A + B + j] = c[j] BY <1>11, <1>12, <2>1 DEF Joined
  <2> QED BY <1>6, <2>2
<1>20. \A j \in 1 .. E :
         \E i \in DOMAIN Tasks : Tasks[i].table = "vehicles" /\ Tasks[i].key = VEHICLES[j]
  <2> SUFFICES ASSUME NEW j \in 1 .. E
      PROVE \E i \in DOMAIN Tasks : Tasks[i].table = "vehicles" /\ Tasks[i].key = VEHICLES[j]
    OBVIOUS
  <2>1. CustomerTask + j \in DOMAIN Tasks /\ Tasks[CustomerTask + j] = e[j]
    BY <1>8, <1>12, <1>13 DEF Joined
  <2> QED BY <1>8, <2>1
<1>21. /\ DOMAIN SERVICES = 1 .. B /\ DOMAIN INVENTORY = 1 .. D /\ DOMAIN VEHICLES = 1 .. E
  BY <1>3 DEF B, D, E
<1>22. /\ Len(Actors) \in Nat \ {0} /\ CustomerTask \in Nat /\ Len(Actors) < CustomerTask
       /\ Tasks \in Seq([table : SeedTables, key : SeedTexts])
       /\ Len(Tasks) = CustomerTask + Len(VEHICLES)
  BY <1>12, <1>13, <1>15 DEF A, E, T
<1>23. \A i \in DOMAIN Tasks :
         /\ Tasks[i].table = "users" <=> i <= Len(Actors)
         /\ Tasks[i].table = "customers" <=> i = CustomerTask
         /\ Tasks[i].table = "vehicles" <=> i > CustomerTask
         /\ i <= Len(Actors) => Tasks[i].key = Actors[i].email
         /\ Tasks[i].table = "inventory_items" =>
              \E j \in DOMAIN INVENTORY : Tasks[i].key = INVENTORY[j]
  BY <1>17, <1>21 DEF A
<1>24. /\ \A j \in DOMAIN SERVICES :
            \E i \in DOMAIN Tasks : Tasks[i].table = "services" /\ Tasks[i].key = SERVICES[j]
       /\ \A j \in DOMAIN INVENTORY :
            \E i \in DOMAIN Tasks :
              Tasks[i].table = "inventory_items" /\ Tasks[i].key = INVENTORY[j]
       /\ \A j \in DOMAIN VEHICLES :
            \E i \in DOMAIN Tasks : Tasks[i].table = "vehicles" /\ Tasks[i].key = VEHICLES[j]
  BY <1>18, <1>19, <1>20, <1>21
<1> QED BY <1>22, <1>23, <1>24, Zenon DEF TasksLaidOut

\* The account of an e-mail is the one actor that has it.
LEMMA ActorIsKnown ==
  ASSUME SeedAssumption, NEW i \in DOMAIN Actors
  PROVE  ActorOf(Actors[i].email) = Actors[i]
BY DEF SeedAssumption, ActorOf

-------------------------------------------------------------------------------
(* What a step does to the rows, and what that leaves of a run. *)

\* Rows are never taken away, and keep their keys and what they refer to.
RowsStay ==
  /\ Len(written) <= Len(written')
  /\ \A n \in DOMAIN written :
       /\ n \in DOMAIN written' /\ written[n].roles \subseteq written'[n].roles
       /\ written'[n].table = written[n].table /\ written'[n].key = written[n].key
       /\ written'[n].document = written[n].document
       /\ written'[n].user = written[n].user /\ written'[n].owner = written[n].owner
LivesStay == \A n \in DOMAIN written : written'[n].live = written[n].live
StocksStay(p) == \A n \in DOMAIN written : written'[n].stock = written[n].stock \/ Pending(p, n)

\* A query that only reads.
LEMMA RowsUntouched ==
  ASSUME SeedTyped, UNCHANGED written
  PROVE  /\ written' \in Seq(SeedRows) /\ RowsStay /\ LivesStay
         /\ \A n \in DOMAIN written : written'[n] = written[n]
BY DEF SeedTyped, RowsStay, LivesStay

\* An INSERT puts one row behind the others.
LEMMA RowAppended ==
  ASSUME SeedTyped, NEW rec \in SeedRows, written' = Append(written, rec)
  PROVE  /\ written' \in Seq(SeedRows) /\ RowsStay /\ LivesStay
         /\ Len(written') = Len(written) + 1 /\ written'[Len(written) + 1] = rec
         /\ DOMAIN written' = DOMAIN written \cup {Len(written) + 1}
         /\ Len(written) \in Nat /\ Len(written) + 1 \notin DOMAIN written
         /\ \A n \in DOMAIN written : written'[n] = written[n]
<1>1. written \in Seq(SeedRows) BY DEF SeedTyped
<1>2. /\ written' \in Seq(SeedRows) /\ Len(written) \in Nat
      /\ Len(written') = Len(written) + 1 /\ written'[Len(written) + 1] = rec
      /\ DOMAIN written = 1 .. Len(written) /\ DOMAIN written' = 1 .. (Len(written) + 1)
      /\ \A n \in DOMAIN written : written'[n] = written[n]
  <2> HIDE DEF SeedRows
  <2> QED BY <1>1
<1>3. /\ DOMAIN written' = DOMAIN written \cup {Len(written) + 1}
      /\ Len(written) + 1 \notin DOMAIN written
  BY <1>2
<1> QED BY <1>2, <1>3 DEF RowsStay, LivesStay

\* A grant adds a role to the live accounts of an e-mail, and does nothing else.
LEMMA RoleGranted ==
  ASSUME SeedTyped, NEW email, NEW role \in SeedTexts, written' = Granted(email, role)
  PROVE  /\ written' \in Seq(SeedRows) /\ RowsStay /\ LivesStay
         /\ DOMAIN written' = DOMAIN written
         /\ \A n \in DOMAIN written : written'[n].stock = written[n].stock
         /\ \A n \in Live("users", email) : role \in written'[n].roles
<1>1. /\ written \in Seq(SeedRows) /\ Len(written) \in Nat /\ DOMAIN written = 1 .. Len(written)
      /\ \A n \in DOMAIN written : written[n] \in SeedRows
  BY DEF SeedTyped
<1>2. ASSUME NEW n \in DOMAIN written
      PROVE  /\ written'[n] \in SeedRows /\ written[n].roles \subseteq written'[n].roles
             /\ n \in Live("users", email) => role \in written'[n].roles
             /\ written'[n].table = written[n].table /\ written'[n].key = written[n].key
             /\ written'[n].document = written[n].document /\ written'[n].stock = written[n].stock
             /\ written'[n].user = written[n].user /\ written'[n].owner = written[n].owner
             /\ written'[n].live = written[n].live
  <2>1. CASE n \in Live("users", email)
    <3>1. written'[n] = [written[n] EXCEPT !.roles = @ \cup {role}] BY <2>1 DEF Granted
    <3>2. written[n] \in SeedRows BY <1>1
    <3> QED BY <3>1, <3>2 DEF SeedRows
  <2>2. CASE n \notin Live("users", email) BY <1>1, <2>2 DEF Granted
  <2> QED BY <2>1, <2>2
<1>3. DOMAIN written' = DOMAIN written BY DEF Granted
<1>4. written' \in Seq(SeedRows) /\ Len(written') = Len(written)
  <2>1. written' \in [1 .. Len(written) -> SeedRows] BY <1>1, <1>2, <1>3 DEF Granted
  <2> HIDE DEF SeedRows
  <2> QED BY <1>1, <2>1
<1>5. \A n \in Live("users", email) : n \in DOMAIN written BY DEF Live
<1> QED BY <1>1, <1>2, <1>3, <1>4, <1>5 DEF RowsStay, LivesStay

\* What is live stays live, and what the seed has done stays done.
LEMMA DoneStays ==
  ASSUME RowsStay, LivesStay
  PROVE  /\ \A t, k : Live(t, k) \subseteq Live(t, k)'
         /\ \A i \in DOMAIN Tasks : Has(i) => Has(i)'
<1>1. \A t, k : Live(t, k) \subseteq Live(t, k)' BY DEF RowsStay, LivesStay, Live
<1>2. ASSUME NEW i \in DOMAIN Tasks, Has(i) PROVE Has(i)'
  <2>1. CASE Tasks[i].table = "users"
    <3>1. PICK n \in Live("users", Tasks[i].key) : ActorOf(Tasks[i].key).role \in written[n].roles
      BY <1>2, <2>1 DEF Has
    <3>2. n \in Live("users", Tasks[i].key)' /\ n \in DOMAIN written BY <1>1, <3>1 DEF Live
    <3>3. ActorOf(Tasks[i].key).role \in written'[n].roles BY <3>1, <3>2 DEF RowsStay
    <3> QED BY <2>1, <3>2, <3>3 DEF Has
  <2>2. CASE Tasks[i].table \in {"services", "inventory_items", "vehicles"}
    <3>1. Live(Tasks[i].table, Tasks[i].key) # {} BY <1>2, <2>2 DEF Has
    <3>2. Live(Tasks[i].table, Tasks[i].key)' # {} BY <1>1, <3>1
    <3> QED BY <2>2, <3>2 DEF Has
  <2>3. CASE Tasks[i].table \notin {"users", "services", "inventory_items", "vehicles"}
    BY <2>3 DEF Has
  <2> QED BY <2>1, <2>2, <2>3
<1> QED BY <1>1, <1>2

\* A run that works has one of the tasks, or is past the last.
LEMMA WorkingRun ==
  ASSUME TasksLaidOut, SeedInv, NEW p \in Runs, run[p].at # "idle"
  PROVE  /\ run[p] \in SeedRuns /\ run[p].task \in 1 .. Len(Tasks) + 1
         /\ run[p].at # "look" => run[p].task \in DOMAIN Tasks
         /\ run[p].task <= Len(Tasks) => run[p].task \in DOMAIN Tasks
<1>1. run[p] \in SeedRuns /\ RunIsPlaced(p) BY DEF SeedInv, SeedTyped
<1>2. Len(Tasks) \in Nat /\ DOMAIN Tasks = 1 .. Len(Tasks) BY DEF TasksLaidOut
<1>3. run[p].task \in Nat BY <1>1 DEF SeedRuns
<1> QED BY <1>1, <1>2, <1>3 DEF RunIsPlaced

\* A run is not moved by the steps of others, which leave the rows it counts on.
LEMMA PlaceStays ==
  ASSUME TasksLaidOut, SeedInv, NEW q \in Runs, run'[q] = run[q], RowsStay,
         written' \in Seq(SeedRows),
         \A n \in DOMAIN written : Pending(q, n) => written'[n].stock = written[n].stock
  PROVE  RunIsPlaced(q)'
<1> DEFINE r == run[q]
<1>1. /\ r \in SeedRuns /\ RunIsPlaced(q) /\ r.user \in Nat /\ r.customer \in Nat /\ r.task \in Nat
      /\ written \in Seq(SeedRows) /\ Len(written) \in Nat /\ Len(written') \in Nat
      /\ Len(written) <= Len(written') /\ DOMAIN written = 1 .. Len(written)
  BY DEF SeedInv, SeedTyped, SeedRuns, RowsStay
<1>2. Task(q)' = Task(q) BY DEF Task, Tasks
<1>3. r.user # 0 => r.user \in DOMAIN written /\ r.user \in DOMAIN written'
  BY <1>1 DEF RunIsPlaced, RowsStay
<1>4. r.task > Len(Actors) => /\ r.user # 0 /\ written'[r.user].table = "users"
                              /\ written'[r.user].key = Actors[Len(Actors)].email
  BY <1>1, <1>3 DEF RunIsPlaced, RowsStay
<1>5. ASSUME r.at = "stock"
      PROVE  /\ Task(q).table = "inventory_items" /\ r.found \in DOMAIN written'
             /\ written'[r.found].table = "inventory_items" /\ written'[r.found].key = Task(q).key
             /\ written'[r.found].stock = 0
  <2>1. /\ Task(q).table = "inventory_items" /\ r.found \in DOMAIN written
        /\ written[r.found].table = "inventory_items" /\ written[r.found].key = Task(q).key
        /\ written[r.found].stock = 0
    BY <1>1, <1>5 DEF RunIsPlaced
  <2>2. Pending(q, r.found) BY <1>5 DEF Pending
  <2> QED BY <2>1, <2>2 DEF RowsStay
<1>6. r.user <= Len(written') /\ r.customer <= Len(written') BY <1>1 DEF RunIsPlaced
<1>7. run'[q] = r OBVIOUS
<1>8. /\ (r.at = "idle" => r = NotRunning) /\ (r.at # "idle" => r.task > 0)
      /\ r.task <= Len(Tasks) + 1 /\ (r.task = Len(Tasks) + 1 => r.at = "look")
      /\ r.at \in {"document", "insert", "grant", "read"} => Task(q).table = "users"
      /\ r.at = "create" => Task(q).table # "users"
      /\ r.task > CustomerTask => r.customer # 0
  BY <1>1 DEF RunIsPlaced
<1> HIDE DEF r
<1> QED BY <1>2, <1>4, <1>5, <1>6, <1>7, <1>8 DEF RunIsPlaced

\* Nothing a run does moves another run from its place, or takes a row from it.
LEMMA OthersKeep ==
  ASSUME TasksLaidOut, SeedInv, NEW p \in Runs, NEW q \in Runs, q # p,
         run'[q] = run[q], RowsStay, StocksStay(p), written' \in Seq(SeedRows)
  PROVE  RunIsPlaced(q)'
<1>1. \A n \in DOMAIN written : Pending(q, n) => written'[n].stock = written[n].stock
  BY DEF SeedInv, OneHandEach, StocksStay
<1> QED BY <1>1, PlaceStays

\* What a run has done stays done while others write.
LEMMA OthersHaveDone ==
  ASSUME TasksLaidOut, SeedInv, NEW q \in Runs, RunIsPlaced(q), RunHasDone(q),
         run'[q] = run[q], RowsStay, LivesStay
  PROVE  RunHasDone(q)'
<1> DEFINE r == run[q]
<1>1. Task(q)' = Task(q) BY DEF Task, Tasks
<1>2. r \in SeedRuns /\ r.user \in Nat /\ r.task \in Nat /\ DOMAIN written = 1 .. Len(written)
      /\ Len(written) \in Nat /\ r.user <= Len(written)
  BY DEF SeedInv, SeedTyped, SeedRuns, RunIsPlaced
<1>3. r.at \in {"grant", "read"} => Live("users", Task(q).key)' # {}
  BY <1>1, DoneStays DEF RunHasDone
<1>4. r.at = "read" => Has(run[q].task)'
  <2>1. r.at = "read" => r.task \in DOMAIN Tasks
    BY WorkingRun
  <2> QED BY <2>1, DoneStays DEF RunHasDone
<1>5. \A i \in DOMAIN Tasks : i < r.task => Has(i)' BY DoneStays DEF RunHasDone
<1>6. r.task > Len(Actors) => "CUSTOMER" \in written'[r.user].roles
  BY <1>2 DEF RunHasDone, RunIsPlaced, RowsStay
<1>7. run'[q] = r OBVIOUS
<1> HIDE DEF r
<1> QED BY <1>1, <1>3, <1>4, <1>5, <1>6, <1>7 DEF RunHasDone, r

\* Where no row is new, the rows are known and one of each as before.
LEMMA KnownStay ==
  ASSUME SeedInv, RowsStay, LivesStay, DOMAIN written' = DOMAIN written, edits' = edits,
         \A n \in DOMAIN written :
           \/ written'[n].stock = written[n].stock
           \/ written'[n].stock = OpeningStock[written[n].key]
  PROVE  RowsAreKnown' /\ OneOfEach'
<1>1. ASSUME NEW n \in DOMAIN written
      PROVE  IsKnown(written'[n], n) /\ (edits' = 0 => written'[n].live)
  <2>1. IsKnown(written[n], n) /\ (edits = 0 => written[n].live) BY DEF SeedInv, RowsAreKnown
  <2>2. /\ written'[n].table = written[n].table /\ written'[n].key = written[n].key
        /\ written'[n].document = written[n].document /\ written'[n].live = written[n].live
        /\ written'[n].user = written[n].user /\ written'[n].owner = written[n].owner
    BY DEF RowsStay, LivesStay
  <2>3. \/ written'[n].stock = written[n].stock
        \/ written'[n].stock = OpeningStock[written[n].key]
    OBVIOUS
  <2> QED BY <2>1, <2>2, <2>3 DEF IsKnown
<1>2. RowsAreKnown' BY <1>1 DEF RowsAreKnown
<1>3. OneOfEach' BY DEF SeedInv, OneOfEach, RowsStay, LivesStay
<1> QED BY <1>2, <1>3

\* A row that the unique indexes admit is one of each, too.
LEMMA KnownGrow ==
  ASSUME SeedInv, NEW rec \in SeedRows, written' = Append(written, rec), edits' = edits,
         rec.live, IsKnown(rec, Len(written) + 1), Unique(rec)
  PROVE  RowsAreKnown' /\ OneOfEach'
<1>1. /\ DOMAIN written' = DOMAIN written \cup {Len(written) + 1}
      /\ written'[Len(written) + 1] = rec /\ Len(written) + 1 \notin DOMAIN written
      /\ \A n \in DOMAIN written : written'[n] = written[n]
  BY RowAppended DEF SeedInv
<1>2. RowsAreKnown' BY <1>1 DEF SeedInv, RowsAreKnown
<1>3. rec.table # "customers" => Live(rec.table, rec.key) = {} BY DEF Unique, SeedRows, SeedTables
<1>4. OneOfEach'
  <2> SUFFICES ASSUME NEW m \in DOMAIN written', NEW n \in DOMAIN written',
                      written'[m].live, written'[n].live, written'[m].table # "customers",
                      written'[m].table = written'[n].table, written'[m].key = written'[n].key
               PROVE  m = n
    BY DEF OneOfEach
  <2>1. CASE m \in DOMAIN written /\ n \in DOMAIN written
    BY <1>1, <2>1 DEF SeedInv, OneOfEach
  <2>2. ASSUME NEW k \in DOMAIN written, written'[k].live, written'[k].table # "customers",
               written'[k].table = rec.table, written'[k].key = rec.key
        PROVE  FALSE
    <3>1. k \in Live(rec.table, rec.key) BY <1>1, <2>2 DEF Live
    <3> QED BY <1>3, <2>2, <3>1
  <2> QED BY <1>1, <2>1, <2>2
<1> QED BY <1>2, <1>4

\* What is owed to an item is still owed by the run that owed it, where the step makes no item
\* and its run keeps or pays its own.
LEMMA DebtsStay ==
  ASSUME SeedInv, NEW p \in Runs, NEW r, run' = [run EXCEPT ![p] = r], r.at # "stock",
         stops' = stops, RowsStay,
         \A n \in DOMAIN written' :
           written'[n].table = "inventory_items"
             /\ written'[n].stock # OpeningStock[written'[n].key]
             => /\ n \in DOMAIN written /\ written'[n].stock = written[n].stock
                /\ ~Pending(p, n)
  PROVE  StockIsComing' /\ OneHandEach'
<1>1. \A q \in Runs : run'[q] = IF q = p THEN r ELSE run[q] BY DEF SeedInv, SeedTyped
<1>2. \A q \in Runs : \A n : Pending(q, n)' <=> q # p /\ Pending(q, n) BY <1>1 DEF Pending
<1>3. StockIsComing'
  <2> SUFFICES ASSUME stops' = 0, NEW n \in DOMAIN written', written'[n].table = "inventory_items",
                      written'[n].stock # OpeningStock[written'[n].key]
               PROVE  \E q \in Runs : Pending(q, n)'
    BY DEF StockIsComing
  <2>1. n \in DOMAIN written /\ written'[n].stock = written[n].stock /\ ~Pending(p, n) OBVIOUS
  <2>2. written'[n].table = written[n].table /\ written'[n].key = written[n].key
    BY <2>1 DEF RowsStay
  <2>3. PICK q \in Runs : Pending(q, n) BY <2>1, <2>2 DEF SeedInv, StockIsComing
  <2> QED BY <1>2, <2>1, <2>3
<1>4. OneHandEach'
  <2> SUFFICES ASSUME NEW q \in Runs, NEW s \in Runs, NEW n \in DOMAIN written',
                      Pending(q, n)', Pending(s, n)'
               PROVE  q = s
    BY DEF OneHandEach
  <2>1. Pending(q, n) /\ Pending(s, n) BY <1>2
  <2>2. RunIsPlaced(q) BY DEF SeedInv
  <2>3. n \in DOMAIN written BY <2>1, <2>2 DEF RunIsPlaced, Pending
  <2> QED BY <2>1, <2>3 DEF SeedInv, OneHandEach
<1> QED BY <1>3, <1>4

\* A step of a run: what it must show of itself and of the rows it leaves.
LEMMA StepKeeps ==
  ASSUME TasksLaidOut, SeedInv, NEW p \in Runs, run[p].at # "idle",
         NEW r \in SeedRuns, r.at # "idle", run' = [run EXCEPT ![p] = r], Same,
         written' \in Seq(SeedRows), RowsStay, LivesStay, StocksStay(p),
         RowsAreKnown', OneOfEach', StockIsComing', OneHandEach',
         RunIsPlaced(p)', edits = 0 => RunHasDone(p)', ~disturbed[p] => AsItWas(p)'
  PROVE  SeedInv'
<1>1. run \in [Runs -> SeedRuns] /\ SeedTyped BY DEF SeedInv, SeedTyped
<1>2. /\ run' \in [Runs -> SeedRuns] /\ run'[p] = r
      /\ \A q \in Runs : q # p => run'[q] = run[q]
  <2> HIDE DEF SeedRuns
  <2> QED BY <1>1
<1>3. SeedTyped' BY <1>1, <1>2 DEF SeedTyped, Same
<1>4. \A q \in Runs : RunIsPlaced(q)' BY <1>2, OthersKeep
<1>5. ASSUME NEW q \in Runs, edits' = 0 PROVE RunHasDone(q)'
  <2>1. edits = 0 BY <1>5 DEF Same
  <2>2. CASE q = p BY <2>1, <2>2
  <2>3. CASE q # p
    <3>1. RunIsPlaced(q) /\ RunHasDone(q) BY <2>1 DEF SeedInv
    <3>2. run'[q] = run[q] BY <1>2, <2>3
    <3> QED BY <3>1, <3>2, OthersHaveDone
  <2> QED BY <2>2, <2>3
<1>6. ASSUME NEW q \in Runs PROVE RunIsAlone(q)'
  <2>1. disturbed' = disturbed /\ admin' = admin BY DEF Same
  <2>2. CASE q = p
    <3>1. ~disturbed[p] => /\ \A s \in Runs : s # p => run[s].at = "idle"
                           /\ admin # "granting"
      BY DEF SeedInv, RunIsAlone
    <3> QED BY <1>2, <2>1, <2>2, <3>1 DEF RunIsAlone
  <2>3. CASE q # p
    <3>1. run[q].at # "idle" => disturbed[q] BY <2>3 DEF SeedInv, RunIsAlone
    <3> QED BY <1>2, <2>1, <2>3, <3>1 DEF RunIsAlone
  <2> QED BY <2>2, <2>3
<1>7. ASSUME NEW q \in Runs PROVE RunEnds(q)'
  <2>1. last' = last /\ disturbed' = disturbed /\ edits' = edits BY DEF Same
  <2>2. RunEnds(q) /\ last[p] = "running" BY DEF SeedInv, RunEnds
  <2>3. run'[q].at # "idle" => last[q] = "running" BY <1>2, <2>2 DEF RunEnds
  <2>4. edits = 0 /\ last[q] = "finished" => \A i \in DOMAIN Tasks : Has(i)'
    BY <2>2, DoneStays DEF RunEnds
  <2> QED BY <2>1, <2>2, <2>3, <2>4 DEF RunEnds
<1> QED BY <1>3, <1>4, <1>5, <1>6, <1>7 DEF SeedInv

\* What the statement of a run leaves of the rows, whichever it is, and that it owes no stock.
RowsKeep(p) ==
  /\ written' \in Seq(SeedRows) /\ RowsStay /\ LivesStay /\ StocksStay(p)
  /\ RowsAreKnown' /\ OneOfEach'
NoNewDebt(p) ==
  \A n \in DOMAIN written' :
    written'[n].table = "inventory_items" /\ written'[n].stock # OpeningStock[written'[n].key]
      => n \in DOMAIN written /\ written'[n].stock = written[n].stock /\ ~Pending(p, n)

\* A query that only reads.
LEMMA ReadingKeeps ==
  ASSUME SeedInv, NEW p \in Runs, UNCHANGED written, edits' = edits
  PROVE  RowsKeep(p) /\ (run[p].at # "stock" => NoNewDebt(p))
<1>1. /\ written' \in Seq(SeedRows) /\ RowsStay /\ LivesStay
      /\ DOMAIN written' = DOMAIN written
      /\ \A n \in DOMAIN written : written'[n].stock = written[n].stock
  BY RowsUntouched DEF SeedInv
<1>2. RowsAreKnown' /\ OneOfEach' BY <1>1, KnownStay
<1>3. run[p].at # "stock" => NoNewDebt(p) BY <1>1 DEF NoNewDebt, Pending
<1> QED BY <1>1, <1>2, <1>3 DEF RowsKeep, StocksStay

\* A query that inserts a row its unique indexes let in.
LEMMA InsertingKeeps ==
  ASSUME SeedInv, NEW p \in Runs, NEW rec \in SeedRows, written' = Append(written, rec),
         edits' = edits, rec.live, IsKnown(rec, Len(written) + 1), Unique(rec)
  PROVE  /\ RowsKeep(p)
         /\ run[p].at # "stock" /\ rec.table # "inventory_items" => NoNewDebt(p)
<1>1. /\ written' \in Seq(SeedRows) /\ RowsStay /\ LivesStay
      /\ DOMAIN written' = DOMAIN written \cup {Len(written) + 1}
      /\ written'[Len(written) + 1] = rec
      /\ \A n \in DOMAIN written : written'[n] = written[n]
  BY RowAppended DEF SeedInv
<1>2. RowsAreKnown' /\ OneOfEach' BY KnownGrow
<1>3. run[p].at # "stock" /\ rec.table # "inventory_items" => NoNewDebt(p)
  BY <1>1 DEF NoNewDebt, Pending
<1> QED BY <1>1, <1>2, <1>3 DEF RowsKeep, StocksStay

\* A query that grants a role.
LEMMA GrantingKeeps ==
  ASSUME SeedInv, NEW p \in Runs, NEW email, NEW role \in SeedTexts,
         written' = Granted(email, role), edits' = edits
  PROVE  RowsKeep(p) /\ (run[p].at # "stock" => NoNewDebt(p))
<1>1. /\ written' \in Seq(SeedRows) /\ RowsStay /\ LivesStay
      /\ DOMAIN written' = DOMAIN written
      /\ \A n \in DOMAIN written : written'[n].stock = written[n].stock
  BY RoleGranted DEF SeedInv
<1>2. RowsAreKnown' /\ OneOfEach' BY <1>1, KnownStay
<1>3. run[p].at # "stock" => NoNewDebt(p) BY <1>1 DEF NoNewDebt, Pending
<1> QED BY <1>1, <1>2, <1>3 DEF RowsKeep, StocksStay

\* A run goes on to another query of its task.
LEMMA GoingKeeps ==
  ASSUME TasksLaidOut, SeedInv, NEW p \in Runs, run[p].at \notin {"idle", "stock"},
         run[p].task <= Len(Tasks), NEW to \in {"document", "insert", "grant", "read", "create"},
         Go(p, to), Same, RowsKeep(p), NoNewDebt(p), NEW task, task = Tasks[run[p].task],
         to = "create" <=> task.table # "users",
         edits = 0 /\ to \in {"grant", "read"} => Live("users", task.key)' # {},
         NEW i, i = run[p].task, edits = 0 /\ to = "read" => Has(i)',
         ~disturbed[p] =>
           /\ to \in {"document", "insert"} => Live("users", task.key)' = {}
           /\ to = "insert" => WithDocument(ActorOf(task.key).document)' = {}
           /\ to = "create" /\ task.table # "customers" => Live(task.table, task.key)' = {}
           /\ edits = 0 /\ to = "create" /\ task.table = "customers" =>
                CustomersOf(run[p].user)' = {}
  PROVE  SeedInv'
<1> DEFINE r == [run[p] EXCEPT !.at = to]
<1>1. run \in [Runs -> SeedRuns] /\ run[p] \in SeedRuns /\ run[p].at # "idle"
      /\ RunIsPlaced(p) /\ RowsStay /\ written \in Seq(SeedRows)
  BY DEF SeedInv, SeedTyped, RowsKeep
<1>2. /\ r \in SeedRuns /\ r.at = to /\ r.task = run[p].task /\ r.user = run[p].user
      /\ r.found = run[p].found /\ r.customer = run[p].customer
  BY <1>1 DEF SeedRuns, SeedPlaces
<1>3. run' = [run EXCEPT ![p] = r] BY DEF Go
<1> HIDE DEF r
<1>4. run'[p] = r BY <1>1, <1>3
<1>5. /\ run[p].task \in Nat /\ Len(Tasks) \in Nat /\ Len(written) \in Nat /\ Len(written') \in Nat
      /\ run[p].user \in Nat /\ run[p].customer \in Nat /\ Len(written) <= Len(written')
      /\ DOMAIN written = 1 .. Len(written)
  <2>1. written' \in Seq(SeedRows) BY DEF RowsKeep
  <2> QED BY <1>1, <2>1 DEF TasksLaidOut, SeedRuns, RowsStay
<1>6. Task(p)' = task BY <1>2, <1>4 DEF Task
<1>7. run[p].task > Len(Actors) =>
        /\ run[p].user # 0 /\ run[p].user \in DOMAIN written
        /\ written'[run[p].user].table = "users"
        /\ written'[run[p].user].key = Actors[Len(Actors)].email
        /\ written[run[p].user].roles \subseteq written'[run[p].user].roles
  BY <1>1, <1>5 DEF RunIsPlaced, RowsStay
<1>8. RunIsPlaced(p)'
  <2>1. /\ to \notin {"idle", "look", "stock"} /\ run[p].task > 0 /\ run[p].task <= Len(Tasks)
        /\ run[p].user <= Len(written') /\ run[p].customer <= Len(written')
        /\ run[p].task > CustomerTask => run[p].customer # 0
    BY <1>1, <1>5 DEF RunIsPlaced
  <2>2. Len(Tasks) # Len(Tasks) + 1 /\ Len(Tasks) <= Len(Tasks) + 1 /\ run[p].task # Len(Tasks) + 1
        /\ run[p].task <= Len(Tasks) + 1
    BY <1>5, <2>1
  <2>3. (to = "create" => task.table # "users")
        /\ (to \in {"document", "insert", "grant", "read"} => task.table = "users")
    OBVIOUS
  <2> QED BY <1>2, <1>4, <1>6, <1>7, <2>1, <2>2, <2>3 DEF RunIsPlaced
<1>9. edits = 0 => RunHasDone(p)'
  <2> SUFFICES ASSUME edits = 0 PROVE RunHasDone(p)' OBVIOUS
  <2>1. RunHasDone(p) BY DEF SeedInv
  <2>2. RowsStay /\ LivesStay BY DEF RowsKeep
  <2>3. \A j \in DOMAIN Tasks : j < run[p].task => Has(j)' BY <2>1, <2>2, DoneStays DEF RunHasDone
  <2>4. run[p].task > Len(Actors) => "CUSTOMER" \in written'[run[p].user].roles
    BY <1>7, <2>1 DEF RunHasDone
  <2>5. (r.at = "read" => Has(i)') /\ i = run'[p].task BY <1>2, <1>4
  <2> QED BY <1>2, <1>4, <1>6, <2>3, <2>4, <2>5 DEF RunHasDone
<1>10. ~disturbed[p] => AsItWas(p)'
  <2> SUFFICES ASSUME ~disturbed[p] PROVE AsItWas(p)' OBVIOUS
  <2>1. edits' = edits BY DEF Same
  <2> QED BY <1>2, <1>4, <1>6, <2>1 DEF AsItWas
<1>11. StockIsComing' /\ OneHandEach'
  BY <1>1, <1>2, <1>3, DebtsStay DEF NoNewDebt, Same
<1>12. r.at # "idle" BY <1>2
<1> QED BY <1>1, <1>2, <1>3, <1>8, <1>9, <1>10, <1>11, <1>12, StepKeeps DEF RowsKeep

\* A run is done with a task and looks for what the next one is about.
LEMMA NextTaskKeeps ==
  ASSUME TasksLaidOut, SeedInv, NEW p \in Runs, run[p].at # "idle", run[p].task <= Len(Tasks),
         NEW s \in SeedRuns, s.task = run[p].task, NextTask(p, s), Same,
         RowsKeep(p), NoNewDebt(p),
         s.user <= Len(written'), s.customer <= Len(written'),
         s.user = run[p].user \/ run[p].task <= Len(Actors),
         s.customer = run[p].customer \/ run[p].task <= CustomerTask,
         run[p].task = Len(Actors) =>
           /\ s.user # 0 /\ written'[s.user].table = "users"
           /\ written'[s.user].key = Actors[Len(Actors)].email
           /\ edits = 0 => "CUSTOMER" \in written'[s.user].roles,
         run[p].task = CustomerTask => s.customer # 0,
         NEW i, i = run[p].task, edits = 0 => Has(i)'
  PROVE  SeedInv'
<1> DEFINE r == [s EXCEPT !.task = @ + 1, !.at = "look", !.found = 0]
<1>1. run \in [Runs -> SeedRuns] /\ run[p] \in SeedRuns
      /\ RunIsPlaced(p) /\ RowsStay /\ written \in Seq(SeedRows)
  BY DEF SeedInv, SeedTyped, RowsKeep
<1>2. /\ r \in SeedRuns /\ r.at = "look" /\ r.task = run[p].task + 1 /\ r.user = s.user
      /\ r.found = 0 /\ r.customer = s.customer
  <2>1. s.task \in Nat /\ s.user \in Nat /\ s.customer \in Nat /\ s.found \in Nat BY DEF SeedRuns
  <2>2. s.task + 1 \in Nat /\ 0 \in Nat /\ "look" \in SeedPlaces BY <2>1 DEF SeedPlaces
  <2>3. r \in SeedRuns BY <2>2 DEF SeedRuns
  <2>4. r.at = "look" /\ r.task = s.task + 1 /\ r.user = s.user /\ r.customer = s.customer
        /\ r.found = 0
    BY DEF SeedRuns
  <2> QED BY <2>3, <2>4
<1>3. run' = [run EXCEPT ![p] = r] BY DEF NextTask
<1> HIDE DEF r
<1>4. run'[p] = r BY <1>1, <1>3
<1>5. /\ run[p].task \in Nat /\ Len(Tasks) \in Nat /\ Len(written) \in Nat /\ Len(written') \in Nat
      /\ run[p].user \in Nat /\ run[p].customer \in Nat /\ Len(written) <= Len(written')
      /\ s.user \in Nat /\ s.customer \in Nat /\ Len(Actors) \in Nat /\ CustomerTask \in Nat
      /\ DOMAIN written = 1 .. Len(written)
  <2>1. written' \in Seq(SeedRows) BY DEF RowsKeep
  <2> QED BY <1>1, <2>1 DEF TasksLaidOut, SeedRuns, RowsStay
<1>6. r.task > Len(Actors) =>
        /\ s.user # 0
        /\ written'[s.user].table = "users"
        /\ written'[s.user].key = Actors[Len(Actors)].email
        /\ edits = 0 => "CUSTOMER" \in written'[s.user].roles
  <2>1. CASE run[p].task = Len(Actors) BY <2>1
  <2>2. CASE run[p].task > Len(Actors)
    <3>1. s.user = run[p].user BY <1>5, <2>2
    <3>2. /\ run[p].user # 0 /\ written[run[p].user].table = "users"
          /\ run[p].user \in DOMAIN written
          /\ written[run[p].user].key = Actors[Len(Actors)].email
      BY <1>1, <1>5, <2>2 DEF RunIsPlaced
    <3>3. edits = 0 => "CUSTOMER" \in written[run[p].user].roles
      BY <2>2 DEF SeedInv, RunHasDone
    <3> QED BY <1>1, <3>1, <3>2, <3>3 DEF RowsStay
  <2> QED BY <1>2, <1>5, <2>1, <2>2
<1>7. r.task > CustomerTask => s.customer # 0
  <2>1. run[p].task > CustomerTask => s.customer # 0 BY <1>1, <1>5 DEF RunIsPlaced
  <2> QED BY <1>2, <1>5, <2>1
<1>8. RunIsPlaced(p)'
  <2>1. r.task > 0 /\ r.task <= Len(Tasks) + 1 BY <1>2, <1>5
  <2> QED BY <1>2, <1>4, <1>6, <1>7, <2>1 DEF RunIsPlaced
<1>9. edits = 0 => RunHasDone(p)'
  <2> SUFFICES ASSUME edits = 0 PROVE RunHasDone(p)' OBVIOUS
  <2>1. RunHasDone(p) BY DEF SeedInv
  <2>2. RowsStay /\ LivesStay BY DEF RowsKeep
  <2>3. ASSUME NEW j \in DOMAIN Tasks, j < r.task PROVE Has(j)'
    <3>1. j \in Nat BY DEF TasksLaidOut
    <3>2. CASE j < run[p].task BY <2>1, <2>2, <3>2, DoneStays DEF RunHasDone
    <3>3. CASE j = i BY <3>3
    <3> QED BY <1>2, <1>5, <2>3, <3>1, <3>2, <3>3
  <2> QED BY <1>2, <1>4, <1>6, <2>3 DEF RunHasDone
<1>10. AsItWas(p)' BY <1>2, <1>4 DEF AsItWas
<1>11. StockIsComing' /\ OneHandEach'
  BY <1>1, <1>2, <1>3, DebtsStay DEF NoNewDebt, Same
<1>12. r.at # "idle" BY <1>2
<1> QED BY <1>1, <1>2, <1>3, <1>8, <1>9, <1>10, <1>11, <1>12, StepKeeps DEF RowsKeep

-------------------------------------------------------------------------------
(* The queries of a run, one by one. *)

Busy(p) == run[p].at # "idle" /\ run[p].task <= Len(Tasks)

\* The task of a run is one of the tasks, and an account's is that of one actor.
LEMMA TaskOfRun ==
  ASSUME SeedAssumption, TasksLaidOut, SeedInv, NEW p \in Runs, Busy(p)
  PROVE  /\ run[p] \in SeedRuns /\ RunIsPlaced(p)
         /\ run[p].task \in DOMAIN Tasks /\ Task(p) = Tasks[run[p].task] /\ run[p].task \in Nat
         /\ Task(p).table \in SeedTables /\ Task(p).key \in SeedTexts
         /\ Task(p).table = "users" =>
              /\ run[p].task \in DOMAIN Actors /\ Task(p).key = Actors[run[p].task].email
              /\ run[p].task <= Len(Actors) /\ run[p].task < CustomerTask
              /\ ActorOf(Task(p).key) = Actors[run[p].task]
<1>1. run[p] \in SeedRuns /\ RunIsPlaced(p) BY DEF SeedInv, SeedTyped
<1>2. run[p].task \in DOMAIN Tasks /\ run[p].task \in Nat /\ run[p].task > 0
  <2>1. run[p].task \in DOMAIN Tasks BY WorkingRun DEF Busy
  <2>2. run[p].task \in Nat BY <1>1 DEF SeedRuns
  <2> QED BY <1>1, <2>1, <2>2 DEF RunIsPlaced, Busy
<1>3. Tasks[run[p].task] \in [table : SeedTables, key : SeedTexts]
  <2> DEFINE T == [table : SeedTables, key : SeedTexts]
  <2>1. Tasks \in Seq(T) BY DEF TasksLaidOut
  <2> HIDE DEF T
  <2>2. Tasks[run[p].task] \in T BY <1>2, <2>1
  <2> QED BY <2>2 DEF T
<1>4. ASSUME Task(p).table = "users"
      PROVE  /\ run[p].task \in DOMAIN Actors /\ Task(p).key = Actors[run[p].task].email
             /\ run[p].task <= Len(Actors) /\ run[p].task < CustomerTask
             /\ ActorOf(Task(p).key) = Actors[run[p].task]
  <2>1. run[p].task <= Len(Actors) /\ Task(p).key = Actors[run[p].task].email
    BY <1>2, <1>4 DEF TasksLaidOut, Task
  <2>2. Len(Actors) < CustomerTask /\ Len(Actors) \in Nat /\ CustomerTask \in Nat
    BY DEF TasksLaidOut
  <2>3. DOMAIN Actors = 1 .. Len(Actors)
    <3> DEFINE Person == [email : STRING, document : STRING, role : STRING]
    <3>1. Actors \in Seq(Person) BY DEF SeedAssumption
    <3> HIDE DEF Person
    <3> QED BY <3>1
  <2>4. run[p].task \in DOMAIN Actors BY <1>2, <2>1, <2>2, <2>3
  <2> QED BY <1>2, <2>1, <2>2, <2>4, ActorIsKnown
<1> QED BY <1>1, <1>2, <1>3, <1>4 DEF Task

\* The columns of the actors and of the administrator.
LEMMA PeopleAreTexts ==
  ASSUME SeedAssumption
  PROVE  /\ \A i \in DOMAIN Actors : {Actors[i].email, Actors[i].document, Actors[i].role}
                                       \subseteq SeedTexts
         /\ {Admin.email, Admin.document} \subseteq SeedTexts
<1> DEFINE Person == [email : STRING, document : STRING, role : STRING]
<1>1. Actors \in Seq(Person) /\ Admin \in [email : STRING, document : STRING]
  BY DEF SeedAssumption
<1> HIDE DEF Person
<1>2. \A i \in DOMAIN Actors : Actors[i] \in Person BY <1>1
<1>3. \A i \in DOMAIN Actors :
        Actors[i].email \in STRING /\ Actors[i].document \in STRING /\ Actors[i].role \in STRING
  BY <1>2 DEF Person
<1>4. Admin.email \in STRING /\ Admin.document \in STRING BY <1>1
<1> QED BY <1>3, <1>4 DEF SeedTexts

\* Whoever holds the document of an actor holds its e-mail.
LEMMA DocumentHasEmail ==
  ASSUME SeedAssumption, SeedInv, NEW i \in DOMAIN Actors
  PROVE  WithDocument(Actors[i].document) \subseteq Live("users", Actors[i].email)
<1> SUFFICES ASSUME NEW n \in WithDocument(Actors[i].document)
             PROVE  n \in Live("users", Actors[i].email)
  OBVIOUS
<1>1. n \in DOMAIN written /\ written[n].table = "users" /\ written[n].live
      /\ written[n].document = Actors[i].document
  BY DEF WithDocument
<1>2. \/ \E j \in DOMAIN Actors : /\ written[n].key = Actors[j].email
                                  /\ written[n].document = Actors[j].document
      \/ written[n].key = Admin.email /\ written[n].document = Admin.document
  BY <1>1 DEF SeedInv, RowsAreKnown, IsKnown
<1>3. written[n].key = Actors[i].email BY <1>1, <1>2 DEF SeedAssumption
<1> QED BY <1>1, <1>3 DEF Live

\* A run that is over, however it ended.
LEMMA RestingKeeps ==
  ASSUME TasksLaidOut, SeedInv, NEW p \in Runs, run' = [run EXCEPT ![p] = NotRunning],
         NEW how \in {"finished", "failed", "stopped"}, last' = [last EXCEPT ![p] = how],
         UNCHANGED <<written, admin, disturbed, edits>>, stops' \in Nat,
         stops' # 0 \/ (stops' = stops /\ run[p].at # "stock"),
         edits = 0 /\ how = "failed" => disturbed[p],
         edits = 0 /\ how = "finished" => \A i \in DOMAIN Tasks : Has(i)
  PROVE  SeedInv'
<1>1. /\ SeedTyped /\ run \in [Runs -> SeedRuns]
      /\ last \in [Runs -> {"none", "running", "finished", "failed", "stopped"}]
      /\ Len(written) \in Nat
  BY DEF SeedInv, SeedTyped
<1>2. NotRunning \in SeedRuns /\ NotRunning.at = "idle" /\ NotRunning.task = 0
      /\ NotRunning.user = 0 /\ NotRunning.customer = 0
  BY DEF NotRunning, SeedRuns, SeedPlaces
<1>3. /\ run' \in [Runs -> SeedRuns] /\ run'[p] = NotRunning
      /\ \A q \in Runs : q # p => run'[q] = run[q]
  <2> HIDE DEF SeedRuns, NotRunning
  <2> QED BY <1>1, <1>2
<1>4. /\ last' \in [Runs -> {"none", "running", "finished", "failed", "stopped"}]
      /\ last'[p] = how /\ \A q \in Runs : q # p => last'[q] = last[q]
  BY <1>1
<1>5. RowsStay /\ LivesStay /\ written' \in Seq(SeedRows) /\ RowsAreKnown' /\ OneOfEach'
      /\ StocksStay(p)
  BY ReadingKeeps DEF RowsKeep
<1>6. StockIsComing' /\ OneHandEach'
  <2>1. CASE stops' = stops /\ run[p].at # "stock"
    <3>1. NoNewDebt(p) BY <2>1, ReadingKeeps
    <3>2. NotRunning.at # "stock" BY <1>2
    <3> HIDE DEF NotRunning
    <3> QED BY <1>5, <2>1, <3>1, <3>2, DebtsStay DEF NoNewDebt
  <2>2. CASE stops' # 0
    <3>1. \A q \in Runs : \A n : Pending(q, n)' => Pending(q, n) BY <1>2, <1>3 DEF Pending
    <3> QED BY <2>2, <3>1 DEF StockIsComing, SeedInv, OneHandEach
  <2> QED BY <2>1, <2>2
<1>7. ASSUME NEW q \in Runs PROVE RunIsPlaced(q)'
  <2>1. CASE q # p BY <1>3, <1>5, <2>1, OthersKeep
  <2>2. CASE q = p
    <3>1. /\ 0 <= Len(written') /\ ~(0 > Len(Actors)) /\ ~(0 > CustomerTask)
          /\ 0 <= Len(Tasks) + 1 /\ 0 # Len(Tasks) + 1
      BY <1>1 DEF TasksLaidOut
    <3> QED BY <1>2, <1>3, <2>2, <3>1 DEF RunIsPlaced
  <2> QED BY <2>1, <2>2
<1>8. ASSUME NEW q \in Runs, edits' = 0 PROVE RunHasDone(q)'
  <2>1. CASE q # p
    <3>1. run'[q] = run[q] BY <1>3, <2>1
    <3>2. RunIsPlaced(q) /\ RunHasDone(q) BY <1>8 DEF SeedInv
    <3> QED BY <1>5, <3>1, <3>2, OthersHaveDone
  <2>2. CASE q = p
    <3>1. ~(0 > Len(Actors)) /\ \A i \in DOMAIN Tasks : ~(i < 0) BY DEF TasksLaidOut
    <3> QED BY <1>2, <1>3, <2>2, <3>1 DEF RunHasDone
  <2> QED BY <2>1, <2>2
<1>9. ASSUME NEW q \in Runs PROVE RunIsAlone(q)'
  <2>1. CASE q = p BY <1>2, <1>3, <2>1 DEF RunIsAlone
  <2>2. CASE q # p
    <3>1. RunIsAlone(q) /\ run'[q] = run[q] BY <1>3, <2>2 DEF SeedInv
    <3>2. ASSUME run[q].at # "idle", ~disturbed[q] PROVE AsItWas(q)'
      <4>1. AsItWas(q) BY <3>1, <3>2 DEF RunIsAlone
      <4>2. Task(q)' = Task(q) BY <3>1 DEF Task
      <4> QED BY <3>1, <4>1, <4>2 DEF AsItWas, Live, WithDocument, CustomersOf
    <3>3. \A s \in Runs : run[s].at = "idle" => run'[s].at = "idle" BY <1>2, <1>3
    <3> QED BY <3>1, <3>2, <3>3 DEF RunIsAlone
  <2> QED BY <2>1, <2>2
<1>10. ASSUME NEW q \in Runs PROVE RunEnds(q)'
  <2>1. \A i \in DOMAIN Tasks : Has(i) => Has(i)' BY <1>5, DoneStays
  <2>2. CASE q = p BY <1>2, <1>3, <1>4, <2>1, <2>2 DEF RunEnds
  <2>3. CASE q # p BY <1>3, <1>4, <2>1, <2>3 DEF RunEnds, SeedInv
  <2> QED BY <2>2, <2>3
<1>11. SeedTyped' BY <1>1, <1>3, <1>4, <1>5 DEF SeedTyped
<1> QED BY <1>5, <1>6, <1>7, <1>8, <1>9, <1>10, <1>11 DEF SeedInv

\* A run fails where it may.
LEMMA FailingKeeps ==
  ASSUME TasksLaidOut, SeedInv, NEW p \in Runs, run[p].at # "stock", Fails(p),
         edits = 0 => disturbed[p]
  PROVE  SeedInv'
<1>1. stops \in Nat BY DEF SeedInv, SeedTyped
<1> QED BY <1>1, RestingKeeps DEF Fails, End

\* The end of the script, behind its last task.
LEMMA FinishKeeps ==
  ASSUME TasksLaidOut, SeedInv, NEW p \in Runs, run[p].at # "idle", Finish(p)
  PROVE  SeedInv'
<1>1. stops \in Nat /\ RunIsPlaced(p) /\ Len(Tasks) \in Nat /\ DOMAIN Tasks = 1 .. Len(Tasks)
  BY DEF SeedInv, SeedTyped, TasksLaidOut
<1>2. run[p].at = "look" BY <1>1 DEF RunIsPlaced, Finish
<1>3. edits = 0 => \A i \in DOMAIN Tasks : Has(i)
  BY <1>1 DEF SeedInv, RunHasDone, Finish
<1> QED BY <1>1, <1>2, <1>3, RestingKeeps DEF Finish, End

\* A run that somebody stops may leave an item without its stock, and says so.
LEMMA StopRunKeeps ==
  ASSUME TasksLaidOut, SeedInv, NEW p \in Runs, StopRun(p)
  PROVE  SeedInv'
<1>1. stops \in Nat BY DEF SeedInv, SeedTyped
<1>2. stops' \in Nat /\ stops' # 0 BY <1>1 DEF StopRun
<1>3. /\ run' = [run EXCEPT ![p] = NotRunning] /\ last' = [last EXCEPT ![p] = "stopped"]
      /\ UNCHANGED <<written, admin, disturbed, edits>>
  BY DEF StopRun
<1> DEFINE how == "stopped"
<1>4. how \in {"finished", "failed", "stopped"} /\ how # "finished" /\ how # "failed" OBVIOUS
<1>5. last' = [last EXCEPT ![p] = how] BY <1>3
<1> HIDE DEF how
<1> QED BY <1>2, <1>3, <1>4, <1>5, RestingKeeps

\* A new row is live and empty.
LEMMA NewRowIs ==
  ASSUME NEW sheet \in SeedTables, NEW key \in SeedTexts
  PROVE  /\ NewRow(sheet, key) \in SeedRows
         /\ NewRow(sheet, key).table = sheet /\ NewRow(sheet, key).key = key
         /\ NewRow(sheet, key).live /\ NewRow(sheet, key).stock = 0
         /\ NewRow(sheet, key).user = 0 /\ NewRow(sheet, key).owner = 0
BY DEF NewRow, SeedRows, SeedTexts

\* upsertUser: it looks for the e-mail, and for the document.
LEMMA LookForUserKeeps ==
  ASSUME SeedAssumption, TasksLaidOut, SeedInv, NEW p \in Runs, Busy(p), LookForUser(p)
  PROVE  SeedInv'
<1> DEFINE to == IF Live("users", Task(p).key) = {} THEN "document" ELSE "grant"
<1>0. PICK task, i : task = Tasks[run[p].task] /\ i = run[p].task OBVIOUS
<1>1. /\ Task(p) = task /\ task.table = "users" /\ Go(p, to) /\ UNCHANGED written /\ Same
      /\ run[p].at = "look" /\ run[p].at \notin {"idle", "stock"} /\ run[p].task <= Len(Tasks)
  BY <1>0, TaskOfRun DEF LookForUser, AtTask, Busy
<1>2. RowsKeep(p) /\ NoNewDebt(p) /\ edits' = edits BY <1>1, ReadingKeeps DEF Same
<1>3. /\ to \in {"document", "insert", "grant", "read", "create"} /\ to # "create"
      /\ to # "insert" /\ to # "read"
      /\ to = "document" => Live("users", task.key) = {}
      /\ to = "grant" => Live("users", task.key) # {}
  BY <1>1
<1> HIDE DEF to
<1>4. Live("users", task.key)' = Live("users", task.key) BY <1>1 DEF Live
<1>5. edits = 0 /\ to \in {"grant", "read"} => Live("users", task.key)' # {} BY <1>3, <1>4
<1>6. to \in {"document", "insert"} => Live("users", task.key)' = {} BY <1>3, <1>4
<1> QED BY <1>0, <1>1, <1>2, <1>3, <1>5, <1>6, GoingKeeps

LEMMA CheckDocumentKeeps ==
  ASSUME SeedAssumption, TasksLaidOut, SeedInv, NEW p \in Runs, Busy(p), CheckDocument(p)
  PROVE  SeedInv'
<1>0. PICK task, i : task = Tasks[run[p].task] /\ i = run[p].task OBVIOUS
<1>1. /\ Task(p) = task /\ task.table = "users" /\ run[p].at = "document"
      /\ run[p].at \notin {"idle", "stock"} /\ run[p].task <= Len(Tasks)
      /\ i \in DOMAIN Actors /\ task.key = Actors[i].email /\ ActorOf(task.key) = Actors[i]
  BY <1>0, TaskOfRun DEF CheckDocument, AtTask, Busy
<1>2. ~disturbed[p] => Live("users", task.key) = {}
  BY <1>1 DEF SeedInv, RunIsAlone, AsItWas
<1>3. WithDocument(Actors[i].document) \subseteq Live("users", task.key)
  BY <1>1, DocumentHasEmail
<1>4. CASE WithDocument(Actors[i].document) # {}
  <2>1. Fails(p) BY <1>1, <1>4 DEF CheckDocument
  <2> QED BY <1>1, <1>2, <1>3, <1>4, <2>1, FailingKeeps
<1>5. CASE WithDocument(Actors[i].document) = {}
  <2>1. Go(p, "insert") /\ UNCHANGED written /\ Same BY <1>1, <1>5 DEF CheckDocument
  <2>2. RowsKeep(p) /\ NoNewDebt(p) /\ edits' = edits BY <1>1, <2>1, ReadingKeeps DEF Same
  <2>3. ~disturbed[p] => Live("users", task.key)' = {} BY <1>2, <2>1 DEF Live
  <2>4. WithDocument(ActorOf(task.key).document)' = {}
    <3>1. WithDocument(Actors[i].document)' = {} BY <1>5, <2>1 DEF WithDocument
    <3> QED BY <1>1, <3>1
  <2> DEFINE to == "insert"
  <2>5. /\ to \in {"document", "insert", "grant", "read", "create"} /\ to # "create"
        /\ to \notin {"grant", "read"} /\ Go(p, to)
    BY <2>1
  <2> HIDE DEF to
  <2> QED BY <1>0, <1>1, <2>1, <2>2, <2>3, <2>4, <2>5, GoingKeeps
<1> QED BY <1>4, <1>5

\* It inserts the account, unless somebody was first.
LEMMA InsertUserKeeps ==
  ASSUME SeedAssumption, TasksLaidOut, SeedInv, NEW p \in Runs, Busy(p), InsertUser(p)
  PROVE  SeedInv'
<1>0. PICK task, i : task = Tasks[run[p].task] /\ i = run[p].task OBVIOUS
<1>1. /\ Task(p) = task /\ task.table = "users" /\ run[p].at = "insert"
      /\ run[p].at \notin {"idle", "stock"} /\ run[p].task <= Len(Tasks)
      /\ i \in DOMAIN Actors /\ task.key = Actors[i].email /\ ActorOf(task.key) = Actors[i]
      /\ task.key \in SeedTexts
  BY <1>0, TaskOfRun DEF InsertUser, AtTask, Busy
<1>2. PICK rec : rec = [NewRow("users", task.key) EXCEPT !.document = Actors[i].document]
  OBVIOUS
<1>3. /\ rec \in SeedRows /\ rec.table = "users" /\ rec.key = task.key /\ rec.live
      /\ rec.document = Actors[i].document /\ rec.user = 0 /\ rec.owner = 0
  <2>1. "users" \in SeedTables BY DEF SeedTables
  <2>2. Actors[i].document \in SeedTexts BY <1>1, PeopleAreTexts
  <2>3. /\ NewRow("users", task.key) \in SeedRows /\ NewRow("users", task.key).live
        /\ NewRow("users", task.key).table = "users" /\ NewRow("users", task.key).key = task.key
        /\ NewRow("users", task.key).user = 0 /\ NewRow("users", task.key).owner = 0
    BY <1>1, <2>1, NewRowIs
  <2> QED BY <1>2, <2>2, <2>3 DEF SeedRows
<1>4. Unique(rec) <=> Live("users", task.key) \cup WithDocument(Actors[i].document) = {}
  BY <1>3 DEF Unique
<1>5. ~disturbed[p] => Unique(rec)
  <2> SUFFICES ASSUME ~disturbed[p] PROVE Unique(rec) OBVIOUS
  <2>1. Live("users", task.key) = {} /\ WithDocument(Actors[i].document) = {}
    BY <1>1 DEF SeedInv, RunIsAlone, AsItWas
  <2> QED BY <1>4, <2>1
<1>6. CASE ~Unique(rec)
  <2>1. Fails(p) BY <1>1, <1>2, <1>6 DEF InsertUser
  <2> QED BY <1>1, <1>5, <1>6, <2>1, FailingKeeps
<1>7. CASE Unique(rec)
  <2>1. Go(p, "grant") /\ written' = Append(written, rec) /\ Same
    BY <1>1, <1>2, <1>7 DEF InsertUser, Writes
  <2>2. Len(written) \in Nat BY DEF SeedInv, SeedTyped
  <2>3. IsKnown(rec, Len(written) + 1) BY <1>1, <1>3, <2>2 DEF IsKnown
  <2>4. RowsKeep(p) /\ NoNewDebt(p)
    BY <1>1, <1>3, <1>7, <2>1, <2>3, InsertingKeeps DEF Same
  <2>5. Live("users", task.key)' # {}
    <3>1. Len(written) + 1 \in DOMAIN written' /\ written'[Len(written) + 1] = rec
      BY <1>3, <2>1, RowAppended DEF SeedInv
    <3> QED BY <1>3, <3>1 DEF Live
  <2> DEFINE to == "grant"
  <2>6. /\ to \in {"document", "insert", "grant", "read", "create"} /\ Go(p, to)
        /\ to \notin {"create", "read", "document", "insert"}
    BY <2>1
  <2> HIDE DEF to
  <2> QED BY <1>0, <1>1, <2>1, <2>4, <2>5, <2>6, GoingKeeps
<1> QED BY <1>6, <1>7

\* It grants the role, and reads the account back.
LEMMA GrantRoleKeeps ==
  ASSUME SeedAssumption, TasksLaidOut, SeedInv, NEW p \in Runs, Busy(p), GrantRole(p)
  PROVE  SeedInv'
<1>0. PICK task, i : task = Tasks[run[p].task] /\ i = run[p].task OBVIOUS
<1>1. /\ Task(p) = task /\ task.table = "users" /\ run[p].at = "grant"
      /\ run[p].at \notin {"idle", "stock"} /\ run[p].task <= Len(Tasks)
      /\ i \in DOMAIN Actors /\ task.key = Actors[i].email /\ ActorOf(task.key) = Actors[i]
      /\ Tasks[i] = task
  BY <1>0, TaskOfRun DEF GrantRole, AtTask, Busy
<1>2. PICK role : role = Actors[i].role OBVIOUS
<1>3. role \in SeedTexts BY <1>1, <1>2, PeopleAreTexts
<1>4. written' = Granted(task.key, role) /\ Go(p, "read") /\ Same
  BY <1>1, <1>2 DEF GrantRole
<1>5. RowsKeep(p) /\ NoNewDebt(p) BY <1>1, <1>3, <1>4, GrantingKeeps DEF Same
<1>6. edits = 0 => Live("users", task.key)' # {} /\ Has(i)'
  <2> SUFFICES ASSUME edits = 0 PROVE Live("users", task.key)' # {} /\ Has(i)' OBVIOUS
  <2>1. PICK n : n \in Live("users", task.key) BY <1>1 DEF SeedInv, RunHasDone
  <2>2. role \in written'[n].roles BY <1>3, <1>4, <2>1, RoleGranted DEF SeedInv
  <2>3. n \in Live("users", task.key)' BY <1>5, <2>1, DoneStays DEF RowsKeep
  <2>4. ActorOf(Tasks[i].key).role \in written'[n].roles BY <1>1, <1>2, <2>2
  <2> QED BY <1>1, <2>3, <2>4 DEF Has
<1> DEFINE to == "read"
<1>7. /\ to \in {"document", "insert", "grant", "read", "create"} /\ Go(p, to)
      /\ to \notin {"create", "document", "insert"}
  BY <1>4
<1> HIDE DEF to
<1> QED BY <1>0, <1>1, <1>4, <1>5, <1>6, <1>7, GoingKeeps

LEMMA ReadUserKeeps ==
  ASSUME SeedAssumption, TasksLaidOut, SeedInv, NEW p \in Runs, Busy(p), ReadUser(p)
  PROVE  SeedInv'
<1>0. PICK task, i : task = Tasks[run[p].task] /\ i = run[p].task OBVIOUS
<1>1. /\ Task(p) = task /\ task.table = "users" /\ run[p].at = "read"
      /\ run[p].at \notin {"idle", "stock"} /\ run[p].task <= Len(Tasks)
      /\ i \in DOMAIN Actors /\ task.key = Actors[i].email /\ ActorOf(task.key) = Actors[i]
      /\ Tasks[i] = task /\ i <= Len(Actors) /\ i < CustomerTask /\ i \in DOMAIN Tasks
      /\ run[p] \in SeedRuns /\ RunIsPlaced(p)
  BY <1>0, TaskOfRun DEF ReadUser, AtTask, Busy
<1>2. edits = 0 => Has(i) /\ Live("users", task.key) # {}
  BY <1>0, <1>1 DEF SeedInv, RunHasDone
<1>3. CASE Live("users", task.key) = {}
  <2>1. Fails(p) BY <1>1, <1>3 DEF ReadUser
  <2> QED BY <1>1, <1>2, <1>3, <2>1, FailingKeeps
<1>4. CASE Live("users", task.key) # {}
  <2>1. PICK u : u = CHOOSE n \in Live("users", task.key) : TRUE OBVIOUS
  <2>2. u \in Live("users", task.key) BY <1>4, <2>1
  <2>3. u \in DOMAIN written /\ written[u].table = "users" /\ written[u].key = task.key
        /\ written[u].live /\ u \in Nat \ {0} /\ u <= Len(written)
        /\ Len(written) \in Nat
    <3>1. written \in Seq(SeedRows) BY DEF SeedInv, SeedTyped
    <3> QED BY <2>2, <3>1 DEF Live
  <2>4. PICK s : s = [run[p] EXCEPT !.user = u] OBVIOUS
  <2>5. s \in SeedRuns /\ s.task = run[p].task /\ s.user = u /\ s.customer = run[p].customer
    BY <1>1, <2>3, <2>4 DEF SeedRuns
  <2>6. NextTask(p, s) /\ UNCHANGED written /\ Same
    BY <1>1, <1>4, <2>1, <2>4 DEF ReadUser
  <2>7. RowsKeep(p) /\ NoNewDebt(p) BY <1>1, <2>6, ReadingKeeps DEF Same
  <2>8. edits = 0 => Has(i)' BY <1>1, <1>2, <2>7, DoneStays DEF RowsKeep
  <2>9. ASSUME edits = 0, i = Len(Actors) PROVE "CUSTOMER" \in written'[u].roles
    <3>1. PICK n \in Live("users", task.key) : Actors[i].role \in written[n].roles
      BY <1>1, <1>2, <2>9 DEF Has
    <3>2. n = u BY <2>3, <3>1 DEF SeedInv, OneOfEach, Live
    <3>3. Actors[i].role = "CUSTOMER" BY <2>9 DEF SeedAssumption
    <3> QED BY <2>6, <3>1, <3>2, <3>3
  <2>10. s.user <= Len(written') /\ s.customer <= Len(written')
    BY <1>1, <2>3, <2>5, <2>6 DEF RunIsPlaced
  <2>11. i = Len(Actors) => /\ s.user # 0 /\ written'[s.user].table = "users"
                            /\ written'[s.user].key = Actors[Len(Actors)].email
    BY <1>1, <2>3, <2>5, <2>6
  <2>12. /\ run[p].task = i /\ run[p].task # CustomerTask /\ run[p].task <= CustomerTask
         /\ i \in Nat
    BY <1>0, <1>1, TaskOfRun DEF TasksLaidOut
  <2> QED
    BY <1>0, <1>1, <2>5, <2>6, <2>7, <2>8, <2>9, <2>10, <2>11, <2>12, NextTaskKeeps
<1> QED BY <1>3, <1>4

\* A task of the catalogs or the vehicles is neither an account's nor the customer's.
LEMMA KeyTask ==
  ASSUME SeedAssumption, TasksLaidOut, SeedInv, NEW p \in Runs, Busy(p),
         Task(p).table \in {"services", "inventory_items", "vehicles"}
  PROVE  /\ run[p].task > Len(Actors) /\ run[p].task # Len(Actors) /\ run[p].task # CustomerTask
         /\ Task(p).table # "vehicles" => run[p].task <= CustomerTask
         /\ Task(p).table = "vehicles" => run[p].task > CustomerTask
         /\ Has(run[p].task) <=> Live(Task(p).table, Task(p).key) # {}
<1>1. run[p].task \in DOMAIN Tasks /\ Task(p) = Tasks[run[p].task] /\ run[p].task \in Nat
  BY TaskOfRun
<1>2. Len(Actors) \in Nat /\ CustomerTask \in Nat BY DEF TasksLaidOut
<1>3. /\ ~(run[p].task <= Len(Actors)) /\ run[p].task # CustomerTask
      /\ Task(p).table = "vehicles" <=> run[p].task > CustomerTask
  BY <1>1 DEF TasksLaidOut
<1>4. Has(run[p].task) <=> Live(Task(p).table, Task(p).key) # {} BY <1>1 DEF Has
<1> QED BY <1>1, <1>2, <1>3, <1>4

\* What there is already is skipped, and every task behind it is still to do.
LEMMA LookForKeyKeeps ==
  ASSUME SeedAssumption, TasksLaidOut, SeedInv, NEW p \in Runs, Busy(p), LookForKey(p)
  PROVE  SeedInv'
<1>0. PICK task, i : task = Tasks[run[p].task] /\ i = run[p].task OBVIOUS
<1>1. /\ Task(p) = task /\ task.table \in {"services", "inventory_items", "vehicles"}
      /\ run[p].at = "look" /\ run[p].at \notin {"idle", "stock"} /\ run[p].task <= Len(Tasks)
      /\ Tasks[i] = task /\ i \in DOMAIN Tasks /\ run[p] \in SeedRuns /\ RunIsPlaced(p)
      /\ UNCHANGED written /\ Same
  BY <1>0, TaskOfRun DEF LookForKey, Busy
<1>2. RowsKeep(p) /\ NoNewDebt(p) /\ edits' = edits BY <1>1, ReadingKeeps DEF Same
<1>3. CASE Live(task.table, task.key) # {}
  <2>1. PICK s : s = run[p] OBVIOUS
  <2>2. NextTask(p, s) BY <1>1, <1>3, <2>1 DEF LookForKey
  <2>3. Has(i)' BY <1>0, <1>1, <1>2, <1>3, KeyTask, DoneStays DEF RowsKeep
  <2>4. s \in SeedRuns /\ s.task = run[p].task /\ s.user = run[p].user
        /\ s.customer = run[p].customer /\ s.user <= Len(written') /\ s.customer <= Len(written')
    BY <1>1, <2>1 DEF RunIsPlaced
  <2>5. run[p].task # Len(Actors) /\ run[p].task # CustomerTask BY <1>1, KeyTask
  <2> QED BY <1>0, <1>1, <1>2, <2>2, <2>3, <2>4, <2>5, NextTaskKeeps
<1>4. CASE Live(task.table, task.key) = {}
  <2>1. Go(p, "create") BY <1>1, <1>4 DEF LookForKey
  <2>2. Live(task.table, task.key)' = {} BY <1>1, <1>4 DEF Live
  <2> DEFINE to == "create"
  <2>3. /\ to \in {"document", "insert", "grant", "read", "create"} /\ Go(p, to)
        /\ to \notin {"grant", "read", "document", "insert"} /\ to = "create"
    BY <2>1
  <2>4. task.table # "users" /\ task.table # "customers" BY <1>1
  <2> HIDE DEF to
  <2> QED BY <1>0, <1>1, <1>2, <2>2, <2>3, <2>4, GoingKeeps
<1> QED BY <1>3, <1>4

\* A service is done as soon as it is there.
LEMMA SeedServiceKeeps ==
  ASSUME SeedAssumption, TasksLaidOut, SeedInv, NEW p \in Runs, Busy(p), SeedService(p)
  PROVE  SeedInv'
<1>0. PICK task, i : task = Tasks[run[p].task] /\ i = run[p].task OBVIOUS
<1>1. /\ Task(p) = task /\ task.table = "services" /\ task.key \in SeedTexts
      /\ run[p].at = "create" /\ run[p].at \notin {"idle", "stock"} /\ run[p].task <= Len(Tasks)
      /\ Tasks[i] = task /\ i \in DOMAIN Tasks /\ run[p] \in SeedRuns /\ RunIsPlaced(p)
  BY <1>0, TaskOfRun DEF SeedService, AtTask, Busy
<1>2. PICK rec : rec = NewRow("services", task.key) OBVIOUS
<1>3. /\ rec \in SeedRows /\ rec.table = "services" /\ rec.key = task.key /\ rec.live
      /\ rec.user = 0 /\ rec.owner = 0
  <2>1. "services" \in SeedTables BY DEF SeedTables
  <2> QED BY <1>1, <1>2, <2>1, NewRowIs
<1>4. Unique(rec) <=> Live("services", task.key) = {} BY <1>3 DEF Unique
<1>5. ~disturbed[p] => Unique(rec) BY <1>1, <1>4 DEF SeedInv, RunIsAlone, AsItWas
<1>6. CASE ~Unique(rec)
  <2>1. Fails(p) BY <1>1, <1>2, <1>6 DEF SeedService
  <2> QED BY <1>1, <1>5, <1>6, <2>1, FailingKeeps
<1>7. CASE Unique(rec)
  <2>1. PICK s : s = run[p] OBVIOUS
  <2>2. NextTask(p, s) /\ written' = Append(written, rec) /\ Same
    BY <1>1, <1>2, <1>7, <2>1 DEF SeedService, Writes
  <2>3. Len(written) \in Nat BY DEF SeedInv, SeedTyped
  <2>4. IsKnown(rec, Len(written) + 1) BY <1>3, <2>3 DEF IsKnown
  <2>5. RowsKeep(p) /\ NoNewDebt(p)
    BY <1>1, <1>3, <1>7, <2>2, <2>4, InsertingKeeps DEF Same
  <2>6. /\ Len(written) + 1 \in DOMAIN written' /\ written'[Len(written) + 1] = rec
        /\ Len(written') = Len(written) + 1
    BY <1>3, <2>2, RowAppended DEF SeedInv
  <2>7. Live(task.table, task.key)' # {} BY <1>1, <1>3, <2>6 DEF Live
  <2>8. Has(i)' BY <1>1, <2>7 DEF Has
  <2>9. s \in SeedRuns /\ s.task = run[p].task /\ s.user = run[p].user
        /\ s.customer = run[p].customer /\ s.user <= Len(written') /\ s.customer <= Len(written')
    BY <1>1, <2>1, <2>3, <2>6 DEF RunIsPlaced, SeedRuns
  <2>10. run[p].task # Len(Actors) /\ run[p].task # CustomerTask BY <1>1, KeyTask
  <2> QED BY <1>0, <1>1, <2>2, <2>5, <2>8, <2>9, <2>10, NextTaskKeeps
<1> QED BY <1>6, <1>7

\* A new item has no stock yet, and the run that made it owes it.
LEMMA SeedItemKeeps ==
  ASSUME SeedAssumption, TasksLaidOut, SeedInv, NEW p \in Runs, Busy(p), SeedItem(p)
  PROVE  SeedInv'
<1>0. PICK task, i : task = Tasks[run[p].task] /\ i = run[p].task OBVIOUS
<1>1. /\ Task(p) = task /\ task.table = "inventory_items" /\ task.key \in SeedTexts
      /\ run[p].at = "create" /\ run[p].at # "idle" /\ run[p].at # "stock"
      /\ run[p].task <= Len(Tasks) /\ run[p].task \in Nat
      /\ Tasks[i] = task /\ i \in DOMAIN Tasks /\ run[p] \in SeedRuns /\ RunIsPlaced(p)
  BY <1>0, TaskOfRun DEF SeedItem, AtTask, Busy
<1>2. PICK rec : rec = NewRow("inventory_items", task.key) OBVIOUS
<1>3. /\ rec \in SeedRows /\ rec.table = "inventory_items" /\ rec.key = task.key /\ rec.live
      /\ rec.user = 0 /\ rec.owner = 0 /\ rec.stock = 0
  <2>1. "inventory_items" \in SeedTables BY DEF SeedTables
  <2> QED BY <1>1, <1>2, <2>1, NewRowIs
<1>4. Unique(rec) <=> Live("inventory_items", task.key) = {} BY <1>3 DEF Unique
<1>5. ~disturbed[p] => Unique(rec) BY <1>1, <1>4 DEF SeedInv, RunIsAlone, AsItWas
<1>6. CASE ~Unique(rec)
  <2>1. Fails(p) BY <1>1, <1>2, <1>6 DEF SeedItem
  <2> QED BY <1>1, <1>5, <1>6, <2>1, FailingKeeps
<1>7. CASE Unique(rec)
  <2> DEFINE r == [run[p] EXCEPT !.at = "stock", !.found = Len(written) + 1]
  <2>1. /\ written' = Append(written, rec) /\ Same
        /\ run' = [run EXCEPT ![p].at = "stock", ![p].found = Len(written) + 1]
    BY <1>1, <1>2, <1>7 DEF SeedItem, Writes
  <2>2. Len(written) \in Nat /\ run \in [Runs -> SeedRuns] BY DEF SeedInv, SeedTyped
  <2>3. run' = [run EXCEPT ![p] = r] BY <2>1, <2>2
  <2>4. /\ r \in SeedRuns /\ r.at = "stock" /\ r.found = Len(written) + 1
        /\ r.task = run[p].task /\ r.user = run[p].user /\ r.customer = run[p].customer
    <3>1. Len(written) + 1 \in Nat /\ "stock" \in SeedPlaces BY <2>2 DEF SeedPlaces
    <3>2. r \in SeedRuns BY <1>1, <3>1 DEF SeedRuns
    <3>3. r.at = "stock" /\ r.found = Len(written) + 1 BY <1>1 DEF SeedRuns
    <3>4. r.task = run[p].task /\ r.user = run[p].user /\ r.customer = run[p].customer
      BY <1>1 DEF SeedRuns
    <3> QED BY <3>2, <3>3, <3>4
  <2> HIDE DEF r
  <2>5. run'[p] = r /\ \A q \in Runs : q # p => run'[q] = run[q] BY <2>2, <2>3
  <2>6. IsKnown(rec, Len(written) + 1)
    <3>1. \E j \in DOMAIN INVENTORY : task.key = INVENTORY[j] BY <1>1 DEF TasksLaidOut
    <3> QED BY <1>3, <2>2, <3>1 DEF IsKnown
  <2>7. RowsKeep(p) BY <1>3, <1>7, <2>1, <2>6, InsertingKeeps DEF Same
  <2>8. /\ DOMAIN written' = DOMAIN written \cup {Len(written) + 1}
        /\ written'[Len(written) + 1] = rec /\ Len(written') = Len(written) + 1
        /\ Len(written) + 1 \notin DOMAIN written
        /\ \A n \in DOMAIN written : written'[n] = written[n]
    BY <1>3, <2>1, RowAppended DEF SeedInv
  <2>9. \A q \in Runs : \A n : Pending(q, n)' <=> IF q = p THEN n = Len(written) + 1
                                                          ELSE Pending(q, n)
    BY <2>4, <2>5 DEF Pending
  <2>10. StockIsComing'
    <3> SUFFICES ASSUME stops' = 0, NEW n \in DOMAIN written',
                        written'[n].table = "inventory_items",
                        written'[n].stock # OpeningStock[written'[n].key]
                 PROVE  \E q \in Runs : Pending(q, n)'
      BY DEF StockIsComing
    <3>1. CASE n = Len(written) + 1 BY <2>9, <3>1
    <3>2. CASE n \in DOMAIN written
      <4>1. PICK q \in Runs : Pending(q, n)
        BY <2>1, <2>8, <3>2 DEF SeedInv, StockIsComing, Same
      <4>2. q # p BY <1>1, <4>1 DEF Pending
      <4> QED BY <2>9, <4>1, <4>2
    <3> QED BY <2>8, <3>1, <3>2
  <2>11. OneHandEach'
    <3> SUFFICES ASSUME NEW q \in Runs, NEW s \in Runs, NEW n \in DOMAIN written',
                        Pending(q, n)', Pending(s, n)'
                 PROVE  q = s
      BY DEF OneHandEach
    <3>1. \A t \in Runs : Pending(t, n) => n \in DOMAIN written
      BY DEF SeedInv, RunIsPlaced, Pending
    <3>2. Pending(q, n) /\ Pending(s, n) => q = s BY <3>1 DEF SeedInv, OneHandEach
    <3> QED BY <2>8, <2>9, <3>1, <3>2
  <2>12. RunIsPlaced(p)'
    <3>1. Task(p)' = task BY <1>0, <2>4, <2>5 DEF Task
    <3>2. /\ r.task > 0 /\ r.task <= Len(Tasks) + 1 /\ r.task # Len(Tasks) + 1
          /\ r.user <= Len(written') /\ r.customer <= Len(written')
          /\ r.task > CustomerTask => r.customer # 0
      <4>1. Len(Tasks) \in Nat /\ run[p].user \in Nat /\ run[p].customer \in Nat
        BY <1>1 DEF TasksLaidOut, SeedRuns
      <4> QED BY <1>1, <2>2, <2>4, <2>8, <4>1 DEF RunIsPlaced
    <3>3. r.task > Len(Actors) => /\ r.user # 0 /\ written'[r.user].table = "users"
                                  /\ written'[r.user].key = Actors[Len(Actors)].email
      <4> SUFFICES ASSUME r.task > Len(Actors)
                   PROVE  /\ r.user # 0 /\ written'[r.user].table = "users"
                          /\ written'[r.user].key = Actors[Len(Actors)].email
        OBVIOUS
      <4>1. /\ r.user # 0 /\ written[r.user].table = "users" /\ r.user <= Len(written)
            /\ written[r.user].key = Actors[Len(Actors)].email
        BY <1>1, <2>4 DEF RunIsPlaced
      <4>2. r.user \in Nat /\ DOMAIN written = 1 .. Len(written)
        BY <2>4 DEF SeedRuns, SeedInv, SeedTyped
      <4>3. r.user \in DOMAIN written BY <2>2, <4>1, <4>2
      <4> QED BY <2>8, <4>1, <4>3
    <3> QED BY <1>1, <1>3, <2>4, <2>5, <2>8, <3>1, <3>2, <3>3 DEF RunIsPlaced
  <2>13. edits = 0 => RunHasDone(p)'
    <3> SUFFICES ASSUME edits = 0 PROVE RunHasDone(p)' OBVIOUS
    <3>1. RunHasDone(p) BY DEF SeedInv
    <3>2. \A j \in DOMAIN Tasks : j < run[p].task => Has(j)'
      BY <2>7, <3>1, DoneStays DEF RunHasDone, RowsKeep
    <3>3. run[p].task > Len(Actors) => "CUSTOMER" \in written'[run[p].user].roles
      <4> SUFFICES ASSUME run[p].task > Len(Actors)
                   PROVE  "CUSTOMER" \in written'[run[p].user].roles
        OBVIOUS
      <4>1. "CUSTOMER" \in written[run[p].user].roles /\ run[p].user # 0
            /\ run[p].user <= Len(written)
        BY <1>1, <3>1 DEF RunHasDone, RunIsPlaced
      <4>2. run[p].user \in Nat /\ DOMAIN written = 1 .. Len(written)
        BY <1>1 DEF SeedRuns, SeedInv, SeedTyped
      <4>3. run[p].user \in DOMAIN written BY <2>2, <4>1, <4>2
      <4> QED BY <2>8, <4>1, <4>3
    <3> QED BY <2>4, <2>5, <3>2, <3>3 DEF RunHasDone
  <2>14. AsItWas(p)' BY <2>4, <2>5 DEF AsItWas
  <2>15. r.at # "idle" BY <2>4
  <2> QED
    BY <1>1, <2>1, <2>3, <2>4, <2>7, <2>10, <2>11, <2>12, <2>13, <2>14, <2>15, StepKeeps
    DEF RowsKeep
<1> QED BY <1>6, <1>7

\* The opening stock goes to the item that this run created, once.
LEMMA ReplenishOpeningKeeps ==
  ASSUME SeedAssumption, TasksLaidOut, SeedInv, NEW p \in Runs, Busy(p), ReplenishOpening(p)
  PROVE  SeedInv'
<1>0. PICK task, i, m : task = Tasks[run[p].task] /\ i = run[p].task /\ m = run[p].found OBVIOUS
<1>1. /\ Task(p) = task /\ task.table = "inventory_items" /\ run[p].at = "stock"
      /\ run[p].at # "idle" /\ run[p].task <= Len(Tasks)
      /\ Tasks[i] = task /\ i \in DOMAIN Tasks /\ run[p] \in SeedRuns /\ RunIsPlaced(p)
  BY <1>0, TaskOfRun DEF ReplenishOpening, AtTask, Busy
<1>2. /\ m \in DOMAIN written /\ written[m].table = "inventory_items" /\ written[m].key = task.key
      /\ written[m].stock = 0
  BY <1>0, <1>1 DEF RunIsPlaced
<1>3. /\ written \in Seq(SeedRows) /\ Len(written) \in Nat /\ DOMAIN written = 1 .. Len(written)
      /\ written[m] \in SeedRows
  BY <1>2 DEF SeedInv, SeedTyped
<1>4. OpeningStock[task.key] \in Nat
  <2>1. PICK j \in DOMAIN INVENTORY : task.key = INVENTORY[j] BY <1>1 DEF TasksLaidOut
  <2> QED BY <2>1 DEF SeedAssumption
<1>5. PICK rec : rec = [written[m] EXCEPT !.stock = OpeningStock[task.key]] OBVIOUS
<1>6. /\ rec \in SeedRows /\ rec.stock = OpeningStock[task.key] /\ rec.table = written[m].table
      /\ rec.key = written[m].key /\ rec.document = written[m].document
      /\ rec.roles = written[m].roles /\ rec.user = written[m].user
      /\ rec.owner = written[m].owner /\ rec.live = written[m].live
  BY <1>3, <1>4, <1>5 DEF SeedRows
<1>7. written' = [written EXCEPT ![m] = rec] /\ Same /\ edits' = edits
  <2>1. /\ written' = [written EXCEPT ![m].stock = @ + OpeningStock[task.key]] /\ Same
    BY <1>0, <1>1 DEF ReplenishOpening
  <2>2. written[m].stock + OpeningStock[task.key] = OpeningStock[task.key] BY <1>2, <1>4
  <2>3. rec = [written[m] EXCEPT !.stock = written[m].stock + OpeningStock[task.key]]
    BY <1>5, <2>2
  <2> QED BY <2>1, <2>3 DEF Same
<1>8. /\ written' \in Seq(SeedRows) /\ Len(written') = Len(written)
      /\ DOMAIN written' = DOMAIN written /\ written'[m] = rec
      /\ \A n \in DOMAIN written : n # m => written'[n] = written[n]
  <2> HIDE DEF SeedRows
  <2> QED BY <1>2, <1>3, <1>6, <1>7
<1>9. RowsStay /\ LivesStay
  <2>1. ASSUME NEW n \in DOMAIN written
        PROVE  /\ n \in DOMAIN written' /\ written[n].roles \subseteq written'[n].roles
               /\ written'[n].table = written[n].table /\ written'[n].key = written[n].key
               /\ written'[n].document = written[n].document /\ written'[n].live = written[n].live
               /\ written'[n].user = written[n].user /\ written'[n].owner = written[n].owner
    <3>1. CASE n = m BY <1>6, <1>8, <3>1
    <3>2. CASE n # m BY <1>8, <3>2
    <3> QED BY <3>1, <3>2
  <2>2. Len(written) <= Len(written') BY <1>3, <1>8
  <2> QED BY <2>1, <2>2 DEF RowsStay, LivesStay
<1>10. RowsAreKnown' /\ OneOfEach'
  <2>1. \A n \in DOMAIN written : \/ written'[n].stock = written[n].stock
                                  \/ written'[n].stock = OpeningStock[written[n].key]
    BY <1>2, <1>6, <1>8
  <2> QED BY <1>7, <1>8, <1>9, <2>1, KnownStay
<1>11. StocksStay(p)
  <2>1. Pending(p, m) BY <1>0, <1>1 DEF Pending
  <2> QED BY <1>8, <2>1 DEF StocksStay
<1>12. NoNewDebt(p)
  <2>1. \A n : Pending(p, n) => n = m BY <1>0 DEF Pending
  <2> QED BY <1>2, <1>6, <1>8, <2>1 DEF NoNewDebt
<1>13. PICK s : s = run[p] OBVIOUS
<1>14. NextTask(p, s) BY <1>13 DEF ReplenishOpening
<1>15. s \in SeedRuns /\ s.task = run[p].task /\ s.user = run[p].user
       /\ s.customer = run[p].customer /\ s.user <= Len(written') /\ s.customer <= Len(written')
  BY <1>1, <1>8, <1>13 DEF RunIsPlaced
<1>16. edits = 0 => Has(i)'
  <2> SUFFICES ASSUME edits = 0 PROVE Has(i)' OBVIOUS
  <2>1. written[m].live BY <1>2 DEF SeedInv, RowsAreKnown
  <2>2. m \in Live(task.table, task.key) BY <1>1, <1>2, <2>1 DEF Live
  <2>3. Has(i) BY <1>0, <1>1, <2>2, KeyTask
  <2> QED BY <1>1, <1>9, <2>3, DoneStays
<1>17. run[p].task # Len(Actors) /\ run[p].task # CustomerTask BY <1>1, KeyTask
<1>18. RowsKeep(p) BY <1>8, <1>9, <1>10, <1>11 DEF RowsKeep
<1> QED BY <1>0, <1>1, <1>7, <1>12, <1>14, <1>15, <1>16, <1>17, <1>18, NextTaskKeeps

\* The account of a run that is past the accounts is on the table.
LEMMA AccountIsThere ==
  ASSUME TasksLaidOut, SeedInv, NEW p \in Runs, run[p].task > Len(Actors)
  PROVE  /\ run[p].user \in DOMAIN written /\ run[p].user <= Len(written) /\ run[p].user \in Nat
         /\ edits = 0 => "CUSTOMER" \in written[run[p].user].roles
<1>1. run[p] \in SeedRuns /\ RunIsPlaced(p) BY DEF SeedInv, SeedTyped
<1>2. DOMAIN written = 1 .. Len(written) /\ Len(written) \in Nat BY DEF SeedInv, SeedTyped
<1>3. run[p].user \in Nat /\ run[p].user # 0 /\ run[p].user <= Len(written)
  BY <1>1 DEF SeedRuns, RunIsPlaced
<1>4. edits = 0 => "CUSTOMER" \in written[run[p].user].roles BY DEF SeedInv, RunHasDone
<1> QED BY <1>2, <1>3, <1>4

\* The task of the customer is none of another table.
LEMMA CustomersTask ==
  ASSUME SeedAssumption, TasksLaidOut, SeedInv, NEW p \in Runs, Busy(p),
         Task(p).table = "customers"
  PROVE  /\ run[p].task = CustomerTask /\ run[p].task > Len(Actors) /\ run[p].task # Len(Actors)
         /\ run[p].task <= CustomerTask
<1>1. run[p].task \in DOMAIN Tasks /\ Task(p) = Tasks[run[p].task] /\ run[p].task \in Nat
  BY TaskOfRun
<1>2. Len(Actors) \in Nat /\ CustomerTask \in Nat /\ Len(Actors) < CustomerTask
      /\ run[p].task = CustomerTask
  BY <1>1 DEF TasksLaidOut
<1> QED BY <1>2

\* seedCustomerAndVehicles: the customer of the account, as it is or registered.
LEMMA LookForCustomerKeeps ==
  ASSUME SeedAssumption, TasksLaidOut, SeedInv, NEW p \in Runs, Busy(p), LookForCustomer(p)
  PROVE  SeedInv'
<1>0. PICK task, i, u : task = Tasks[run[p].task] /\ i = run[p].task /\ u = run[p].user OBVIOUS
<1>1. /\ Task(p) = task /\ task.table = "customers" /\ run[p].at = "look"
      /\ run[p].at \notin {"idle", "stock"} /\ run[p].task <= Len(Tasks)
      /\ Tasks[i] = task /\ i \in DOMAIN Tasks /\ run[p] \in SeedRuns /\ RunIsPlaced(p)
      /\ UNCHANGED written /\ Same
  BY <1>0, TaskOfRun DEF LookForCustomer, AtTask, Busy
<1>2. RowsKeep(p) /\ NoNewDebt(p) /\ edits' = edits BY <1>1, ReadingKeeps DEF Same
<1>3. PICK live : live = {n \in CustomersOf(u) : written[n].live} OBVIOUS
<1>4. /\ run[p].task = CustomerTask /\ run[p].task > Len(Actors) /\ run[p].task # Len(Actors)
      /\ run[p].task <= CustomerTask
  BY <1>1, CustomersTask
<1>5. CASE live # {}
  <2>1. PICK c : c = CHOOSE n \in live : TRUE OBVIOUS
  <2>2. c \in live BY <1>5, <2>1
  <2>3. c \in Nat \ {0} /\ c <= Len(written) /\ Len(written) \in Nat
    <3>1. DOMAIN written = 1 .. Len(written) /\ Len(written) \in Nat BY DEF SeedInv, SeedTyped
    <3> QED BY <1>3, <2>2, <3>1 DEF CustomersOf
  <2>4. PICK s : s = [run[p] EXCEPT !.customer = c] OBVIOUS
  <2>5. s \in SeedRuns /\ s.task = run[p].task /\ s.customer = c /\ s.user = run[p].user
    BY <1>1, <2>3, <2>4 DEF SeedRuns
  <2>6. NextTask(p, s) BY <1>0, <1>3, <1>5, <2>1, <2>4 DEF LookForCustomer
  <2>7. s.user <= Len(written') /\ s.customer <= Len(written') /\ s.customer # 0
    BY <1>1, <2>3, <2>5 DEF RunIsPlaced
  <2>8. Has(i)' BY <1>1 DEF Has
  <2> QED BY <1>0, <1>1, <1>2, <1>4, <2>5, <2>6, <2>7, <2>8, NextTaskKeeps
<1>6. CASE live = {}
  <2>1. Go(p, "create") BY <1>0, <1>3, <1>6 DEF LookForCustomer
  <2>2. edits = 0 => CustomersOf(u)' = {}
    <3> SUFFICES ASSUME edits = 0 PROVE CustomersOf(u)' = {} OBVIOUS
    <3>1. \A n \in CustomersOf(u) : written[n].live BY DEF SeedInv, RowsAreKnown, CustomersOf
    <3>2. CustomersOf(u) = {} BY <1>3, <1>6, <3>1
    <3> QED BY <1>1, <3>2 DEF CustomersOf
  <2>3. edits = 0 => CustomersOf(run[p].user)' = {}
    <3>1. run'[p].user = u
      <4>1. run \in [Runs -> SeedRuns] BY DEF SeedInv, SeedTyped
      <4> QED BY <1>0, <1>1, <2>1, <4>1 DEF Go, SeedRuns
    <3> QED BY <2>2, <3>1 DEF CustomersOf
  <2> DEFINE to == "create"
  <2>4. /\ to \in {"document", "insert", "grant", "read", "create"} /\ Go(p, to)
        /\ to \notin {"grant", "read", "document", "insert"} /\ to = "create"
    BY <2>1
  <2>5. task.table # "users" BY <1>1
  <2> HIDE DEF to
  <2> QED BY <1>0, <1>1, <1>2, <2>3, <2>4, <2>5, GoingKeeps
<1> QED BY <1>5, <1>6

LEMMA RegisterCustomerKeeps ==
  ASSUME SeedAssumption, TasksLaidOut, SeedInv, NEW p \in Runs, Busy(p), RegisterCustomer(p)
  PROVE  SeedInv'
<1>0. PICK task, i, u : task = Tasks[run[p].task] /\ i = run[p].task /\ u = run[p].user OBVIOUS
<1>1. /\ Task(p) = task /\ task.table = "customers" /\ run[p].at = "create"
      /\ run[p].at \notin {"idle", "stock"} /\ run[p].task <= Len(Tasks)
      /\ Tasks[i] = task /\ i \in DOMAIN Tasks /\ run[p] \in SeedRuns /\ RunIsPlaced(p)
  BY <1>0, TaskOfRun DEF RegisterCustomer, AtTask, Busy
<1>2. /\ run[p].task = CustomerTask /\ run[p].task > Len(Actors) /\ run[p].task # Len(Actors)
      /\ run[p].task <= CustomerTask
  BY <1>1, CustomersTask
<1>3. /\ u \in DOMAIN written /\ u <= Len(written) /\ u \in Nat
      /\ edits = 0 => "CUSTOMER" \in written[u].roles
  BY <1>0, <1>2, AccountIsThere
<1>4. PICK rec : rec = [NewRow("customers", "") EXCEPT !.user = u] OBVIOUS
<1>5. /\ rec \in SeedRows /\ rec.table = "customers" /\ rec.live /\ rec.user = u /\ rec.owner = 0
  <2>1. "customers" \in SeedTables /\ "" \in SeedTexts BY DEF SeedTables, SeedTexts
  <2> DEFINE new == NewRow("customers", "")
  <2>2. new \in SeedRows /\ new.table = "customers" /\ new.live /\ new.owner = 0
    BY <2>1, NewRowIs
  <2> HIDE DEF new
  <2>3. rec = [new EXCEPT !.user = u] BY <1>4 DEF new
  <2> QED BY <1>3, <2>2, <2>3 DEF SeedRows
<1>6. Unique(rec) <=> CustomersOf(u) = {} BY <1>5 DEF Unique
<1>7. PICK ready : ready <=> written[u].live /\ "CUSTOMER" \in written[u].roles /\ Unique(rec)
  OBVIOUS
<1>8. edits = 0 /\ ~disturbed[p] => ready
  <2> SUFFICES ASSUME edits = 0, ~disturbed[p] PROVE ready OBVIOUS
  <2>1. CustomersOf(u) = {} BY <1>0, <1>1 DEF SeedInv, RunIsAlone, AsItWas
  <2>2. written[u].live BY <1>3 DEF SeedInv, RowsAreKnown
  <2> QED BY <1>3, <1>6, <1>7, <2>1, <2>2
<1>9. CASE ~ready
  <2>1. Fails(p) BY <1>0, <1>4, <1>7, <1>9 DEF RegisterCustomer
  <2> QED BY <1>1, <1>8, <1>9, <2>1, FailingKeeps
<1>10. CASE ready
  <2>0. Len(written) \in Nat BY DEF SeedInv, SeedTyped
  <2>1. PICK s : s = [run[p] EXCEPT !.customer = Len(written) + 1] OBVIOUS
  <2>2. s \in SeedRuns /\ s.task = run[p].task /\ s.customer = Len(written) + 1
        /\ s.user = run[p].user
    BY <1>1, <2>0, <2>1 DEF SeedRuns
  <2>3. NextTask(p, s) /\ written' = Append(written, rec) /\ Same
    BY <1>0, <1>4, <1>7, <1>10, <2>1 DEF RegisterCustomer, Writes
  <2>4. IsKnown(rec, Len(written) + 1) BY <1>3, <1>5, <2>0 DEF IsKnown
  <2>5. RowsKeep(p) /\ NoNewDebt(p)
    BY <1>1, <1>5, <1>7, <1>10, <2>3, <2>4, InsertingKeeps DEF Same
  <2>6. Len(written') = Len(written) + 1 BY <1>5, <2>3, RowAppended DEF SeedInv
  <2>7. s.user <= Len(written') /\ s.customer <= Len(written') /\ s.customer # 0
    BY <1>0, <1>3, <2>0, <2>2, <2>6
  <2>8. Has(i)' BY <1>1 DEF Has
  <2> QED BY <1>0, <1>1, <1>2, <2>2, <2>3, <2>5, <2>7, <2>8, NextTaskKeeps
<1> QED BY <1>9, <1>10

\* The vehicle, whose owner is the customer at hand.
LEMMA RegisterVehicleKeeps ==
  ASSUME SeedAssumption, TasksLaidOut, SeedInv, NEW p \in Runs, Busy(p), RegisterVehicle(p)
  PROVE  SeedInv'
<1>0. PICK task, i, c : task = Tasks[run[p].task] /\ i = run[p].task /\ c = run[p].customer
  OBVIOUS
<1>1. /\ Task(p) = task /\ task.table = "vehicles" /\ task.key \in SeedTexts
      /\ run[p].at = "create" /\ run[p].at \notin {"idle", "stock"} /\ run[p].task <= Len(Tasks)
      /\ Tasks[i] = task /\ i \in DOMAIN Tasks /\ run[p] \in SeedRuns /\ RunIsPlaced(p)
  BY <1>0, TaskOfRun DEF RegisterVehicle, AtTask, Busy
<1>2. run[p].task # Len(Actors) /\ run[p].task # CustomerTask /\ run[p].task > CustomerTask
  BY <1>1, KeyTask
<1>3. /\ c \in DOMAIN written /\ c <= Len(written) /\ c \in Nat \ {0} /\ Len(written) \in Nat
      /\ edits = 0 => written[c].live
  <2>1. DOMAIN written = 1 .. Len(written) /\ Len(written) \in Nat BY DEF SeedInv, SeedTyped
  <2>2. c \in Nat /\ c # 0 /\ c <= Len(written) BY <1>0, <1>1, <1>2 DEF RunIsPlaced, SeedRuns
  <2>3. c \in DOMAIN written BY <2>1, <2>2
  <2> QED BY <2>1, <2>2, <2>3 DEF SeedInv, RowsAreKnown
<1>4. PICK rec : rec = [NewRow("vehicles", task.key) EXCEPT !.owner = c] OBVIOUS
<1>5. /\ rec \in SeedRows /\ rec.table = "vehicles" /\ rec.live /\ rec.user = 0 /\ rec.owner = c
      /\ rec.key = task.key
  <2>1. "vehicles" \in SeedTables BY DEF SeedTables
  <2> DEFINE new == NewRow("vehicles", task.key)
  <2>2. new \in SeedRows /\ new.table = "vehicles" /\ new.live /\ new.user = 0 /\ new.key = task.key
    BY <1>1, <2>1, NewRowIs
  <2> HIDE DEF new
  <2>3. rec = [new EXCEPT !.owner = c] BY <1>4 DEF new
  <2> QED BY <1>3, <2>2, <2>3 DEF SeedRows
<1>6. Unique(rec) <=> Live("vehicles", task.key) = {} BY <1>5 DEF Unique
<1>7. PICK ready : ready <=> written[c].live /\ Unique(rec) OBVIOUS
<1>8. edits = 0 /\ ~disturbed[p] => ready
  <2> SUFFICES ASSUME edits = 0, ~disturbed[p] PROVE ready OBVIOUS
  <2>1. Live("vehicles", task.key) = {} BY <1>1 DEF SeedInv, RunIsAlone, AsItWas
  <2> QED BY <1>3, <1>6, <1>7, <2>1
<1>9. CASE ~ready
  <2>1. Fails(p) BY <1>0, <1>1, <1>4, <1>7, <1>9 DEF RegisterVehicle
  <2> QED BY <1>1, <1>8, <1>9, <2>1, FailingKeeps
<1>10. CASE ready
  <2>1. PICK s : s = run[p] OBVIOUS
  <2>2. NextTask(p, s) /\ written' = Append(written, rec) /\ Same
    BY <1>0, <1>1, <1>4, <1>7, <1>10, <2>1 DEF RegisterVehicle, Writes
  <2>3. IsKnown(rec, Len(written) + 1) BY <1>3, <1>5 DEF IsKnown
  <2>4. RowsKeep(p) /\ NoNewDebt(p)
    BY <1>1, <1>5, <1>7, <1>10, <2>2, <2>3, InsertingKeeps DEF Same
  <2>5. /\ Len(written) + 1 \in DOMAIN written' /\ written'[Len(written) + 1] = rec
        /\ Len(written') = Len(written) + 1
    BY <1>5, <2>2, RowAppended DEF SeedInv
  <2>6. Live(task.table, task.key)' # {} BY <1>1, <1>5, <2>5 DEF Live
  <2>7. Has(i)' BY <1>1, <2>6 DEF Has
  <2>8. s \in SeedRuns /\ s.task = run[p].task /\ s.user = run[p].user
        /\ s.customer = run[p].customer /\ s.user <= Len(written') /\ s.customer <= Len(written')
    BY <1>1, <1>3, <2>1, <2>5 DEF RunIsPlaced, SeedRuns
  <2> QED BY <1>0, <1>1, <1>2, <2>2, <2>4, <2>7, <2>8, NextTaskKeeps
<1> QED BY <1>9, <1>10

-------------------------------------------------------------------------------
(* Those who start runs, and those who write beside them. *)

\* A run that starts disturbs those that work, and is disturbed by them.
LEMMA StartRunKeeps ==
  ASSUME TasksLaidOut, SeedInv, NEW p \in Runs, StartRun(p)
  PROVE  SeedInv'
<1> DEFINE r == [NotRunning EXCEPT !.task = 1, !.at = "look"]
<1>1. /\ SeedTyped /\ run \in [Runs -> SeedRuns] /\ disturbed \in [Runs -> BOOLEAN]
      /\ last \in [Runs -> {"none", "running", "finished", "failed", "stopped"}]
      /\ Len(written) \in Nat
  BY DEF SeedInv, SeedTyped
<1>2. /\ r \in SeedRuns /\ r.at = "look" /\ r.task = 1 /\ r.user = 0 /\ r.customer = 0
      /\ NotRunning.at = "idle"
  BY DEF NotRunning, SeedRuns, SeedPlaces
<1>3. /\ run' = [run EXCEPT ![p] = r] /\ last' = [last EXCEPT ![p] = "running"]
      /\ run[p] = NotRunning /\ UNCHANGED <<written, admin, edits, stops>>
      /\ disturbed' = [q \in Runs |-> IF q = p THEN Running # {} \/ admin = "granting"
                                      ELSE disturbed[q] \/ run[q] # NotRunning]
  BY DEF StartRun
<1> HIDE DEF r
<1>4. /\ run' \in [Runs -> SeedRuns] /\ run'[p] = r
      /\ \A q \in Runs : q # p => run'[q] = run[q]
  <2> HIDE DEF SeedRuns
  <2> QED BY <1>1, <1>2, <1>3
<1>5. /\ last' \in [Runs -> {"none", "running", "finished", "failed", "stopped"}]
      /\ last'[p] = "running" /\ \A q \in Runs : q # p => last'[q] = last[q]
  BY <1>1, <1>3
<1>6. /\ \A q \in Runs : q # p => disturbed'[q] = (disturbed[q] \/ run[q] # NotRunning)
      /\ disturbed'[p] = (Running # {} \/ admin = "granting")
  BY <1>3
<1>7. disturbed' \in [Runs -> BOOLEAN] BY <1>1, <1>3, Zenon
<1>8. RowsKeep(p) /\ NoNewDebt(p)
  <2>1. run[p].at # "stock" BY <1>2, <1>3
  <2> QED BY <1>3, <2>1, ReadingKeeps
<1>9. StockIsComing' /\ OneHandEach'
  <2>1. r.at # "stock" BY <1>2
  <2> QED BY <1>3, <1>8, <2>1, DebtsStay DEF NoNewDebt, RowsKeep
<1>10. 1 <= Len(Tasks) + 1 /\ ~(1 > Len(Actors)) /\ ~(1 > CustomerTask) /\ 1 > 0
       /\ \A i \in DOMAIN Tasks : ~(i < 1)
  BY DEF TasksLaidOut
<1>11. ASSUME NEW q \in Runs PROVE RunIsPlaced(q)'
  <2>1. CASE q # p BY <1>4, <1>8, <2>1, OthersKeep DEF RowsKeep
  <2>2. CASE q = p
    <3>1. 0 <= Len(written') BY <1>1, <1>3
    <3> QED BY <1>2, <1>4, <1>10, <2>2, <3>1 DEF RunIsPlaced
  <2> QED BY <2>1, <2>2
<1>12. ASSUME NEW q \in Runs, edits' = 0 PROVE RunHasDone(q)'
  <2>1. CASE q # p
    <3>1. run'[q] = run[q] BY <1>4, <2>1
    <3>2. RunIsPlaced(q) /\ RunHasDone(q) BY <1>3, <1>12 DEF SeedInv
    <3> QED BY <1>8, <3>1, <3>2, OthersHaveDone DEF RowsKeep
  <2>2. CASE q = p BY <1>2, <1>4, <1>10, <2>2 DEF RunHasDone
  <2> QED BY <2>1, <2>2
<1>13. ASSUME NEW q \in Runs PROVE RunIsAlone(q)'
  <2>1. CASE q = p
    <3>1. ~disturbed'[p] => admin' # "granting" /\ \A s \in Runs : s # p => run'[s].at = "idle"
      <4>1. Running = {} => \A s \in Runs : run[s] = NotRunning BY DEF Running
      <4> QED BY <1>2, <1>3, <1>4, <1>6, <4>1
    <3>2. AsItWas(p)' BY <1>2, <1>4 DEF AsItWas
    <3> QED BY <2>1, <3>1, <3>2 DEF RunIsAlone
  <2>2. CASE q # p
    <3>1. run[q].at # "idle" => run[q] # NotRunning BY <1>2
    <3>2. run'[q].at # "idle" => disturbed'[q] BY <1>4, <1>6, <2>2, <3>1
    <3> QED BY <3>2 DEF RunIsAlone
  <2> QED BY <2>1, <2>2
<1>14. ASSUME NEW q \in Runs PROVE RunEnds(q)'
  <2>1. CASE q = p BY <1>5, <2>1 DEF RunEnds
  <2>2. CASE q # p
    <3>1. \A i \in DOMAIN Tasks : Has(i) => Has(i)' BY <1>8, DoneStays DEF RowsKeep
    <3>2. RunEnds(q) /\ edits' = edits /\ (disturbed[q] => disturbed'[q])
      BY <1>3, <1>6, <2>2 DEF SeedInv
    <3> QED BY <1>4, <1>5, <2>2, <3>1, <3>2 DEF RunEnds
  <2> QED BY <2>1, <2>2
<1>15. SeedTyped' BY <1>1, <1>3, <1>4, <1>5, <1>7, <1>8 DEF SeedTyped, RowsKeep
<1> QED BY <1>8, <1>9, <1>11, <1>12, <1>13, <1>14, <1>15 DEF SeedInv, RowsKeep

\* Whoever writes beside the runs disturbs them, and takes no item's stock.
LEMMA OutsideKeeps ==
  ASSUME TasksLaidOut, SeedInv, UNCHANGED <<run, last, stops>>,
         written' \in Seq(SeedRows), RowsStay,
         \A n \in DOMAIN written : written'[n].stock = written[n].stock,
         \A n \in DOMAIN written' :
           n \notin DOMAIN written => written'[n].table # "inventory_items",
         RowsAreKnown', OneOfEach', edits' \in Nat, edits' # 0 \/ (edits' = edits /\ LivesStay),
         admin' \in {"idle", "granting", "done"}, disturbed' \in [Runs -> BOOLEAN],
         \A q \in Runs : run[q].at # "idle" \/ disturbed[q] => disturbed'[q]
  PROVE  SeedInv'
<1>1. \A q \in Runs : RunIsPlaced(q)' BY PlaceStays
<1>2. ASSUME NEW q \in Runs, edits' = 0 PROVE RunHasDone(q)'
  <2>1. edits = 0 /\ LivesStay BY <1>2
  <2>2. RunIsPlaced(q) /\ RunHasDone(q) BY <2>1 DEF SeedInv
  <2> QED BY <2>1, <2>2, OthersHaveDone
<1>3. \A q \in Runs : RunIsAlone(q)' BY DEF RunIsAlone
<1>4. ASSUME NEW q \in Runs PROVE RunEnds(q)'
  <2>1. RunEnds(q) BY DEF SeedInv
  <2>2. edits' = 0 => edits = 0 /\ \A i \in DOMAIN Tasks : Has(i) => Has(i)' BY DoneStays
  <2> QED BY <2>1, <2>2 DEF RunEnds
<1>5. \A q \in Runs : \A n : Pending(q, n)' <=> Pending(q, n) BY DEF Pending
<1>6. StockIsComing' BY <1>5 DEF SeedInv, StockIsComing, RowsStay
<1>7. OneHandEach'
  <2> SUFFICES ASSUME NEW q \in Runs, NEW s \in Runs, NEW n \in DOMAIN written',
                      Pending(q, n)', Pending(s, n)'
               PROVE  q = s
    BY DEF OneHandEach
  <2>1. Pending(q, n) /\ Pending(s, n) BY <1>5
  <2>2. n \in DOMAIN written BY <2>1 DEF SeedInv, RunIsPlaced, Pending
  <2> QED BY <2>1, <2>2 DEF SeedInv, OneHandEach
<1>8. SeedTyped' BY DEF SeedInv, SeedTyped
<1> QED BY <1>1, <1>2, <1>3, <1>4, <1>6, <1>7, <1>8 DEF SeedInv

\* Every run that works is disturbed.
LEMMA DisturbingIs ==
  ASSUME SeedInv, Disturb
  PROVE  /\ disturbed' \in [Runs -> BOOLEAN]
         /\ \A q \in Runs : run[q].at # "idle" \/ disturbed[q] => disturbed'[q]
<1>1. disturbed \in [Runs -> BOOLEAN] BY DEF SeedInv, SeedTyped
<1>2. disturbed' = [p \in Runs |-> disturbed[p] \/ run[p] # NotRunning] BY DEF Disturb
<1>3. disturbed' \in [Runs -> BOOLEAN] BY <1>1, <1>2, Zenon
<1>4. NotRunning.at = "idle" BY DEF NotRunning
<1> QED BY <1>2, <1>3, <1>4

\* seed:admin: its account, if neither its e-mail nor its document is taken.
LEMMA InsertAdminKeeps ==
  ASSUME SeedAssumption, TasksLaidOut, SeedInv, InsertAdmin
  PROVE  SeedInv'
<1>1. PICK rec : rec = [NewRow("users", Admin.email) EXCEPT !.document = Admin.document]
  OBVIOUS
<1>2. /\ rec \in SeedRows /\ rec.table = "users" /\ rec.key = Admin.email /\ rec.live
      /\ rec.document = Admin.document /\ rec.user = 0 /\ rec.owner = 0
  <2>1. "users" \in SeedTables BY DEF SeedTables
  <2>2. Admin.email \in SeedTexts /\ Admin.document \in SeedTexts BY PeopleAreTexts
  <2> DEFINE new == NewRow("users", Admin.email)
  <2>3. /\ new \in SeedRows /\ new.table = "users" /\ new.key = Admin.email /\ new.live
        /\ new.user = 0 /\ new.owner = 0
    BY <2>1, <2>2, NewRowIs
  <2> HIDE DEF new
  <2>4. rec = [new EXCEPT !.document = Admin.document] BY <1>1 DEF new
  <2> QED BY <2>2, <2>3, <2>4 DEF SeedRows
<1>3. /\ admin' \in {"idle", "granting", "done"} /\ UNCHANGED <<run, last, stops, edits>>
      /\ Disturb /\ (UNCHANGED written \/ (Unique(rec) /\ written' = Append(written, rec)))
  BY <1>1 DEF InsertAdmin
<1>4. edits \in Nat /\ Len(written) \in Nat BY DEF SeedInv, SeedTyped
<1>5. /\ written' \in Seq(SeedRows) /\ RowsStay /\ LivesStay /\ RowsAreKnown' /\ OneOfEach'
      /\ \A n \in DOMAIN written : written'[n].stock = written[n].stock
      /\ \A n \in DOMAIN written' : n \notin DOMAIN written => written'[n].table # "inventory_items"
  <2>1. CASE UNCHANGED written
    <3>1. /\ written' \in Seq(SeedRows) /\ RowsStay /\ LivesStay
          /\ \A n \in DOMAIN written : written'[n].stock = written[n].stock
      BY <2>1, RowsUntouched DEF SeedInv
    <3>2. RowsAreKnown' /\ OneOfEach' BY <1>3, <2>1, <3>1, KnownStay
    <3> QED BY <2>1, <3>1, <3>2
  <2>2. CASE Unique(rec) /\ written' = Append(written, rec)
    <3>1. IsKnown(rec, Len(written) + 1) BY <1>2, <1>4 DEF IsKnown
    <3>2. RowsAreKnown' /\ OneOfEach' BY <1>2, <1>3, <2>2, <3>1, KnownGrow
    <3> QED BY <1>2, <2>2, <3>2, RowAppended DEF SeedInv
  <2> QED BY <1>3, <2>1, <2>2
<1> QED BY <1>3, <1>4, <1>5, DisturbingIs, OutsideKeeps

\* The role goes to whatever account holds the e-mail by then.
LEMMA GrantAdminKeeps ==
  ASSUME SeedAssumption, TasksLaidOut, SeedInv, GrantAdmin
  PROVE  SeedInv'
<1>1. PICK role : role = "SUPER_ADMIN" OBVIOUS
<1>2. role \in SeedTexts BY <1>1 DEF SeedTexts
<1>3. /\ written' = Granted(Admin.email, role) /\ admin = "granting" /\ admin' = "done"
      /\ UNCHANGED <<run, last, disturbed, stops, edits>>
  BY <1>1 DEF GrantAdmin
<1>4. edits \in Nat /\ disturbed \in [Runs -> BOOLEAN] BY DEF SeedInv, SeedTyped
<1>5. /\ written' \in Seq(SeedRows) /\ RowsStay /\ LivesStay /\ DOMAIN written' = DOMAIN written
      /\ \A n \in DOMAIN written : written'[n].stock = written[n].stock
  BY <1>2, <1>3, RoleGranted DEF SeedInv
<1>6. RowsAreKnown' /\ OneOfEach' BY <1>3, <1>5, KnownStay
<1>7. \A q \in Runs : run[q].at # "idle" => disturbed[q] BY <1>3 DEF SeedInv, RunIsAlone
<1>8. admin' \in {"idle", "granting", "done"} BY <1>3
<1> QED BY <1>3, <1>4, <1>5, <1>6, <1>7, <1>8, OutsideKeeps

\* A row that people deactivate stays, with what it holds.
LEMMA DeactivateKeeps ==
  ASSUME SeedAssumption, TasksLaidOut, SeedInv, NEW m \in DOMAIN written, Deactivate(m)
  PROVE  SeedInv'
<1>1. /\ SeedTyped /\ edits \in Nat /\ admin \in {"idle", "granting", "done"}
      /\ written \in Seq(SeedRows) /\ Len(written) \in Nat /\ DOMAIN written = 1 .. Len(written)
      /\ written[m] \in SeedRows
  BY DEF SeedInv, SeedTyped
<1>2. PICK rec : rec = [written[m] EXCEPT !.live = FALSE] OBVIOUS
<1>3. /\ rec \in SeedRows /\ rec.stock = written[m].stock /\ rec.table = written[m].table
      /\ rec.key = written[m].key /\ rec.document = written[m].document
      /\ rec.roles = written[m].roles /\ rec.user = written[m].user
      /\ rec.owner = written[m].owner /\ ~rec.live
  BY <1>1, <1>2 DEF SeedRows
<1>4. /\ written' = [written EXCEPT ![m] = rec] /\ Disturb
      /\ UNCHANGED <<run, admin, last, stops>> /\ edits' \in Nat /\ edits' # 0
  BY <1>1, <1>2 DEF Deactivate
<1>5. /\ written' \in Seq(SeedRows) /\ Len(written') = Len(written)
      /\ DOMAIN written' = DOMAIN written /\ written'[m] = rec
      /\ \A n \in DOMAIN written : n # m => written'[n] = written[n]
  <2> HIDE DEF SeedRows
  <2> QED BY <1>1, <1>3, <1>4
<1>6. ASSUME NEW n \in DOMAIN written
      PROVE  /\ n \in DOMAIN written' /\ written[n].roles \subseteq written'[n].roles
             /\ written'[n].table = written[n].table /\ written'[n].key = written[n].key
             /\ written'[n].document = written[n].document /\ written'[n].stock = written[n].stock
             /\ written'[n].user = written[n].user /\ written'[n].owner = written[n].owner
             /\ written'[n].live => written[n].live
  <2>1. CASE n = m BY <1>3, <1>5, <2>1
  <2>2. CASE n # m BY <1>5, <2>2
  <2> QED BY <2>1, <2>2
<1>7. RowsStay
  <2>1. Len(written) <= Len(written') BY <1>1, <1>5
  <2> QED BY <1>6, <2>1 DEF RowsStay
<1>8. RowsAreKnown'
  <2> SUFFICES ASSUME NEW n \in DOMAIN written PROVE IsKnown(written'[n], n)
    BY <1>4, <1>5 DEF RowsAreKnown
  <2>1. IsKnown(written[n], n) BY DEF SeedInv, RowsAreKnown
  <2> QED BY <1>6, <2>1 DEF IsKnown
<1>9. OneOfEach' BY <1>5, <1>6 DEF SeedInv, OneOfEach
<1>10. \A n \in DOMAIN written : written'[n].stock = written[n].stock BY <1>6
<1> QED BY <1>1, <1>4, <1>5, <1>7, <1>8, <1>9, <1>10, DisturbingIs, OutsideKeeps

\* Every query of a run.
LEMMA SeedStepKeeps ==
  ASSUME SeedAssumption, TasksLaidOut, SeedInv, NEW p \in Runs, SeedStep(p)
  PROVE  SeedInv'
<1>1. run[p].at # "idle" BY DEF SeedInv, RunIsPlaced, SeedStep
<1>2. CASE Finish(p) BY <1>1, <1>2, FinishKeeps
<1>3. CASE ~Finish(p)
  <2>1. Busy(p) BY <1>1, <1>3 DEF SeedStep, Busy
  <2> QED
    BY <1>3, <2>1, LookForUserKeeps, CheckDocumentKeeps, InsertUserKeeps, GrantRoleKeeps,
       ReadUserKeeps, LookForKeyKeeps, SeedServiceKeeps, SeedItemKeeps, ReplenishOpeningKeeps,
       LookForCustomerKeeps, RegisterCustomerKeeps, RegisterVehicleKeeps
    DEF SeedStep
<1> QED BY <1>2, <1>3

\* An empty database, and nobody at work.
LEMMA SeedBegins ==
  ASSUME SeedAssumption, TasksLaidOut, SeedInit
  PROVE  SeedInv
<1>1. /\ NotRunning \in SeedRuns /\ NotRunning.at = "idle" /\ NotRunning.task = 0
      /\ NotRunning.user = 0 /\ NotRunning.customer = 0
  BY DEF NotRunning, SeedRuns, SeedPlaces
<1>2. /\ written = << >> /\ written \in Seq(SeedRows) /\ Len(written) = 0 /\ DOMAIN written = {}
  <2> HIDE DEF SeedRows
  <2> QED BY DEF SeedInit
<1>3. /\ \A p \in Runs : run[p] = NotRunning /\ last[p] = "none"
      /\ run = [p \in Runs |-> NotRunning] /\ disturbed \in [Runs -> BOOLEAN]
      /\ last \in [Runs -> {"none", "running", "finished", "failed", "stopped"}]
      /\ edits = 0 /\ stops = 0 /\ admin = "idle"
  BY DEF SeedInit
<1>4. SeedTyped
  <2>1. run \in [Runs -> SeedRuns]
    <3> HIDE DEF SeedRuns, NotRunning
    <3> QED BY <1>1, <1>3
  <2> QED BY <1>2, <1>3, <2>1 DEF SeedTyped
<1>5. /\ Len(Tasks) \in Nat /\ Len(Actors) \in Nat /\ CustomerTask \in Nat
      /\ \A i \in DOMAIN Tasks : i \in Nat \ {0}
  BY DEF TasksLaidOut
<1>6. /\ 0 <= Len(Tasks) + 1 /\ 0 # Len(Tasks) + 1 /\ ~(0 > Len(Actors)) /\ ~(0 > CustomerTask)
      /\ \A i \in DOMAIN Tasks : ~(i < 0)
  BY <1>5
<1>7. RowsAreKnown /\ OneOfEach /\ StockIsComing /\ OneHandEach
  BY <1>2 DEF RowsAreKnown, OneOfEach, StockIsComing, OneHandEach
<1>8. \A p \in Runs : RunIsPlaced(p)
  <2> HIDE DEF NotRunning
  <2> QED BY <1>1, <1>2, <1>3, <1>6 DEF RunIsPlaced
<1>9. \A p \in Runs : RunIsAlone(p) /\ RunEnds(p) /\ RunHasDone(p)
  <2> HIDE DEF NotRunning
  <2> QED BY <1>1, <1>3, <1>6 DEF RunIsAlone, RunEnds, RunHasDone
<1> QED BY <1>4, <1>7, <1>8, <1>9 DEF SeedInv

\* A row has its columns, and refers to rows before it.
LEMMA RowsHaveColumns ==
  ASSUME SeedInv
  PROVE  /\ DOMAIN written = 1 .. Len(written) /\ Len(written) \in Nat
         /\ \A n \in DOMAIN written :
              /\ written[n].table \in SeedTables /\ written[n].live \in BOOLEAN
              /\ written[n].owner \in Nat /\ written[n].user < n /\ written[n].owner < n
<1>1. /\ DOMAIN written = 1 .. Len(written) /\ Len(written) \in Nat
      /\ \A n \in DOMAIN written : written[n] \in SeedRows
  <2>1. written \in Seq(SeedRows) BY DEF SeedInv, SeedTyped
  <2> HIDE DEF SeedRows
  <2> QED BY <2>1
<1>2. \A n \in DOMAIN written : written[n].table \in SeedTables /\ written[n].owner \in Nat
  BY <1>1 DEF SeedRows
<1>3. \A n \in DOMAIN written : written[n].live \in BOOLEAN
  <2> SUFFICES ASSUME NEW rec \in SeedRows PROVE rec.live \in BOOLEAN BY <1>1, Zenon
  <2> QED BY DEF SeedRows
<1>4. \A n \in DOMAIN written : written[n].user < n /\ written[n].owner < n
  BY DEF SeedInv, RowsAreKnown, IsKnown
<1> QED BY <1>1, <1>2, <1>3, <1>4

\* Of each key there is at most one live row.
LEMMA CountedOnce ==
  ASSUME SeedInv, NEW t, NEW k, t # "customers"
  PROVE  /\ Count(t, k) \in {0, 1}
         /\ Live(t, k) # {} => Count(t, k) = 1
<1>1. CASE Live(t, k) = {} BY <1>1, FS_EmptySet DEF Count
<1>2. CASE Live(t, k) # {}
  <2>1. PICK n : n \in Live(t, k) BY <1>2
  <2>2. \A m \in Live(t, k) : m = n BY <2>1 DEF Live, SeedInv, OneOfEach
  <2>3. Live(t, k) = {n} BY <2>1, <2>2
  <2> QED BY <2>3, FS_Singleton DEF Count
<1> QED BY <1>1, <1>2

\* What a seed that finished has done is the whole workshop, once nobody owes an item its stock.
LEMMA WholeWhenDone ==
  ASSUME SeedAssumption, TasksLaidOut, SeedInv, edits = 0, stops = 0, Quiet,
         \A i \in DOMAIN Tasks : Has(i)
  PROVE  Whole
<1>1. DOMAIN written = 1 .. Len(written) /\ Len(written) \in Nat
      /\ \A n \in DOMAIN written : written[n].owner \in Nat
  BY RowsHaveColumns
<1>2. ASSUME NEW i \in DOMAIN Actors
      PROVE  \E n \in Live("users", Actors[i].email) : Actors[i].role \in written[n].roles
  <2>1. i \in DOMAIN Tasks /\ Tasks[i].table = "users" /\ Tasks[i].key = Actors[i].email
    <3>1. DOMAIN Actors = 1 .. Len(Actors)
      <4> DEFINE Person == [email : STRING, document : STRING, role : STRING]
      <4>1. Actors \in Seq(Person) BY DEF SeedAssumption
      <4> HIDE DEF Person
      <4> QED BY <4>1
    <3>2. /\ Len(Actors) \in Nat /\ Len(Tasks) \in Nat /\ Len(Actors) <= Len(Tasks)
          /\ DOMAIN Tasks = 1 .. Len(Tasks)
      <4>1. Len(VEHICLES) \in Nat BY DEF SeedAssumption
      <4> QED BY <4>1 DEF TasksLaidOut
    <3>3. i \in DOMAIN Tasks /\ i <= Len(Actors) BY <3>1, <3>2
    <3> QED BY <3>3 DEF TasksLaidOut
  <2>2. ActorOf(Actors[i].email) = Actors[i] BY ActorIsKnown
  <2> QED BY <2>1, <2>2 DEF Has
<1>3. ASSUME NEW i \in DOMAIN SERVICES PROVE Count("services", SERVICES[i]) = 1
  <2>1. PICK j \in DOMAIN Tasks : Tasks[j].table = "services" /\ Tasks[j].key = SERVICES[i]
    BY DEF TasksLaidOut
  <2>2. Live("services", SERVICES[i]) # {} BY <2>1 DEF Has
  <2> QED BY <2>2, CountedOnce
<1>4. ASSUME NEW i \in DOMAIN INVENTORY
      PROVE  \E n \in Live("inventory_items", INVENTORY[i]) :
               written[n].stock = OpeningStock[INVENTORY[i]]
  <2>1. PICK j \in DOMAIN Tasks : Tasks[j].table = "inventory_items" /\ Tasks[j].key = INVENTORY[i]
    BY DEF TasksLaidOut
  <2>2. PICK n : n \in Live("inventory_items", INVENTORY[i]) BY <2>1 DEF Has
  <2>3. \A p \in Runs : ~Pending(p, n)
    <3>1. NotRunning.at = "idle" BY DEF NotRunning
    <3> QED BY <3>1 DEF Quiet, Running, Pending
  <2>4. n \in DOMAIN written /\ written[n].table = "inventory_items"
        /\ written[n].key = INVENTORY[i]
    BY <2>2 DEF Live
  <2>5. written[n].stock = OpeningStock[INVENTORY[i]]
    BY <2>3, <2>4 DEF SeedInv, StockIsComing
  <2> QED BY <2>2, <2>5
<1>5. ASSUME NEW i \in DOMAIN VEHICLES
      PROVE  \E n \in Live("vehicles", VEHICLES[i]) :
               written[n].owner # 0 /\ written[written[n].owner].live
  <2>1. PICK j \in DOMAIN Tasks : Tasks[j].table = "vehicles" /\ Tasks[j].key = VEHICLES[i]
    BY DEF TasksLaidOut
  <2>2. PICK n : n \in Live("vehicles", VEHICLES[i]) BY <2>1 DEF Has
  <2>3. n \in DOMAIN written /\ written[n].table = "vehicles" BY <2>2 DEF Live
  <2>4. written[n].owner # 0 /\ written[n].owner < n
    BY <2>3 DEF SeedInv, RowsAreKnown, IsKnown
  <2>5. written[n].owner \in DOMAIN written BY <1>1, <2>3, <2>4
  <2> QED BY <2>2, <2>4, <2>5 DEF SeedInv, RowsAreKnown
<1> QED BY <1>2, <1>3, <1>4, <1>5 DEF Whole

\* Whatever the seed creates and however many seeds run, stop or overtake each other beside
\* seed:admin and people who deactivate rows: nothing is there twice, no opening stock counts
\* twice, a seed fails only if somebody wrote beside it, and where nobody deactivated a row and
\* no seed was stopped, a finished one leaves the whole workshop.
THEOREM SeedsLeaveItWhole ==
  ASSUME SeedAssumption
  PROVE  SeedSpec => [](/\ SeedTypeOK /\ SeededOnce
                        /\ FinishedRunsLeaveItWhole /\ OnlyDisturbedRunsFail)
<1>0. TasksLaidOut BY TasksAreLaidOut
<1>1. SeedInit => SeedInv BY <1>0, SeedBegins
<1>2. SeedInv /\ [SeedNext]_seedVars => SeedInv'
  <2> SUFFICES ASSUME SeedInv, [SeedNext]_seedVars PROVE SeedInv' OBVIOUS
  <2>1. CASE UNCHANGED seedVars
    <3>1. UNCHANGED <<written, run, admin, last, disturbed, edits, stops>> BY <2>1 DEF seedVars
    <3>2. SeedTyped' BY <3>1 DEF SeedInv, SeedTyped
    <3>3. RowsAreKnown' /\ OneOfEach' BY <3>1 DEF SeedInv, RowsAreKnown, OneOfEach
    <3>4. StockIsComing' /\ OneHandEach'
      BY <3>1 DEF SeedInv, StockIsComing, OneHandEach, Pending
    <3>5. ASSUME NEW p \in Runs PROVE RunIsPlaced(p)' /\ RunIsAlone(p)'
      <4>1. RunIsPlaced(p) /\ RunIsAlone(p) BY DEF SeedInv
      <4>2. RunIsPlaced(p)' BY <3>1, <4>1 DEF RunIsPlaced, Task
      <4>3. RunIsAlone(p)'
        BY <3>1, <4>1 DEF RunIsAlone, AsItWas, Task, Live, WithDocument, CustomersOf
      <4> QED BY <4>2, <4>3
    <3>6. \A i : Has(i)' <=> Has(i) BY <3>1 DEF Has, Live
    <3>7. ASSUME NEW p \in Runs PROVE RunEnds(p)' BY <3>1, <3>6 DEF SeedInv, RunEnds
    <3>8. ASSUME NEW p \in Runs, edits' = 0 PROVE RunHasDone(p)'
      <4>1. RunHasDone(p) BY <3>1, <3>8 DEF SeedInv
      <4> QED BY <3>1, <3>6, <4>1 DEF RunHasDone, Task, Live
    <3> QED BY <3>2, <3>3, <3>4, <3>5, <3>7, <3>8 DEF SeedInv
  <2>2. ASSUME NEW p \in Runs, StartRun(p) \/ SeedStep(p) \/ StopRun(p) PROVE SeedInv'
    BY <1>0, <2>2, StartRunKeeps, SeedStepKeeps, StopRunKeeps
  <2>3. CASE InsertAdmin \/ GrantAdmin BY <1>0, <2>3, InsertAdminKeeps, GrantAdminKeeps
  <2>4. ASSUME NEW m \in DOMAIN written, Deactivate(m) PROVE SeedInv'
    BY <1>0, <2>4, DeactivateKeeps
  <2> QED BY <2>1, <2>2, <2>3, <2>4 DEF SeedNext
<1>3. SeedInv => SeedTypeOK /\ SeededOnce /\ FinishedRunsLeaveItWhole /\ OnlyDisturbedRunsFail
  <2> SUFFICES ASSUME SeedInv
               PROVE  SeedTypeOK /\ SeededOnce /\ FinishedRunsLeaveItWhole /\ OnlyDisturbedRunsFail
    OBVIOUS
  <2>1. SeedTypeOK
    <3>1. \A n \in DOMAIN written :
            /\ written[n].table \in SeedTables /\ written[n].live \in BOOLEAN
            /\ written[n].user < n /\ written[n].owner < n
      BY RowsHaveColumns
    <3>2. ASSUME NEW p \in Runs PROVE run[p].task \in 0 .. Len(Tasks) + 1
      <4>1. run[p].task \in Nat /\ run[p].task <= Len(Tasks) + 1 /\ Len(Tasks) \in Nat
        BY <1>0 DEF SeedInv, SeedTyped, SeedRuns, RunIsPlaced, TasksLaidOut
      <4> QED BY <4>1
    <3>3. admin \in {"idle", "granting", "done"} /\ disturbed \in [Runs -> BOOLEAN]
      BY DEF SeedInv, SeedTyped
    <3> QED BY <3>1, <3>2, <3>3 DEF SeedTypeOK, SeedTables
  <2>2. SeededOnce
    <3>1. \A i \in DOMAIN Tasks :
            Tasks[i].table # "customers" => Count(Tasks[i].table, Tasks[i].key) <= 1
      BY CountedOnce
    <3>2. \A n \in DOMAIN written :
            written[n].table = "inventory_items"
              => written[n].stock \in {0, OpeningStock[written[n].key]}
      BY DEF SeedInv, RowsAreKnown, IsKnown
    <3> QED BY <3>1, <3>2 DEF SeededOnce
  <2>3. FinishedRunsLeaveItWhole
    <3> SUFFICES ASSUME edits = 0, stops = 0, Quiet, NEW p \in Runs, last[p] = "finished"
                 PROVE  Whole
      BY DEF FinishedRunsLeaveItWhole, FinishedWhole
    <3>1. \A i \in DOMAIN Tasks : Has(i) BY DEF SeedInv, RunEnds
    <3> QED BY <1>0, <3>1, WholeWhenDone
  <2>4. OnlyDisturbedRunsFail BY DEF OnlyDisturbedRunsFail, NoneFailsAlone, SeedInv, RunEnds
  <2> QED BY <2>1, <2>2, <2>3, <2>4
<1> QED BY <1>1, <1>2, <1>3, PTL DEF SeedSpec
=============================================================================
