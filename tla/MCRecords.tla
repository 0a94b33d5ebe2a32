------------------------------- MODULE MCRecords -------------------------------
(***************************************************************************)
(* The records that several requests or processes change at once: the two  *)
(* catalogs, the customers and their vehicles, the opening of a visit, its *)
(* trail, the schema of the database, the rows a seed writes, and the      *)
(* connections all of them share.  They are put beside one another as in   *)
(* MCIdentity: a behaviour belongs to one.                                 *)
(***************************************************************************)
EXTENDS InventoryCatalog, ServiceCatalog, WorkOrderOpening, WorkOrderTrail, TLC

CONSTANTS
  Parts,      \* the components that may move
  Rivals,     \* two commands, runners or seeds at once
  None,
  i1, i2, i3, sku1, sku2, oil, brakes, tyres, s1, s2, s3,   \* items and services
  c1, c2, c3, u1, u2, v1, v2, v3, p1, p2, k1, k2            \* customers, vehicles, numbers

VARIABLES
  part,                                                       \* the component that moves
  db, applied, runner, reverts, crashes,                      \* SchemaMigrations
  written, run, admin, last, disturbed, starts, edits, stops, \* Seed
  phase, steps, locks, tx, ambient, conn, free, waiting, owner  \* ConnectionPool

-------------------------------------------------------------------------------
(* The catalogs, the customers, their vehicles and the openings. *)

\* An item created while the others exist takes the SKU of the second.
SkuOfItem == i1 :> sku1 @@ i2 :> sku2 @@ i3 :> sku2
Keys == i1 :> 1 @@ i2 :> 2 @@ i3 :> 3
EveryItemOp == AllOps

TwoListed == s1 :> oil @@ s2 :> brakes
EveryServiceOp == AllServiceOps

\* Two customers of one user are not there yet; two vehicles share a plate.
UserOfCustomer == c1 :> u1 @@ c2 :> u2 @@ c3 :> u2
PlateOfVehicle == v1 :> p1 @@ v2 :> p2 @@ v3 :> p2
OwnedByOne == v1 :> c1 @@ v2 :> c1
EveryRegistryOp == RegistryOps

\* A registry in which two customers own a vehicle each.
OwnedByTwo == v1 :> c1 @@ v2 :> c2
Visited == INSTANCE WorkOrderOpening WITH
  Registered <- {c1, c2}, Owned <- OwnedByTwo, Ops <- {"deactivate", "transfer", "remove vehicle"}

\* Beside the openings, one request of the registry runs.
OneRequest == \A r, q \in Requests : "idle" \in {stage'[r], stage'[q]} \/ r = q

-------------------------------------------------------------------------------
(* The schema, the seed and the connections. *)

\* A database nobody uses yet, migrated and reverted all the way by two runners.
Fresh == INSTANCE SchemaMigrations WITH
  Runners <- Rivals, InUse <- FALSE, MaxReverts <- 12, MaxCrashes <- 1

\* One in use, reverted as far as the migration that follows the work orders.
Used == INSTANCE SchemaMigrations WITH
  Runners <- Rivals, InUse <- TRUE, MaxReverts <- 4, MaxCrashes <- 1

Actors == <<[email |-> "admin@workshop.local", document |-> "28768733119", role |-> "SUPER_ADMIN"],
            [email |-> "cliente@oficina.local", document |-> "16899550009", role |-> "CUSTOMER"]>>
Admin == [email |-> "admin@workshop.local", document |-> "28768733119"]
FirstUnits == [sku \in {"FLT-OL-001", "PST-FR-001"} |-> 2]

Seeds == INSTANCE Seed WITH
  SERVICES <- <<"Oil change">>, INVENTORY <- <<"FLT-OL-001", "PST-FR-001">>,
  VEHICLES <- <<"RDX8B47">>, OpeningStock <- FirstUnits, Runs <- Rivals,
  MaxStarts <- 2, MaxEdits <- 1, MaxStops <- 1

\* All requests but the registration of a user, which waits for two connections.
Pool == INSTANCE ConnectionPool WITH
  Connections <- Rivals, Items <- {1, 2},
  Kinds <- {"SaveItem", "ConsumeStockBatch", "RestoreStockBatch", "UndoConsumption",
            "SaveWorkOrder", "CloseWithdrawal", "SaveSession", "SaveRole", "RegisterCustomer"},
  stage <- phase, rows <- locks

ASSUME CatalogAssumption /\ ServiceAssumption
ASSUME RegistryAssumption /\ Visited!RegistryAssumption /\ OpeningAssumption
ASSUME TrailAssumption /\ Seeds!SeedAssumption
ASSUME Fresh!MigrationsAssumption /\ Used!MigrationsAssumption
ASSUME Pool!PoolAssumption

-------------------------------------------------------------------------------
(* The composition. *)

Init ==
  /\ part \in Parts
  /\ ItemsInit /\ ServicesInit
  /\ IF part = "registry" THEN RegistryInit ELSE Visited!RegistryInit
  /\ OpeningsInit /\ TrailInit /\ Fresh!Init /\ Seeds!SeedInit /\ Pool!PoolInit

ofMigrations == <<db, applied, runner, reverts, crashes>>
ofSeeds == <<written, run, admin, last, disturbed, starts, edits, stops>>
ofPool == <<phase, steps, locks, tx, ambient, conn, free, waiting, owner>>
vars == <<part, itemVars, serviceVars, registry, visits, trailVars,
          ofMigrations, ofSeeds, ofPool>>

\* Nothing but this component moves.
Only(p) ==
  /\ part = p /\ UNCHANGED part
  /\ p # "inventory" => UNCHANGED itemVars
  /\ p # "services" => UNCHANGED serviceVars
  /\ p \notin {"registry", "openings"} => UNCHANGED registry
  /\ p # "openings" => UNCHANGED visits
  /\ p # "trail" => UNCHANGED trailVars
  /\ p \notin {"migrations", "reverts"} => UNCHANGED ofMigrations
  /\ p # "seeds" => UNCHANGED ofSeeds
  /\ p # "pool" => UNCHANGED ofPool

Next ==
  \/ Only("inventory") /\ ItemsNext
  \/ Only("services") /\ ServicesNext
  \/ Only("registry") /\ RegistryNext
  \/ Only("openings") /\ Visited!WorkshopNext /\ OneRequest
  \/ Only("trail") /\ TrailNext
  \/ Only("migrations") /\ Fresh!Next
  \/ Only("reverts") /\ Used!Next
  \/ Only("seeds") /\ Seeds!SeedNext
  \/ Only("pool") /\ Pool!PoolNext

Spec == Init /\ [][Next]_vars

Symmetry == Permutations(Requests) \cup Permutations(Rivals)

-------------------------------------------------------------------------------
(* Properties; ItemsAreSafe, ServicesAreSafe, CustomersAreSafe and TrailIsWhole *)
(* are those of the components.                                               *)

\* Two runners at once, one of which may stop, leave the schema of the migrations
\* recorded, and fail only when they met.  Seeds that overtake each other or stop
\* write nothing twice, and one that finishes leaves the whole demonstration.
\* Transactions lose no connection, take no second one and never all wait.
DatabaseIsWhole ==
  /\ part = "migrations" =>
       /\ Fresh!TypeOK
       /\ Fresh!SchemaIsThatOfTheRecord
       /\ Fresh!EntitiesMatchTheTables
       /\ Fresh!FailuresAreRaces
  /\ part = "reverts" => Used!SchemaIsThatOfTheRecord /\ Used!FailuresAreRaces
  /\ part = "seeds" =>
       /\ Seeds!SeedTypeOK
       /\ Seeds!SeededOnce
       /\ Seeds!FinishedRunsLeaveItWhole
       /\ Seeds!OnlyDisturbedRunsFail
  /\ part = "pool" =>
       /\ Pool!PoolTypeOK
       /\ Pool!ConnectionsAreAccountedFor
       /\ Pool!HoldersTakeNoSecondConnection
       /\ Pool!PoolIsNeverStuck
===============================================================================
