-------------------------- MODULE SchemaMigrations --------------------------
(***************************************************************************)
(* The eleven migrations of the database, the entities that the program    *)
(* reads and writes it through, and the processes that apply and revert    *)
(* the migrations while the program may be running.                        *)
(*                                                                         *)
(* The schema is the set of tables with the columns of each, those that    *)
(* may be empty kept apart, and the references that a DROP TABLE answers   *)
(* to.  Types, indexes and checks are left out.  Of the rows, the model    *)
(* keeps one work order and one consumption of stock charged to it.        *)
(*                                                                         *)
(* A transaction of DDL locks the tables that it changes until its end, so *)
(* of two that meet one waits: a transaction is a single step here, and    *)
(* what happens between two is that the record of the applied migrations   *)
(* was read before the transaction began.                                  *)
(***************************************************************************)
EXTENDS Naturals, Sequences, FiniteSets, SequencesExt, TLC

CONSTANTS Runners,     \* the processes that run or revert migrations
          InUse,       \* whether the program writes rows while it can
          MaxReverts,  \* bound: the reverts that commit
          MaxCrashes   \* bound: the runners that stop half way

\* What an instance must make of the constants.
MigrationsAssumption ==
    /\ InUse \in BOOLEAN
    /\ MaxReverts \in Nat
    /\ MaxCrashes \in Nat

Versions == 0 .. 10

-----------------------------------------------------------------------------
(* Statements.                                                             *)

Create(t, required, optional, refs) ==
    [op |-> "create", table |-> t, required |-> required, optional |-> optional,
     refs |-> refs]

\* ADD COLUMN: `defaulted` names the required columns that have a default.
Add(t, required, optional, refs, defaulted) ==
    [op |-> "add", table |-> t, required |-> required, optional |-> optional,
     refs |-> refs, defaulted |-> defaulted]

DropTable(t) == [op |-> "drop table", table |-> t]
DropColumns(t, cols) == [op |-> "drop columns", table |-> t, columns |-> cols]

\* A statement about rows or about the constraint of the movements.
Do(op) == [op |-> op]

Stamps == {"created_at", "updated_at"}
Ids == {"id", "external_id"}

Up00 == <<
    Create("users", Ids \cup Stamps \cup {"email", "password_hash", "name", "document",
        "must_change_password", "status"}, {"deleted_at"}, {}),
    Create("roles", Ids \cup Stamps \cup {"name", "is_system"}, {"description"}, {}),
    Create("permissions", Ids \cup {"code", "created_at"}, {"description"}, {}),
    Create("user_roles", {"user_id", "role_id", "created_at"}, {},
        {<<"user_id", "users">>, <<"role_id", "roles">>}),
    Create("role_permissions", {"role_id", "permission_id"}, {},
        {<<"role_id", "roles">>, <<"permission_id", "permissions">>}),
    Create("sessions", Ids \cup {"user_id", "status", "created_at", "last_used_at",
        "absolute_expires_at"}, {"ip", "user_agent", "revoked_at", "revocation_reason"},
        {<<"user_id", "users">>}),
    Create("refresh_tokens", Ids \cup {"session_id", "token_hash", "status", "created_at",
        "expires_at"}, {"rotated_at", "replaced_by_id"},
        {<<"session_id", "sessions">>, <<"replaced_by_id", "refresh_tokens">>})>>

Down00 == <<DropTable("refresh_tokens"), DropTable("sessions"), DropTable("role_permissions"),
            DropTable("user_roles"), DropTable("permissions"), DropTable("roles"),
            DropTable("users")>>

Up01 == <<Do("seed permissions"), Do("seed roles"), Do("seed grants")>>
Down01 == <<Do("unseed grants"), Do("unseed roles"), Do("unseed permissions")>>

Up02 == <<Create("customers", Ids \cup Stamps \cup {"user_id", "status"},
    {"address_street", "address_number", "address_complement", "address_district",
     "address_city", "address_state", "address_zip_code", "phone", "deleted_at"},
    {<<"user_id", "users">>})>>
Down02 == <<DropTable("customers")>>

Up03 == <<Create("vehicles", Ids \cup Stamps \cup {"customer_id", "plate", "brand", "model",
    "year"}, {"deleted_at"}, {<<"customer_id", "customers">>})>>
Down03 == <<DropTable("vehicles")>>

Up04 == <<Create("services", Ids \cup Stamps \cup {"name", "price_cents",
    "estimated_duration_minutes", "status"}, {"description"}, {})>>
Down04 == <<DropTable("services")>>

Up05 == <<
    Create("inventory_items", Ids \cup Stamps \cup {"sku", "name", "kind",
        "unit_price_cents", "quantity_on_hand", "status"}, {"description"}, {}),
    Create("stock_movements", Ids \cup {"inventory_item_id", "kind", "quantity",
        "unit_price_cents", "occurred_at", "actor_user_id"},
        {"undoes_movement_id", "work_order_id", "status", "note"},
        {<<"inventory_item_id", "inventory_items">>, <<"undoes_movement_id", "stock_movements">>,
         <<"actor_user_id", "users">>}),
    Create("stock_movement_transitions", Ids \cup {"stock_movement_id", "to_status",
        "occurred_at"}, {"from_status", "from_work_order_id", "to_work_order_id",
        "actor_user_id", "note"},
        {<<"stock_movement_id", "stock_movements">>, <<"actor_user_id", "users">>})>>

Down05 == <<DropTable("stock_movement_transitions"), DropTable("stock_movements"),
            DropTable("inventory_items")>>

Up06 == <<
    Create("work_orders", Ids \cup Stamps \cup {"number", "customer_id", "vehicle_id",
        "created_by_user_id", "status", "customer_name", "vehicle_plate", "vehicle_brand",
        "vehicle_model", "vehicle_year"}, {"assigned_mechanic_user_id"},
        {<<"customer_id", "customers">>, <<"vehicle_id", "vehicles">>,
         <<"assigned_mechanic_user_id", "users">>, <<"created_by_user_id", "users">>}),
    Create("work_order_services", Ids \cup {"work_order_id", "service_id", "service_name",
        "unit_price_cents", "created_at"}, {},
        {<<"work_order_id", "work_orders">>, <<"service_id", "services">>}),
    Create("work_order_parts", Ids \cup {"work_order_id", "inventory_item_id", "sku",
        "item_name", "planned_quantity", "withdrawn_quantity", "unit_price_cents",
        "created_at"}, {},
        {<<"work_order_id", "work_orders">>, <<"inventory_item_id", "inventory_items">>}),
    Create("work_order_events", Ids \cup {"work_order_id", "event_type", "occurred_at"},
        {"from_status", "to_status", "actor_user_id", "note"},
        {<<"work_order_id", "work_orders">>, <<"actor_user_id", "users">>}),
    Do("add key")>>

Down06 == <<Do("drop key"), DropTable("work_order_events"), DropTable("work_order_parts"),
            DropTable("work_order_services"), DropTable("work_orders")>>

BudgetColumns == {"budget_id", "budgeted_unit_price_cents"}
DecisionColumns == {"diagnosis_started_at", "diagnosis_completed_at", "budget_decided_at",
                    "budget_decided_by_user_id", "execution_started_at"}

Up07 == <<
    Add("work_orders", {}, DecisionColumns, {<<"budget_decided_by_user_id", "users">>}, {}),
    Create("work_order_budgets", Ids \cup {"work_order_id", "round", "total_cents", "status",
        "generated_at"}, {"decided_at", "decided_by_user_id"},
        {<<"work_order_id", "work_orders">>, <<"decided_by_user_id", "users">>}),
    Add("work_order_services", {}, BudgetColumns, {<<"budget_id", "work_order_budgets">>}, {}),
    Add("work_order_parts", {}, BudgetColumns, {<<"budget_id", "work_order_budgets">>}, {})>>

Down07 == <<DropColumns("work_order_parts", BudgetColumns),
            DropColumns("work_order_services", BudgetColumns),
            DropTable("work_order_budgets"), DropColumns("work_orders", DecisionColumns)>>

ClosingColumns == {"charged_total_cents", "discount_note", "discount_applied_by_user_id",
                   "discount_applied_at", "completed_at", "delivered_at",
                   "delivered_by_user_id", "canceled_at", "canceled_by_user_id",
                   "cancellation_reason"}

Up08 == <<
    Add("work_orders", {"discount_cents", "version"}, ClosingColumns,
        {<<"discount_applied_by_user_id", "users">>, <<"delivered_by_user_id", "users">>,
         <<"canceled_by_user_id", "users">>},
        {"discount_cents", "version"}),
    Add("stock_movement_transitions", {}, {"quantity"}, {}, {})>>

\* A down that forgets the column it added to another module's table.
MutDown08 == <<DropColumns("work_orders", ClosingColumns \cup {"discount_cents", "version"})>>

Down08 == <<DropColumns("stock_movement_transitions", {"quantity"}),
            DropColumns("work_orders", ClosingColumns \cup {"discount_cents", "version"})>>

StepColumns == {"id", "operation_id", "kind", "payload", "status", "attempts", "due_at",
                "created_at"}

Up09 == <<
    Create("work_order_stock_steps", StepColumns \cup {"work_order_id"},
        {"last_error", "completed_at"}, {<<"work_order_id", "work_orders">>}),
    Create("customer_account_steps", StepColumns \cup {"user_id"},
        {"last_error", "completed_at"}, {}),
    Add("stock_movements", {}, {"operation_id"}, {}, {})>>

Down09 == <<DropColumns("stock_movements", {"operation_id"}),
            DropTable("customer_account_steps"), DropTable("work_order_stock_steps")>>

Up10 == <<Add("stock_movements", {}, {"confirmed_at"}, {}, {}), Do("confirm consumptions")>>
Down10 == <<DropColumns("stock_movements", {"confirmed_at"})>>

Up == 0 :> Up00 @@ 1 :> Up01 @@ 2 :> Up02 @@ 3 :> Up03 @@ 4 :> Up04 @@ 5 :> Up05
      @@ 6 :> Up06 @@ 7 :> Up07 @@ 8 :> Up08 @@ 9 :> Up09 @@ 10 :> Up10
Down == 0 :> Down00 @@ 1 :> Down01 @@ 2 :> Down02 @@ 3 :> Down03 @@ 4 :> Down04
        @@ 5 :> Down05 @@ 6 :> Down06 @@ 7 :> Down07 @@ 8 :> Down08 @@ 9 :> Down09
        @@ 10 :> Down10

-----------------------------------------------------------------------------
(* The entities: what the program takes each table to hold.                *)

Entity(t, required, optional) == t :> [required |-> required, optional |-> optional]

UserEntities ==
    Entity("users",
        {"id", "external_id", "email", "password_hash", "name", "document", "status",
         "must_change_password", "created_at", "updated_at"},
        {"deleted_at"})
RoleEntities ==
    Entity("roles",
        {"id", "external_id", "name", "is_system", "created_at", "updated_at"},
        {"description"})
PermissionEntities ==
    Entity("permissions",
        {"id", "external_id", "code", "created_at"},
        {"description"})
UserRoleEntities ==
    Entity("user_roles",
        {"user_id", "role_id", "created_at"},
        {})
RolePermissionEntities ==
    Entity("role_permissions",
        {"role_id", "permission_id"},
        {})
SessionEntities ==
    Entity("sessions",
        {"id", "external_id", "user_id", "status", "created_at", "last_used_at",
         "absolute_expires_at"},
        {"ip", "user_agent", "revoked_at", "revocation_reason"})
TokenEntities ==
    Entity("refresh_tokens",
        {"id", "external_id", "session_id", "token_hash", "status", "created_at",
         "expires_at"},
        {"rotated_at", "replaced_by_id"})
CustomerEntities ==
    Entity("customers",
        {"id", "external_id", "user_id", "status", "created_at", "updated_at"},
        {"address_street", "address_number", "address_complement", "address_district",
         "address_city", "address_state", "address_zip_code", "phone", "deleted_at"})
CustomerStepEntities ==
    Entity("customer_account_steps",
        {"id", "operation_id", "kind", "user_id", "payload", "status", "attempts",
         "due_at", "created_at"},
        {"last_error", "completed_at"})
VehicleEntities ==
    Entity("vehicles",
        {"id", "external_id", "customer_id", "plate", "brand", "model", "year",
         "created_at", "updated_at"},
        {"deleted_at"})
ServiceEntities ==
    Entity("services",
        {"id", "external_id", "name", "price_cents", "estimated_duration_minutes",
         "status", "created_at", "updated_at"},
        {"description"})
ItemEntities ==
    Entity("inventory_items",
        {"id", "external_id", "sku", "name", "kind", "unit_price_cents",
         "quantity_on_hand", "status", "created_at", "updated_at"},
        {"description"})
MovementEntities ==
    Entity("stock_movements",
        {"id", "external_id", "inventory_item_id", "kind", "quantity",
         "unit_price_cents", "occurred_at", "actor_user_id"},
        {"undoes_movement_id", "work_order_id", "status", "note", "operation_id",
         "confirmed_at"})
OrderEntities ==
    Entity("work_orders",
        {"id", "external_id", "number", "customer_id", "vehicle_id",
         "created_by_user_id", "status", "customer_name", "vehicle_plate",
         "vehicle_brand", "vehicle_model", "vehicle_year", "created_at", "updated_at",
         "discount_cents", "version"},
        {"assigned_mechanic_user_id", "diagnosis_started_at", "diagnosis_completed_at",
         "budget_decided_at", "budget_decided_by_user_id", "execution_started_at",
         "charged_total_cents", "discount_note", "discount_applied_by_user_id",
         "discount_applied_at", "completed_at", "delivered_at", "delivered_by_user_id",
         "canceled_at", "canceled_by_user_id", "cancellation_reason"})
OrderPartEntities ==
    Entity("work_order_parts",
        {"id", "external_id", "work_order_id", "inventory_item_id", "sku", "item_name",
         "planned_quantity", "withdrawn_quantity", "unit_price_cents", "created_at"},
        {"budget_id", "budgeted_unit_price_cents"})
OrderServiceEntities ==
    Entity("work_order_services",
        {"id", "external_id", "work_order_id", "service_id", "service_name",
         "unit_price_cents", "created_at"},
        {"budget_id", "budgeted_unit_price_cents"})
OrderBudgetEntities ==
    Entity("work_order_budgets",
        {"id", "external_id", "work_order_id", "round", "total_cents", "status",
         "generated_at"},
        {"decided_at", "decided_by_user_id"})
OrderEventEntities ==
    Entity("work_order_events",
        {"id", "external_id", "work_order_id", "event_type", "occurred_at"},
        {"from_status", "to_status", "actor_user_id", "note"})
OrderStepEntities ==
    Entity("work_order_stock_steps",
        {"id", "operation_id", "kind", "work_order_id", "payload", "status", "attempts",
         "due_at", "created_at"},
        {"last_error", "completed_at"})

Entities ==
    UserEntities @@ RoleEntities @@ PermissionEntities @@ UserRoleEntities
    @@ RolePermissionEntities @@ SessionEntities @@ TokenEntities @@ CustomerEntities
    @@ CustomerStepEntities @@ VehicleEntities @@ ServiceEntities @@ ItemEntities
    @@ MovementEntities @@ OrderEntities @@ OrderPartEntities @@ OrderServiceEntities
    @@ OrderBudgetEntities @@ OrderEventEntities @@ OrderStepEntities

-----------------------------------------------------------------------------
(* What a statement does to the database.                                  *)

VARIABLES db,      \* tables, seeds, the key of the movements and the rows
          applied, \* the table of migrations: the versions in the order they ran
          runner,  \* what each runner does
          reverts, \* the reverts that committed
          crashes

vars == <<db, applied, runner, reverts, crashes>>

\* No row of the model: `order` says whether work_orders holds a work order,
\* `consumption` what stock_movements says of the consumption charged to it, and
\* `reached` whether the work order took it, which the database does not say.
Empty == [tables |-> << >>, seeded |-> {}, key |-> FALSE, order |-> FALSE,
          consumption |-> "none", reached |-> FALSE, failed |-> FALSE]

Exists(d, t) == t \in DOMAIN d.tables
Columns(d, t) == d.tables[t].required \cup d.tables[t].optional
Failed(d) == [d EXCEPT !.failed = TRUE]
If(condition, d, changed) == IF condition THEN changed ELSE Failed(d)

ReferencedBy(d, t) == {u \in DOMAIN d.tables \ {t} : \E r \in d.tables[u].refs : r[2] = t}

CreateTable(d, s) ==
    If(/\ ~Exists(d, s.table)
       /\ \A r \in s.refs : r[2] \in DOMAIN d.tables \cup {s.table},
       d, [d EXCEPT !.tables = @ @@ s.table :> [required |-> s.required,
                                    optional |-> s.optional, refs |-> s.refs]])

\* A required column without a default is refused where the table has rows.
AddColumns(d, s) ==
    If(/\ Exists(d, s.table)
       /\ Columns(d, s.table) \cap (s.required \cup s.optional) = {}
       /\ \A r \in s.refs : r[2] \in DOMAIN d.tables
       /\ s.table = "work_orders" /\ d.order => s.required \subseteq s.defaulted,
       d, [d EXCEPT !.tables[s.table] = [required |-> @.required \cup s.required,
                                optional |-> @.optional \cup s.optional,
                                refs |-> @.refs \cup s.refs]])

\* DROP TABLE IF EXISTS, which a reference to the table stops.
DropTableOf(d, t) ==
    IF ~Exists(d, t) THEN d
    ELSE If(ReferencedBy(d, t) = {} /\ (t = "work_orders" => ~d.key), d,
            [d EXCEPT !.tables = [u \in DOMAIN @ \ {t} |-> @[u]],
                      !.order = @ /\ t # "work_orders",
                      !.key = @ /\ t # "stock_movements",
                      !.consumption = IF t = "stock_movements" THEN "none" ELSE @,
                      !.reached = @ /\ t # "stock_movements",
                      !.seeded = @ \ {t}])

\* DROP COLUMN IF EXISTS takes the references of the columns with them.
DropColumnsOf(d, s) ==
    If(Exists(d, s.table), d,
       [d EXCEPT !.tables[s.table] =
                     [required |-> @.required \ s.columns, optional |-> @.optional \ s.columns,
                      refs |-> {r \in @.refs : r[1] \notin s.columns}],
                 !.consumption = IF "confirmed_at" \in s.columns /\ @ = "confirmed"
                                 THEN "unconfirmed" ELSE @])

Seeding(d, s) ==
    CASE s.op = "seed permissions" ->
             If(Exists(d, "permissions") /\ "permissions" \notin d.seeded, d,
                [d EXCEPT !.seeded = @ \cup {"permissions"}])
      [] s.op = "seed roles" ->
             If(Exists(d, "roles") /\ "roles" \notin d.seeded, d,
                [d EXCEPT !.seeded = @ \cup {"roles"}])
      [] s.op = "seed grants" ->
             If(Exists(d, "role_permissions"), d,
                [d EXCEPT !.seeded = IF {"permissions", "roles"} \subseteq @
                                     THEN @ \cup {"role_permissions"} ELSE @])
      [] s.op = "unseed grants" ->
             If(Exists(d, "role_permissions"), d, [d EXCEPT !.seeded = @ \ {"role_permissions"}])
      [] s.op = "unseed roles" ->
             If(Exists(d, "roles"), d, [d EXCEPT !.seeded = @ \ {"roles", "role_permissions"}])
      [] s.op = "unseed permissions" ->
             If(Exists(d, "permissions"), d,
                [d EXCEPT !.seeded = @ \ {"permissions", "role_permissions"}])

\* The constraint of the movements on the work orders.
KeyOf(d, s) ==
    CASE s.op = "add key" ->
             If(/\ Exists(d, "stock_movements") /\ Exists(d, "work_orders")
                /\ ~d.key
                /\ d.consumption # "none" => d.order,
                d, [d EXCEPT !.key = TRUE])
      [] s.op = "drop key" ->
             If(Exists(d, "stock_movements"), d, [d EXCEPT !.key = FALSE])

ConfirmConsumptions(d) ==
    If(Exists(d, "stock_movements") /\ "confirmed_at" \in Columns(d, "stock_movements"), d,
       [d EXCEPT !.consumption = IF @ = "none" THEN @ ELSE "confirmed"])

\* A statement after a failed one of the transaction is not sent.
Execute(d, s) ==
    CASE d.failed -> d
      [] ~d.failed /\ s.op = "create" -> CreateTable(d, s)
      [] ~d.failed /\ s.op = "add" -> AddColumns(d, s)
      [] ~d.failed /\ s.op = "drop table" -> DropTableOf(d, s.table)
      [] ~d.failed /\ s.op = "drop columns" -> DropColumnsOf(d, s)
      [] ~d.failed /\ s.op \in {"add key", "drop key"} -> KeyOf(d, s)
      [] ~d.failed /\ s.op = "confirm consumptions" -> ConfirmConsumptions(d)
      [] OTHER -> Seeding(d, s)

Executed(d, statements) == FoldLeft(Execute, d, statements)

-----------------------------------------------------------------------------
(* The runners.  TypeORM reads the versions applied, then runs the pending *)
(* ones in their order, or reverts the last one, in one transaction.       *)

InOrder(S) == SelectSeq([i \in 1 .. Cardinality(Versions) |-> i - 1], LAMBDA v : v \in S)

Idle == [at |-> "idle", does |-> "run", seen |-> << >>, overtaken |-> FALSE]

Init ==
    /\ db = Empty
    /\ applied = << >>
    /\ runner = [r \in Runners |-> Idle]
    /\ reverts = 0
    /\ crashes = 0

\* Runs may overlap, as when a job starts a second pod beside a first one that it
\* takes for lost.  A revert is typed by a person and runs alone.
Start(r, does) ==
    /\ runner[r].at # "started"
    /\ \A q \in Runners :
           runner[q].at = "started" => does = "run" /\ runner[q].does = "run"
    /\ does = "revert" => reverts < MaxReverts
    /\ runner' = [runner EXCEPT ![r] = [at |-> "started", does |-> does, seen |-> applied,
                                        overtaken |-> FALSE]]
    /\ UNCHANGED <<db, applied, reverts, crashes>>

\* The versions of the transaction, and what it makes of the database it finds.
Planned(r) ==
    LET seen == runner[r].seen
    IN  CASE runner[r].does = "run" -> InOrder(Versions \ ToSet(seen))
          [] runner[r].does = "revert" /\ seen # << >> -> <<Last(seen)>>
          [] OTHER -> << >>

After(r) ==
    LET up == runner[r].does = "run"
    IN  Executed(db, FlattenSeq([i \in DOMAIN Planned(r) |->
                        IF up THEN Up[Planned(r)[i]] ELSE Down[Planned(r)[i]]]))

\* The name of a version applied twice is not refused: the statements are.
Commit(r) ==
    /\ runner[r].at = "started"
    /\ ~After(r).failed
    /\ runner[r].does = "revert" => reverts < MaxReverts
    /\ db' = After(r)
    /\ applied' = IF runner[r].does = "run" THEN applied \o Planned(r)
                  ELSE SelectSeq(applied, LAMBDA v : v \notin ToSet(Planned(r)))
    /\ reverts' = IF runner[r].does = "revert" /\ Planned(r) # << >> 
                  THEN reverts + 1 ELSE reverts
    /\ runner' = [q \in Runners |->
          IF q = r THEN [runner[r] EXCEPT !.at = "done"]
          ELSE IF Planned(r) # << >> /\ runner[q].at = "started"
               THEN [runner[q] EXCEPT !.overtaken = TRUE] ELSE runner[q]]
    /\ UNCHANGED crashes

\* A statement fails and the transaction is rolled back.
Fail(r) ==
    /\ runner[r].at = "started"
    /\ After(r).failed
    /\ runner' = [runner EXCEPT ![r].at = "failed"]
    /\ UNCHANGED <<db, applied, reverts, crashes>>

\* The process stops before the commit: a job starts another runner.
Crash(r) ==
    /\ runner[r].at = "started"
    /\ crashes < MaxCrashes
    /\ runner' = [runner EXCEPT ![r] = Idle]
    /\ crashes' = crashes + 1
    /\ UNCHANGED <<db, applied, reverts>>

-----------------------------------------------------------------------------
(* The program, which works while the schema is that of its entities.      *)

Serves == InUse /\ ToSet(applied) = Versions

OpenOrder ==
    /\ Serves /\ ~db.order /\ db.consumption = "none"
    /\ db' = [db EXCEPT !.order = TRUE]
    /\ UNCHANGED <<applied, runner, reverts, crashes>>

\* A withdrawal writes the consumption, and its work order confirms it later.
Withdraw ==
    /\ Serves /\ db.order /\ db.consumption = "none"
    /\ db' = [db EXCEPT !.consumption = "unconfirmed"]
    /\ UNCHANGED <<applied, runner, reverts, crashes>>

\* The work order is saved with the units, and its consumption is confirmed after
\* that.
SaveOrder ==
    /\ Serves /\ db.consumption # "none" /\ ~db.reached
    /\ db' = [db EXCEPT !.reached = TRUE]
    /\ UNCHANGED <<applied, runner, reverts, crashes>>

Confirm ==
    /\ Serves /\ db.consumption = "unconfirmed" /\ db.reached
    /\ db' = [db EXCEPT !.consumption = "confirmed"]
    /\ UNCHANGED <<applied, runner, reverts, crashes>>

Next ==
    \/ \E r \in Runners :
           \/ \E does \in {"run", "revert"} : Start(r, does)
           \/ Commit(r) \/ Fail(r) \/ Crash(r)
    \/ OpenOrder \/ Withdraw \/ SaveOrder \/ Confirm

Spec == Init /\ [][Next]_vars
-----------------------------------------------------------------------------
(* Properties.                                                             *)

RunnerStates == {"idle", "started", "done", "failed"}

\* What each variable holds.
TypeOK ==
    /\ DOMAIN db.tables \subseteq DOMAIN Entities \cup {"stock_movement_transitions"}
    /\ db.consumption \in {"none", "unconfirmed", "confirmed"}
    /\ ~db.failed
    /\ applied \in Seq(Versions) /\ IsInjective(applied)
    /\ \A r \in Runners : /\ runner[r].at \in RunnerStates
                          /\ runner[r].does \in {"run", "revert"}
    /\ reverts \in 0 .. MaxReverts /\ crashes \in 0 .. MaxCrashes

\* Whatever runs, reverts, stops and overtakings led here, the schema and the seeded
\* rows are those that the recorded migrations make of an empty database: each down()
\* takes back exactly what its up() did, and the record says what is there.
SchemaIsThatOfTheRecord ==
    LET built == Executed(Empty, FlattenSeq([i \in 1 .. Len(applied) |->
                              Up[InOrder(ToSet(applied))[i]]]))
    IN  <<db.tables, db.key, db.seeded>> = <<built.tables, built.key, built.seeded>>

\* With every migration applied, each entity finds its table with the very columns it
\* maps, those that it takes for nullable being the nullable ones.
EntitiesMatchTheTables ==
    ToSet(applied) = Versions =>
        \A t \in DOMAIN Entities :
            /\ Exists(db, t)
            /\ db.tables[t].required = Entities[t].required
            /\ db.tables[t].optional = Entities[t].optional

\* A run or a revert fails only where another committed between its reading of the
\* record and its transaction.  With the program in use, it holds as long as no revert
\* reaches the migration of the work orders.
FailuresAreRaces ==
    \A r \in Runners : runner[r].at = "failed" => runner[r].overtaken

=============================================================================
