--------------------------------- MODULE Seed ---------------------------------
(***************************************************************************)
(* npm run seed: it looks for each thing it is about to create and skips   *)
(* what is there.  Each look, check and write is a query of its own, so    *)
(* two seeds may run side by side, one may stop anywhere, npm run          *)
(* seed:admin may run beside them, and people use the application all the  *)
(* while.                                                                  *)
(***************************************************************************)
EXTENDS Integers, Sequences, FiniteSets

CONSTANTS
  Actors,      \* the accounts, in order: [email, document, role], the last the customer's
  SERVICES,    \* names of the catalog services, in order
  INVENTORY,   \* skus of the items, in order
  VEHICLES,    \* plates of the vehicles, in order
  OpeningStock, \* the opening quantity of each sku
  Admin,       \* the account of seed:admin: [email, document]
  Runs,        \* seeds that may run
  MaxStarts,   \* bound: how often a seed is started
  MaxEdits,    \* bound: how many rows people deactivate or remove
  MaxStops     \* bound: how often a run is stopped on its way

\* An instance gives each account its own e-mail and document, puts the customer
\* last, and names nobody else's document for seed:admin.
SeedAssumption ==
  /\ Actors \in Seq([email : STRING, document : STRING, role : STRING]) /\ Actors # << >>
  /\ Actors[Len(Actors)].role = "CUSTOMER"
  /\ \A i, j \in DOMAIN Actors :
       Actors[i].email = Actors[j].email \/ Actors[i].document = Actors[j].document => i = j
  /\ Admin \in [email : STRING, document : STRING]
  /\ \A i \in DOMAIN Actors : Actors[i].email = Admin.email <=> Actors[i].document = Admin.document
  /\ {SERVICES, INVENTORY, VEHICLES} \subseteq Seq(STRING)
  /\ \A i \in DOMAIN INVENTORY : OpeningStock[INVENTORY[i]] \in Nat

VARIABLES
  written,     \* every row written, in order of its internal id
  run,         \* where each seed is
  admin,       \* where seed:admin is: "idle", "granting" or "done"
  last,        \* how the last run of each seed ended
  disturbed,   \* history: somebody else wrote beside the last run of each seed
  starts, edits, stops

seedVars == <<written, run, admin, last, disturbed, starts, edits, stops>>

-------------------------------------------------------------------------------
(* The tables. *)

\* A row: user is the account of a customer, roles those of an account, stock
\* the count of an item and owner the customer of a vehicle.
NewRow(table, key) == [table |-> table, key |-> key, document |-> "", roles |-> {}, user |-> 0,
                    owner |-> 0, stock |-> 0, live |-> TRUE]

Live(table, key) ==
  {n \in DOMAIN written : written[n].table = table /\ written[n].key = key /\ written[n].live}
WithDocument(document) ==
  {n \in DOMAIN written : written[n].table = "users" /\ written[n].document = document
                             /\ written[n].live}
CustomersOf(u) == {n \in DOMAIN written : written[n].table = "customers" /\ written[n].user = u}

\* The unique indexes: of live rows, but of every customer of an account.
Unique(row) ==
  CASE row.table = "users" -> Live("users", row.key) \cup WithDocument(row.document) = {}
    [] row.table = "customers" -> CustomersOf(row.user) = {}
    [] OTHER -> Live(row.table, row.key) = {}

-------------------------------------------------------------------------------
(* A run: its tasks in order, each a few queries. *)

TasksOf(table, keys) == [i \in DOMAIN keys |-> [table |-> table, key |-> keys[i]]]
Tasks ==
  TasksOf("users", [i \in DOMAIN Actors |-> Actors[i].email])
    \o TasksOf("services", SERVICES) \o TasksOf("inventory_items", INVENTORY)
    \o <<[table |-> "customers", key |-> ""]>> \o TasksOf("vehicles", VEHICLES)

NotRunning == [task |-> 0, at |-> "idle", found |-> 0, user |-> 0, customer |-> 0]
Task(p) == Tasks[run[p].task]
AtTask(p, table, at) == run[p].at = at /\ Task(p).table = table
Go(p, at) == run' = [run EXCEPT ![p].at = at]

Running == {p \in Runs : run[p] # NotRunning}
Disturb == disturbed' = [p \in Runs |-> disturbed[p] \/ run[p] # NotRunning]

End(p, how) ==
  /\ run' = [run EXCEPT ![p] = NotRunning]
  /\ last' = [last EXCEPT ![p] = how]
  /\ UNCHANGED <<written, admin, disturbed, starts, edits, stops>>

Fails(p) == End(p, "failed")

NextTask(p, r) ==
  run' = [run EXCEPT ![p] = [r EXCEPT !.task = @ + 1, !.at = "look", !.found = 0]]

Same == UNCHANGED <<admin, last, disturbed, starts, edits, stops>>

Writes(p, row) == written' = Append(written, row) /\ Same

StartRun(p) ==
  /\ run[p] = NotRunning /\ starts < MaxStarts
  /\ starts' = starts + 1
  /\ run' = [run EXCEPT ![p] = [NotRunning EXCEPT !.task = 1, !.at = "look"]]
  /\ last' = [last EXCEPT ![p] = "running"]
  /\ disturbed' = [q \in Runs |-> IF q = p THEN Running # {} \/ admin = "granting"
                                  ELSE disturbed[q] \/ run[q] # NotRunning]
  /\ UNCHANGED <<written, admin, edits, stops>>

Finish(p) == run[p].task = Len(Tasks) + 1 /\ End(p, "finished")

-------------------------------------------------------------------------------
(* upsertUser. *)

ActorOf(email) == Actors[CHOOSE i \in DOMAIN Actors : Actors[i].email = email]

LookForUser(p) ==
  /\ AtTask(p, "users", "look")
  /\ Go(p, IF Live("users", Task(p).key) = {} THEN "document" ELSE "grant")
  /\ UNCHANGED written /\ Same

CheckDocument(p) ==
  /\ AtTask(p, "users", "document")
  /\ IF WithDocument(ActorOf(Task(p).key).document) # {} THEN Fails(p)
     ELSE Go(p, "insert") /\ UNCHANGED written /\ Same

InsertUser(p) ==
  /\ AtTask(p, "users", "insert")
  /\ LET row == [NewRow("users", Task(p).key) EXCEPT !.document = ActorOf(Task(p).key).document] IN
     IF Unique(row) THEN Go(p, "grant") /\ Writes(p, row) ELSE Fails(p)

\* The grant takes whatever account holds the e-mail now, and nothing if none does.
Granted(email, role) ==
  [n \in DOMAIN written |-> IF n \in Live("users", email)
                         THEN [written[n] EXCEPT !.roles = @ \cup {role}] ELSE written[n]]

GrantRole(p) ==
  /\ AtTask(p, "users", "grant")
  /\ written' = Granted(Task(p).key, ActorOf(Task(p).key).role)
  /\ Go(p, "read") /\ Same

\* rows[0].external_id: a TypeError if the account was deactivated meanwhile.
ReadUser(p) ==
  /\ AtTask(p, "users", "read")
  /\ IF Live("users", Task(p).key) = {} THEN Fails(p)
     ELSE /\ NextTask(p, [run[p] EXCEPT !.user = CHOOSE n \in Live("users", Task(p).key) : TRUE])
          /\ UNCHANGED written /\ Same

-------------------------------------------------------------------------------
(* seedServices and seedInventory. *)

LookForKey(p) ==
  /\ run[p].at = "look" /\ Task(p).table \in {"services", "inventory_items", "vehicles"}
  /\ IF Live(Task(p).table, Task(p).key) # {} THEN NextTask(p, run[p]) ELSE Go(p, "create")
  /\ UNCHANGED written /\ Same

\* The use case checks again, and the unique index is behind it.
SeedService(p) ==
  /\ AtTask(p, "services", "create")
  /\ LET row == NewRow("services", Task(p).key) IN
     IF Unique(row) THEN NextTask(p, run[p]) /\ Writes(p, row) ELSE Fails(p)

SeedItem(p) ==
  /\ AtTask(p, "inventory_items", "create")
  /\ LET row == NewRow("inventory_items", Task(p).key) IN
     IF Unique(row)
     THEN /\ run' = [run EXCEPT ![p].at = "stock", ![p].found = Len(written) + 1]
          /\ Writes(p, row)
     ELSE Fails(p)

ReplenishOpening(p) ==
  /\ AtTask(p, "inventory_items", "stock")
  /\ written' = [written EXCEPT ![run[p].found].stock = @ + OpeningStock[Task(p).key]]
  /\ NextTask(p, run[p]) /\ Same

-------------------------------------------------------------------------------
(* seedCustomerAndVehicles. *)

LookForCustomer(p) ==
  /\ AtTask(p, "customers", "look")
  /\ LET live == {n \in CustomersOf(run[p].user) : written[n].live} IN
     IF live # {} THEN NextTask(p, [run[p] EXCEPT !.customer = CHOOSE n \in live : TRUE])
     ELSE Go(p, "create")
  /\ UNCHANGED written /\ Same

\* registerOverExistingUser: the account still stands, has the role, and no
\* customer is registered for it, deactivated ones included.
RegisterCustomer(p) ==
  /\ AtTask(p, "customers", "create")
  /\ LET u == run[p].user
         row == [NewRow("customers", "") EXCEPT !.user = u] IN
     IF written[u].live /\ "CUSTOMER" \in written[u].roles /\ Unique(row)
     THEN NextTask(p, [run[p] EXCEPT !.customer = Len(written) + 1]) /\ Writes(p, row)
     ELSE Fails(p)

\* The owner is found again and is active, and the plate is free.
RegisterVehicle(p) ==
  /\ AtTask(p, "vehicles", "create")
  /\ LET row == [NewRow("vehicles", Task(p).key) EXCEPT !.owner = run[p].customer] IN
     IF written[run[p].customer].live /\ Unique(row) THEN NextTask(p, run[p]) /\ Writes(p, row)
     ELSE Fails(p)

-------------------------------------------------------------------------------
(* seed:admin, people, and a run that is stopped. *)

\* ON CONFLICT (email) DO NOTHING: another account's document is still an error.
InsertAdmin ==
  /\ admin = "idle"
  /\ LET row == [NewRow("users", Admin.email) EXCEPT !.document = Admin.document] IN
     \/ /\ Live("users", Admin.email) # {}
        /\ admin' = "granting" /\ UNCHANGED written
     \/ /\ Live("users", Admin.email) = {}
        /\ IF Unique(row) THEN admin' = "granting" /\ written' = Append(written, row)
           ELSE admin' = "done" /\ UNCHANGED written
  /\ Disturb
  /\ UNCHANGED <<run, last, starts, edits, stops>>

GrantAdmin ==
  /\ admin = "granting"
  /\ written' = Granted(Admin.email, "SUPER_ADMIN")
  /\ admin' = "done"
  /\ UNCHANGED <<run, last, disturbed, starts, edits, stops>>

\* Accounts, services, items and customers are deactivated and vehicles removed.
Deactivate(n) ==
  /\ edits < MaxEdits /\ written[n].live
  /\ written' = [written EXCEPT ![n].live = FALSE]
  /\ edits' = edits + 1 /\ Disturb
  /\ UNCHANGED <<run, admin, last, starts, stops>>

StopRun(p) ==
  /\ run[p] # NotRunning /\ stops < MaxStops
  /\ stops' = stops + 1
  /\ run' = [run EXCEPT ![p] = NotRunning]
  /\ last' = [last EXCEPT ![p] = "stopped"]
  /\ UNCHANGED <<written, admin, disturbed, starts, edits>>

-------------------------------------------------------------------------------

SeedInit ==
  /\ written = << >> /\ run = [p \in Runs |-> NotRunning] /\ admin = "idle"
  /\ last = [p \in Runs |-> "none"] /\ disturbed = [p \in Runs |-> FALSE]
  /\ starts = 0 /\ edits = 0 /\ stops = 0

SeedStep(p) ==
  /\ run[p] # NotRunning
  /\ \/ Finish(p)
     \/ run[p].task <= Len(Tasks) /\
          \/ LookForUser(p) \/ CheckDocument(p) \/ InsertUser(p) \/ GrantRole(p) \/ ReadUser(p)
          \/ LookForKey(p) \/ SeedService(p) \/ SeedItem(p) \/ ReplenishOpening(p)
          \/ LookForCustomer(p) \/ RegisterCustomer(p) \/ RegisterVehicle(p)

SeedNext ==
  \/ \E p \in Runs : StartRun(p) \/ SeedStep(p) \/ StopRun(p)
  \/ InsertAdmin \/ GrantAdmin
  \/ \E n \in DOMAIN written : Deactivate(n)

SeedSpec == SeedInit /\ [][SeedNext]_seedVars

-------------------------------------------------------------------------------
(* Properties. *)

Count(table, key) == Cardinality(Live(table, key))
Quiet == Running = {} /\ admin # "granting"

\* The rows have their columns and every run is at a task it has.
SeedTypeOK ==
  /\ \A n \in DOMAIN written : /\ written[n].table \in {"users", "services", "inventory_items",
                                                     "customers", "vehicles"}
                               /\ written[n].user < n /\ written[n].owner < n
                               /\ written[n].live \in BOOLEAN
  /\ \A p \in Runs : run[p].task \in 0 .. Len(Tasks) + 1
  /\ admin \in {"idle", "granting", "done"} /\ disturbed \in [Runs -> BOOLEAN]

\* However often and however closely it runs, the seed leaves each thing once,
\* and counts the opening stock of an item once.
SeededOnce ==
  /\ \A i \in DOMAIN Tasks :
       Tasks[i].table # "customers" => Count(Tasks[i].table, Tasks[i].key) <= 1
  /\ \A n \in DOMAIN written :
       written[n].table = "inventory_items"
         => written[n].stock \in {0, OpeningStock[written[n].key]}

\* The whole workshop is on the table: every row once, the roles granted, the
\* stock counted, and the customer owning the vehicles.
Whole ==
  /\ \A i \in DOMAIN Actors :
       \E n \in Live("users", Actors[i].email) : Actors[i].role \in written[n].roles
  /\ \A i \in DOMAIN SERVICES : Count("services", SERVICES[i]) = 1
  /\ \A i \in DOMAIN INVENTORY :
       \E n \in Live("inventory_items", INVENTORY[i]) :
         written[n].stock = OpeningStock[INVENTORY[i]]
  /\ \A i \in DOMAIN VEHICLES : \E n \in Live("vehicles", VEHICLES[i]) :
       written[n].owner # 0 /\ written[written[n].owner].live

FinishedWhole == Quiet /\ (\E p \in Runs : last[p] = "finished") => Whole
NoneFailsAlone == \A p \in Runs : last[p] = "failed" => disturbed[p]

\* Once the runs are over and the last run of some seed finished, the workshop
\* is whole, although other runs beside it failed on what that one had just
\* created; as long as nobody deactivates a row and no run is stopped.
FinishedRunsLeaveItWhole == edits = 0 /\ stops = 0 => FinishedWhole

\* A seed fails only when another one, or seed:admin, writes beside it: what
\* earlier runs left, finished or not, is skipped.
OnlyDisturbedRunsFail == edits = 0 => NoneFailsAlone

===============================================================================
