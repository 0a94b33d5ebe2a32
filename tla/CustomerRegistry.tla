--------------------------- MODULE CustomerRegistry ---------------------------
(***************************************************************************)
(* Customers and their vehicles.  Requests run at once; each reads what it *)
(* changes, works on the copy, and saves every column of it.  The database *)
(* keeps a user to one customer and a plate to one vehicle that is not     *)
(* removed.                                                                *)
(***************************************************************************)
EXTENDS Naturals, FiniteSets

CONSTANTS
  Customers, Users, Vehicles, Plates,
  UserOf,        \* the user each customer is registered over
  PlateOf,       \* the plate of each vehicle, which does not change
  Registered,    \* the customers there are at the start
  Owned,         \* the vehicles there are, a function to their owners
  NoVehicle,     \* no row in vehicles
  Requests,      \* requests that may run at once; each runs once
  Ops            \* what they may do, of RegistryOps

RegistryOps ==
  {"register", "update", "deactivate", "add vehicle", "edit vehicle", "transfer", "remove vehicle"}

\* The rows a vehicle may have.
VehicleRows == [owner : Customers, removed : BOOLEAN]

\* What an instance must make of the constants.
RegistryAssumption ==
  /\ Customers # {} /\ Vehicles # {} /\ NoVehicle \notin VehicleRows
  /\ UserOf \in [Customers -> Users] /\ PlateOf \in [Vehicles -> Plates]
  /\ Registered \subseteq Customers /\ Ops \subseteq RegistryOps
  /\ DOMAIN Owned \subseteq Vehicles /\ \A v \in DOMAIN Owned : Owned[v] \in Registered
  /\ \A c, d \in Registered : UserOf[c] = UserOf[d] => c = d
  /\ \A v, w \in DOMAIN Owned : PlateOf[v] = PlateOf[w] => v = w

VARIABLES
  customers,   \* the status of each customer, or "none" without a row
  vehicles,    \* the row of each vehicle
  stage,       \* where each request is
  does,        \* what it does
  who,         \* the customer it is about: its own, or the owner it gives
  what,        \* the vehicle it is about
  standing,    \* its copy of the status of its customer
  row          \* its copy of its vehicle

tables == <<customers, vehicles>>
copies == <<does, who, what, standing, row>>
registry == <<tables, stage, copies>>

RegistryInit ==
  /\ customers = [c \in Customers |-> IF c \in Registered THEN "ACTIVE" ELSE "none"]
  /\ vehicles = [v \in Vehicles |->
       IF v \in DOMAIN Owned THEN [owner |-> Owned[v], removed |-> FALSE] ELSE NoVehicle]
  /\ stage = [r \in Requests |-> "idle"]
  /\ does = [r \in Requests |-> "none"]
  /\ who \in [Requests -> {CHOOSE c \in Customers : TRUE}]
  /\ what \in [Requests -> {CHOOSE v \in Vehicles : TRUE}]
  /\ standing = [r \in Requests |-> "none"]
  /\ row = [r \in Requests |-> NoVehicle]

Reaches(r, from, to) == stage[r] = from /\ stage' = [stage EXCEPT ![r] = to]

Reads(r, o, c, v, s, vehicle) ==
  /\ o \in Ops
  /\ does' = [does EXCEPT ![r] = o]
  /\ who' = [who EXCEPT ![r] = c] /\ what' = [what EXCEPT ![r] = v]
  /\ standing' = [standing EXCEPT ![r] = s] /\ row' = [row EXCEPT ![r] = vehicle]
  /\ UNCHANGED tables

-------------------------------------------------------------------------------
(* Customers. *)

HasCustomer(u) == \E c \in Customers : UserOf[c] = u /\ customers[c] # "none"

\* Registration over an existing user; its check and its save share a transaction.
StartRegister(r, c) ==
  /\ customers[c] = "none" /\ ~HasCustomer(UserOf[c])
  /\ \A q \in Requests : does[q] = "register" => who[q] # c
  /\ Reaches(r, "idle", "saving customer")
  /\ Reads(r, "register", c, what[r], "ACTIVE", NoVehicle)

StartUpdateCustomer(r, c) ==
  /\ customers[c] # "none"
  /\ Reaches(r, "idle", "saving customer")
  /\ Reads(r, "update", c, what[r], customers[c], NoVehicle)

StartDeactivateCustomer(r, c) ==
  /\ customers[c] # "none"
  /\ Reaches(r, "idle", "saving customer")
  /\ Reads(r, "deactivate", c, what[r], "INACTIVE", NoVehicle)

UserTaken(c) == \E d \in Customers \ {c} : UserOf[d] = UserOf[c] /\ customers[d] # "none"

SaveCustomer(r) ==
  LET c == who[r] IN
  /\ Reaches(r, "saving customer", "done")
  /\ IF UserTaken(c) THEN UNCHANGED customers
     ELSE customers' = [customers EXCEPT ![c] = standing[r]]
  /\ UNCHANGED <<vehicles, copies>>

-------------------------------------------------------------------------------
(* Vehicles. *)

\* The owner is found and active.
MayOwn(c) == customers[c] = "ACTIVE"

StartAddVehicle(r, c, v) ==
  /\ vehicles[v] = NoVehicle /\ MayOwn(c)
  /\ \A q \in Requests : does[q] = "add vehicle" => what[q] # v
  /\ Reaches(r, "idle", "saving vehicle")
  /\ Reads(r, "add vehicle", c, v, "none", [owner |-> c, removed |-> FALSE])

StartEditVehicle(r, v) ==
  /\ vehicles[v] # NoVehicle
  /\ Reaches(r, "idle", "saving vehicle")
  /\ Reads(r, "edit vehicle", who[r], v, "none", vehicles[v])

StartTransfer(r, c, v) ==
  /\ vehicles[v] # NoVehicle
  /\ Reaches(r, "idle", "checking owner")
  /\ Reads(r, "transfer", c, v, "none", vehicles[v])

CheckOwner(r) ==
  /\ IF MayOwn(who[r])
     THEN /\ Reaches(r, "checking owner", "saving vehicle")
          /\ row' = [row EXCEPT ![r] = [owner |-> who[r], removed |-> row[r].removed]]
     ELSE Reaches(r, "checking owner", "done") /\ UNCHANGED row
  /\ UNCHANGED <<tables, does, who, what, standing>>

StartRemoveVehicle(r, v) ==
  /\ vehicles[v] # NoVehicle
  /\ Reaches(r, "idle", "saving vehicle")
  /\ Reads(r, "remove vehicle", who[r], v, "none",
           [owner |-> vehicles[v].owner, removed |-> TRUE])

Present(v) == vehicles[v] # NoVehicle /\ ~vehicles[v].removed

PlateTaken(r) ==
  /\ ~row[r].removed
  /\ \E w \in Vehicles \ {what[r]} : PlateOf[w] = PlateOf[what[r]] /\ Present(w)

SaveVehicle(r) ==
  /\ Reaches(r, "saving vehicle", "done")
  /\ IF PlateTaken(r) THEN UNCHANGED vehicles
     ELSE vehicles' = [vehicles EXCEPT ![what[r]] = row[r]]
  /\ UNCHANGED <<customers, copies>>

-------------------------------------------------------------------------------
RegistryNext ==
  \E r \in Requests :
    \/ SaveCustomer(r) \/ CheckOwner(r) \/ SaveVehicle(r)
    \/ \E c \in Customers :
         \/ StartRegister(r, c) \/ StartUpdateCustomer(r, c) \/ StartDeactivateCustomer(r, c)
         \/ \E v \in Vehicles : StartAddVehicle(r, c, v) \/ StartTransfer(r, c, v)
    \/ \E v \in Vehicles : StartEditVehicle(r, v) \/ StartRemoveVehicle(r, v)

RegistrySpec == RegistryInit /\ [][RegistryNext]_registry

-------------------------------------------------------------------------------
(* Properties. *)

\* The columns, the owner of a vehicle being a customer there is, and the places
\* and copies of the requests.
RegistryTypeOK ==
  /\ customers \in [Customers -> {"none", "ACTIVE", "INACTIVE"}]
  /\ vehicles \in [Vehicles -> VehicleRows \cup {NoVehicle}]
  /\ \A v \in Vehicles : vehicles[v] # NoVehicle => customers[vehicles[v].owner] # "none"
  /\ stage \in [Requests ->
       {"idle", "saving customer", "checking owner", "saving vehicle", "done"}]
  /\ does \in [Requests -> RegistryOps \cup {"none"}]
  /\ who \in [Requests -> Customers] /\ what \in [Requests -> Vehicles]
  /\ standing \in [Requests -> {"none", "ACTIVE", "INACTIVE"}]
  /\ row \in [Requests -> VehicleRows \cup {NoVehicle}]

\* A user backs at most one customer for its whole life, also when two
\* registrations over it have both found none.
OneCustomerPerUser ==
  \A c, d \in Customers :
    UserOf[c] = UserOf[d] /\ "none" \notin {customers[c], customers[d]} => c = d

\* Two vehicles that are not removed do not share a plate: not even when a stale
\* save brings back a vehicle whose plate has been given away.
PlatesAreUnique ==
  \A v, w \in Vehicles : PlateOf[v] = PlateOf[w] /\ Present(v) /\ Present(w) => v = w

===============================================================================
