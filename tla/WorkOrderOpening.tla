--------------------------- MODULE WorkOrderOpening ---------------------------
(***************************************************************************)
(* The opening of work orders over the registry of customers and vehicles  *)
(* and over the two catalogs.  An opening looks up its customer, its       *)
(* vehicle and its items one after the other, and then saves the work      *)
(* order under a number it draws, again and again while the number is      *)
(* taken.  The requests of the registry run between any two of its steps.  *)
(***************************************************************************)
EXTENDS CustomerRegistry

CONSTANTS
  Openings,      \* the openings, each with the vehicle and the customer it names
  Offers,        \* services and parts of the two catalogs
  Numbers,       \* the numbers that may be drawn
  NoOrder,
  MaxDraws       \* MAX_NUMBER_ATTEMPTS

\* The rows a work order may have.
OrderRows ==
  [number : Numbers, vehicle : Vehicles, customer : Customers, items : SUBSET Offers,
   open : BOOLEAN]

\* What an instance must make of the constants.
OpeningAssumption ==
  /\ MaxDraws \in Nat \ {0}
  /\ NoOrder \notin OrderRows

VARIABLES
  listed,    \* the items that are active
  opening,   \* where each opening is and what it asks for
  orders     \* the row each opening left in work_orders

visits == <<listed, opening, orders>>
workshop == <<registry, visits>>

Idle ==
  [at |-> "idle", customer |-> CHOOSE c \in Customers : TRUE,
   vehicle |-> CHOOSE v \in Vehicles : TRUE, items |-> {}, draws |-> 0]

OpeningsInit ==
  /\ listed = Offers
  /\ opening = [n \in Openings |-> Idle]
  /\ orders = [n \in Openings |-> NoOrder]

WorkshopInit == RegistryInit /\ OpeningsInit

Unlist(i) ==
  /\ i \in listed /\ listed' = listed \ {i}
  /\ UNCHANGED <<registry, opening, orders>>

-------------------------------------------------------------------------------
(* CreateWorkOrderUseCase. *)

Steps(n, from, to) ==
  /\ opening[n].at = from
  /\ opening' = [opening EXCEPT ![n].at = to]
  /\ UNCHANGED <<registry, listed, orders>>

\* The customer is looked up first, and refused unless it is active.
FindCustomer(n, c, v, items) ==
  /\ opening[n].at = "idle"
  /\ opening' = [opening EXCEPT ![n] =
       [at |-> IF customers[c] = "ACTIVE" THEN "customer found" ELSE "refused",
        customer |-> c, vehicle |-> v, items |-> items, draws |-> 0]]
  /\ UNCHANGED <<registry, listed, orders>>

\* A vehicle that is removed is not found.
OwnedByCustomer(n) ==
  LET v == opening[n].vehicle IN
  Present(v) /\ vehicles[v].owner = opening[n].customer

FindVehicle(n) ==
  Steps(n, "customer found", IF OwnedByCustomer(n) THEN "vehicle found" ELSE "refused")

ResolveItems(n) ==
  Steps(n, "vehicle found", IF opening[n].items \subseteq listed THEN "drawing" ELSE "refused")

Open(n) == orders[n] # NoOrder /\ orders[n].open

\* Mutation: nothing stops a second work order of a vehicle.
NeverVisiting(v) == FALSE

Visiting(v) == \E n \in Openings : Open(n) /\ orders[n].vehicle = v
NumberTaken(number) == \E n \in Openings : orders[n] # NoOrder /\ orders[n].number = number

\* A number that is taken is drawn again, five times at most.
DrawAgain(n, number) ==
  /\ opening[n].at = "drawing" /\ NumberTaken(number)
  /\ opening' = [opening EXCEPT
       ![n].at = IF opening[n].draws + 1 = MaxDraws THEN "refused" ELSE "drawing",
       ![n].draws = opening[n].draws + 1]
  /\ UNCHANGED <<registry, listed, orders>>

\* The save: a vehicle in the workshop is a conflict, which no draw repeats.
SaveOpened(n, number) ==
  LET new == opening[n] IN
  /\ new.at = "drawing" /\ ~NumberTaken(number) /\ ~Visiting(new.vehicle)
  /\ orders' = [orders EXCEPT ![n] =
       [number |-> number, vehicle |-> new.vehicle, customer |-> new.customer,
        items |-> new.items, open |-> TRUE]]
  /\ opening' = [opening EXCEPT ![n].at = "opened"]
  /\ UNCHANGED <<registry, listed>>

RefuseVisiting(n) ==
  /\ Visiting(opening[n].vehicle)
  /\ Steps(n, "drawing", "refused")

\* The work order is delivered or canceled.
CloseOrder(n) ==
  /\ Open(n)
  /\ orders' = [orders EXCEPT ![n].open = FALSE]
  /\ UNCHANGED <<registry, listed, opening>>

-------------------------------------------------------------------------------
OpeningStep(n) ==
  \/ FindVehicle(n) \/ ResolveItems(n) \/ RefuseVisiting(n)
  \/ \E number \in Numbers : DrawAgain(n, number) \/ SaveOpened(n, number)

WorkshopNext ==
  \/ RegistryNext /\ UNCHANGED visits
  \/ \E i \in Offers : Unlist(i)
  \/ \E n \in Openings :
       \/ OpeningStep(n) \/ CloseOrder(n)
       \/ \E c \in Customers, v \in Vehicles, items \in SUBSET Offers :
            FindCustomer(n, c, v, items)

WorkshopSpec == WorkshopInit /\ [][WorkshopNext]_workshop

\* An opening that has begun goes on.
FairWorkshopSpec == WorkshopSpec /\ \A n \in Openings : WF_workshop(OpeningStep(n))

-------------------------------------------------------------------------------
(* Properties. *)

OpeningType ==
  [at : {"idle", "customer found", "vehicle found", "drawing", "opened", "refused"},
   customer : Customers, vehicle : Vehicles, items : SUBSET Offers, draws : 0 .. MaxDraws]

\* The work orders and the openings.
OpeningsTypeOK ==
  /\ RegistryTypeOK
  /\ listed \subseteq Offers
  /\ opening \in [Openings -> OpeningType]
  /\ \A n \in Openings : opening[n].at = "opened" <=> orders[n] # NoOrder
  /\ orders \in [Openings -> OrderRows \cup {NoOrder}]
  /\ \A n \in Openings : orders[n] # NoOrder => vehicles[orders[n].vehicle] # NoVehicle

\* One visit of a vehicle at a time, however many openings looked it up at once,
\* and one number for each work order.
OneOpenOrderPerVehicle ==
  \A m, n \in Openings :
    /\ Open(m) /\ Open(n) /\ orders[m].vehicle = orders[n].vehicle => m = n
    /\ NoOrder \notin {orders[m], orders[n]} /\ orders[m].number = orders[n].number => m = n

\* Every opening is answered, whatever numbers are drawn.
OpeningsAreAnswered ==
  \A n \in Openings : opening[n].at # "idle" ~> opening[n].at \in {"opened", "refused"}

\* The customer of a work order owns its vehicle, although the opening looks them up
\* one after the other and saves later still: only a transfer can part them.
CustomerOwnedVehicle ==
  (\A r \in Requests : does[r] # "transfer") =>
    \A n \in Openings :
      orders[n] # NoOrder => vehicles[orders[n].vehicle].owner = orders[n].customer

\* Requests that overtake each other never give a user two customers, a plate two
\* vehicles, a vehicle two open visits or a visit a vehicle its customer did not own.
CustomersAreSafe ==
  /\ RegistryTypeOK /\ OneCustomerPerUser /\ PlatesAreUnique
  /\ OpeningsTypeOK /\ OneOpenOrderPerVehicle /\ CustomerOwnedVehicle

===============================================================================
