------------------------------ MODULE MCPromises ------------------------------
(***************************************************************************)
(* What must happen in the end: the registrations of customers settle,     *)
(* requests get their connections, probes are answered, mails are sent or  *)
(* given up, openings are answered and movements of the stock get their    *)
(* locks.  The components are put beside one another as in MCIdentity;     *)
(* each has the fairness its own module gives it.                          *)
(***************************************************************************)
EXTENDS CustomerRegistration, ConnectionPool, Readiness, TLC

CONSTANTS
  Parts,   \* the components that may move
  email1, email2, r1, r2, r3, NoVehicle, NoOrder, NoUser, NoRequest, c1, v1, v2, i1, i2, i3

VARIABLES
  part,                                                    \* the component that moves
  people, vehicles, stages, op, who, what, copies, row,    \* WorkOrderOpening
  listed, opening, orders,
  visit, mailed, version, request, mails, inbox, trail,    \* StatusMail
  shelf, listing, price, count, moved, out, holder,        \* InventoryCatalog
  planned, stance, does, item, copy, batch, units

-------------------------------------------------------------------------------
(* The instances. *)

\* Two registrations give one email.
SameEmail == [r \in Registrations |-> email1]

\* Requests whose transactions need no second connection: one that locks the rows of
\* several items in it, and one that locks none.
StockKinds == {"ConsumeStockBatch", "SaveSession"}

\* The registration of a user, whose transaction does need one.
NewAccounts == {"RegisterUser"}

OneUser == c1 :> "user"
Plates == v1 :> "plate 1" @@ v2 :> "plate 2"
Garage == v1 :> c1 @@ v2 :> c1
Openings == INSTANCE WorkOrderOpening WITH
  Customers <- {c1}, Users <- {"user"}, Vehicles <- {v1, v2}, Plates <- {"plate 1", "plate 2"},
  UserOf <- OneUser, PlateOf <- Plates, Registered <- {c1}, Owned <- Garage,
  Requests <- {"desk"}, Ops <- {"deactivate"}, Openings <- {"first", "second"},
  Offers <- {"item"}, Numbers <- {"number"}, MaxDraws <- 5,
  customers <- people, stage <- stages, does <- op, standing <- copies

ServicePrice == [s \in {"service"} |-> 3]
PartPrice == [p \in {} |-> 0]
Mail == INSTANCE StatusMail WITH
  Services <- {"service"}, Parts <- {}, Users <- {"mechanic"}, MaxPlanned <- 1,
  Discounts <- {}, MaxGenerations <- 2, Requests <- {"desk"}, MaxVersion <- 2,
  wo <- visit, links <- mailed

SkuOfItem == i1 :> "sku 1" @@ i2 :> "sku 2" @@ i3 :> "sku 3"
Keys == i1 :> 1 @@ i2 :> 2 @@ i3 :> 3
Stock == INSTANCE InventoryCatalog WITH
  Items <- {i1, i2, i3}, Skus <- {"sku 1", "sku 2", "sku 3"}, Prices <- {10},
  SkuOf <- SkuOfItem, Key <- Keys, Stocked <- {i1, i2, i3}, Opening <- 1, MaxUnits <- 1,
  ItemRequests <- {"one", "other"}, ItemOps <- {"adjust", "consume", "restore"},
  rows <- shelf, status <- listing, at <- stance, op <- does

ASSUME Stock!CatalogAssumption
ASSUME Openings!RegistryAssumption /\ Openings!OpeningAssumption

-------------------------------------------------------------------------------
(* The composition. *)

PromisesInit ==
  /\ part \in Parts
  /\ Init /\ PoolInit /\ ReadinessInit /\ Openings!WorkshopInit /\ Mail!MailInit
  /\ Stock!ItemsInit

ofRegistrations == <<accounts, logins, customers, status, due, attempts, at, claim,
  working, faults>>
ofPool == <<stage, steps, rows, tx, ambient, conn, free, waiting, owner>>
ofProbes == <<now, probe, late, replied, report>>
ofOpenings == <<people, vehicles, stages, op, who, what, copies, row, listed,
  opening, orders>>
ofMails == <<visit, mailed, version, request, mails, inbox, trail>>
ofStock == <<shelf, listing, price, count, moved, out, holder, planned, stance, does,
  item, copy, batch, units>>
promisesVars == <<part, ofRegistrations, ofPool, ofProbes, ofOpenings, ofMails, ofStock>>

\* Nothing but this component moves.
Only(p) ==
  /\ part = p /\ UNCHANGED part
  /\ p # "registrations" => UNCHANGED ofRegistrations
  /\ p # "pool" => UNCHANGED ofPool
  /\ p # "probes" => UNCHANGED ofProbes
  /\ p # "openings" => UNCHANGED ofOpenings
  /\ p # "mails" => UNCHANGED ofMails
  /\ p # "stock" => UNCHANGED ofStock

PromisesNext ==
  \/ Only("registrations") /\ Next
  \/ Only("pool") /\ PoolNext
  \/ Only("probes") /\ ReadinessNext
  \/ Only("openings") /\ Openings!WorkshopNext
  \/ Only("mails") /\ Mail!MailNext
  \/ Only("stock") /\ Stock!ItemsNext

\* The fairness of each component, for when it is the one that moves.
PromisesFairness ==
  /\ \A r \in Registrations :
       /\ WF_ofRegistrations(part = "registrations" /\ Request(r))
       /\ WF_ofRegistrations(part = "registrations" /\ TimePasses(r))
  /\ \A k \in Workers : WF_ofRegistrations(part = "registrations" /\ Work(k))
  /\ \A r \in Requests : WF_poolVars(part = "pool" /\ Step(r))
  /\ WF_readinessVars(part = "probes" /\ Tick) /\ WF_readinessVars(part = "probes" /\ Report)
  /\ \A d \in Dependencies :
       /\ WF_readinessVars(part = "probes" /\ Expire(d))
       /\ WF_readinessVars(part = "probes" /\ LateAnswer(d))
  /\ \A n \in {"first", "second"} : WF_ofOpenings(part = "openings" /\ Openings!OpeningStep(n))
  /\ \A v \in 0 .. 2 : WF_ofMails(part = "mails" /\ v \in DOMAIN mails /\ Mail!Mail(v))
  /\ \A r \in {"one", "other"} : WF_ofStock(part = "stock" /\ Stock!Proceed(r))

PromisesSpec == PromisesInit /\ [][PromisesNext]_promisesVars /\ PromisesFairness

-------------------------------------------------------------------------------
(* Properties; UsedAccountsExist, KeepsPromise, ConnectionsAreAccountedFor, *)
(* ReadyMeansAllAnswered and PoolIsNeverStuck are those of the components.  *)

\* Every request is answered although others hold what it waits for: connections and
\* rows of the database, a number that is taken, locks on items in no agreed order.
RequestsEnd ==
  /\ EveryRequestEnds
  /\ Openings!OpeningsAreAnswered
  /\ Stock!RequestsFinish

\* Whoever does not answer holds nobody up: a probe is answered in the time it has, and
\* the mail of every change is sent or given up, unless the process stops.
SilenceIsSurvived ==
  /\ EveryProbeIsAnswered
  /\ part = "mails" => Mail!ChangesAreTold
===============================================================================
