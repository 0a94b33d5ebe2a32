-------------------------------- MODULE Routes --------------------------------
(***************************************************************************)
(* The HTTP routes of the workshop, in the order the router tries them:    *)
(* the modules in the order AppModule imports them, the controllers of a   *)
(* module in its order, the handlers of a controller in the order they are *)
(* declared.  A route is its verb, its path (a segment ":" stands for a    *)
(* parameter), the permissions its guard requires and what it asks of the  *)
(* access token.  And the roles the RBAC migration seeds, with their       *)
(* permissions.                                                            *)
(***************************************************************************)
EXTENDS Naturals, Sequences

Requiring(verb, path, permission) ==
  [verb |-> verb, path |-> path, needs |-> {permission}, token |-> "own password"]

\* No @RequirePermissions: whoever is signed in, and what the use case then checks.
SignedIn(verb, path) ==
  [verb |-> verb, path |-> path, needs |-> {}, token |-> "own password"]

AllowsPendingPassword(verb, path) ==
  [verb |-> verb, path |-> path, needs |-> {}, token |-> "any password"]

Public(verb, path) ==
  [verb |-> verb, path |-> path, needs |-> {}, token |-> "none"]

-------------------------------------------------------------------------------
(* Health and identity. *)

HealthRoutes == <<
  Public("GET", <<"health", "live">>),
  Public("GET", <<"health", "ready">>) >>

UsersRoutes == <<
  Public("POST", <<"users">>),
  Requiring("POST", <<"users", "staff">>, "users:manage"),
  SignedIn("GET", <<"users", "me">>),
  SignedIn("PATCH", <<"users", "me">>),
  AllowsPendingPassword("POST", <<"users", "me", "password">>),
  Requiring("GET", <<"users">>, "users:read"),
  Requiring("GET", <<"users", ":">>, "users:read"),
  Requiring("PATCH", <<"users", ":">>, "users:manage"),
  Requiring("DELETE", <<"users", ":">>, "users:manage") >>

AuthRoutes == <<
  Public("POST", <<"auth", "sessions">>),
  Public("POST", <<"auth", "tokens">>),
  AllowsPendingPassword("DELETE", <<"auth", "sessions">>),
  SignedIn("GET", <<"auth", "sessions">>),
  SignedIn("DELETE", <<"auth", "sessions", ":">>) >>

RolesRoutes == <<
  Requiring("GET", <<"roles">>, "roles:read"),
  Requiring("POST", <<"roles">>, "roles:manage"),
  Requiring("GET", <<"roles", ":">>, "roles:read"),
  Requiring("PATCH", <<"roles", ":">>, "roles:manage"),
  Requiring("DELETE", <<"roles", ":">>, "roles:manage"),
  Requiring("PUT", <<"roles", ":", "permissions">>, "roles:manage") >>

PermissionsRoutes == <<
  Requiring("GET", <<"permissions">>, "permissions:read") >>

UserAccessRoutes == <<
  Requiring("GET", <<"users", ":", "access">>, "user-access:read"),
  Requiring("PUT", <<"users", ":", "roles", ":">>, "user-access:manage"),
  Requiring("DELETE", <<"users", ":", "roles", ":">>, "user-access:manage") >>

-------------------------------------------------------------------------------
(* The registry, the catalog and the stock. *)

CustomersRoutes == <<
  Requiring("POST", <<"customers">>, "customers:manage"),
  SignedIn("GET", <<"customers", "me">>),
  SignedIn("PATCH", <<"customers", "me">>),
  Requiring("GET", <<"customers">>, "customers:read"),
  Requiring("GET", <<"customers", ":">>, "customers:read"),
  Requiring("PATCH", <<"customers", ":">>, "customers:manage"),
  Requiring("DELETE", <<"customers", ":">>, "customers:manage") >>

VehiclesRoutes == <<
  Requiring("POST", <<"vehicles">>, "vehicles:manage"),
  SignedIn("GET", <<"vehicles", "me">>),
  Requiring("GET", <<"vehicles">>, "vehicles:read"),
  Requiring("GET", <<"vehicles", ":">>, "vehicles:read"),
  Requiring("PATCH", <<"vehicles", ":">>, "vehicles:manage"),
  Requiring("DELETE", <<"vehicles", ":">>, "vehicles:manage") >>

ServicesRoutes == <<
  Requiring("POST", <<"services">>, "services:manage"),
  Requiring("GET", <<"services">>, "services:read"),
  Requiring("GET", <<"services", ":">>, "services:read"),
  Requiring("PATCH", <<"services", ":">>, "services:manage"),
  Requiring("DELETE", <<"services", ":">>, "services:manage") >>

InventoryRoutes == <<
  Requiring("POST", <<"inventory-items">>, "inventory:manage"),
  Requiring("GET", <<"inventory-items">>, "inventory:read"),
  Requiring("GET", <<"inventory-items", "shortages">>, "inventory:read"),
  Requiring("GET", <<"inventory-items", ":">>, "inventory:read"),
  Requiring("PATCH", <<"inventory-items", ":">>, "inventory:manage"),
  Requiring("DELETE", <<"inventory-items", ":">>, "inventory:manage") >>

StockRoutes == <<
  Requiring("POST", <<"inventory-items", ":", "replenishments">>, "inventory:manage"),
  Requiring("POST", <<"inventory-items", ":", "adjustments">>, "inventory:manage"),
  Requiring("GET", <<"inventory-items", ":", "movements">>, "audit:read") >>

-------------------------------------------------------------------------------
(* Work orders. *)

OpeningRoutes == <<
  Requiring("POST", <<"work-orders">>, "work-orders:manage"),
  Requiring("GET", <<"work-orders">>, "work-orders:read") >>

OwnOrderRoutes == <<
  Requiring("GET", <<"work-orders", "me">>, "work-orders:read-own"),
  Requiring("GET", <<"work-orders", "me", ":">>, "work-orders:read-own") >>

OrderReadRoutes == <<
  Requiring("GET", <<"work-orders", "metrics", "average-execution-time">>, "metrics:read"),
  Requiring("GET", <<"work-orders", ":">>, "work-orders:read"),
  Requiring("GET", <<"work-orders", ":", "trail">>, "audit:read") >>

PlanningRoutes == <<
  Requiring("POST", <<"work-orders", ":", "services">>, "work-orders:manage"),
  Requiring("POST", <<"work-orders", ":", "parts">>, "work-orders:manage"),
  Requiring("DELETE", <<"work-orders", ":", "items", ":">>, "work-orders:manage"),
  Requiring("PUT", <<"work-orders", ":", "mechanic">>, "work-orders:manage") >>

ExecutionRoutes == <<
  Requiring("POST", <<"work-orders", ":", "diagnosis">>, "work-orders:execute"),
  Requiring("POST", <<"work-orders", ":", "diagnosis", "completion">>, "work-orders:execute"),
  Requiring("POST", <<"work-orders", ":", "budget", "supplementary">>, "work-orders:execute"),
  Requiring("POST", <<"work-orders", ":", "withdrawals">>, "work-orders:execute"),
  Requiring("POST", <<"work-orders", ":", "returns">>, "work-orders:execute") >>

\* The owning customer or a holder of work-orders:decide: for the use case to check.
DecisionRoutes == <<
  SignedIn("POST", <<"work-orders", ":", "budget", "approval">>),
  SignedIn("POST", <<"work-orders", ":", "budget", "rejection">>),
  SignedIn("POST", <<"work-orders", ":", "budgets", ":", "approval">>),
  SignedIn("POST", <<"work-orders", ":", "budgets", ":", "rejection">>) >>

ClosingRoutes == <<
  Requiring("POST", <<"work-orders", ":", "completion">>, "work-orders:read"),
  Requiring("POST", <<"work-orders", ":", "delivery">>, "work-orders:manage"),
  Requiring("POST", <<"work-orders", ":", "cancellation">>, "work-orders:cancel"),
  Requiring("POST", <<"work-orders", ":", "discount">>, "work-orders:discount") >>

-------------------------------------------------------------------------------
(* The router: the first declared route of the verb that fits the path. *)

WorkOrdersRoutes ==
  OpeningRoutes \o OwnOrderRoutes \o OrderReadRoutes \o PlanningRoutes
    \o ExecutionRoutes \o DecisionRoutes \o ClosingRoutes

IdentityRoutes ==
  UsersRoutes \o AuthRoutes \o RolesRoutes \o PermissionsRoutes \o UserAccessRoutes

AllRoutes ==
  HealthRoutes \o IdentityRoutes \o CustomersRoutes \o VehiclesRoutes \o ServicesRoutes
    \o InventoryRoutes \o StockRoutes \o WorkOrdersRoutes

RouteIds == DOMAIN AllRoutes

Fits(route, verb, path) ==
  /\ route.verb = verb
  /\ Len(route.path) = Len(path)
  /\ \A i \in DOMAIN path : route.path[i] \in {":", path[i]}

Fitting(verb, path) == {i \in RouteIds : Fits(AllRoutes[i], verb, path)}

Resolved(verb, path) == CHOOSE i \in Fitting(verb, path) :
                          \A j \in Fitting(verb, path) : i <= j

\* The route a client means to call, by its verb and its path.
Named(verb, path) == CHOOSE i \in RouteIds : AllRoutes[i].verb = verb /\ AllRoutes[i].path = path

\* The path a client sends for it: a name for every parameter.
Sent(path) == [i \in DOMAIN path |-> IF path[i] = ":" THEN "an id" ELSE path[i]]

-------------------------------------------------------------------------------
(* The seeded roles. *)

SystemRole == {"SUPER_ADMIN", "ADMIN", "SERVICE_ADVISOR", "MECHANIC", "CUSTOMER"}

AdvisorGrants ==
  {"customers:read", "customers:manage", "vehicles:read", "vehicles:manage",
   "services:read", "inventory:read", "work-orders:read", "work-orders:manage",
   "work-orders:decide", "work-orders:cancel", "metrics:read"}

MechanicGrants ==
  {"customers:read", "vehicles:read", "services:read", "inventory:read",
   "work-orders:read", "work-orders:execute"}

CustomerGrants == {"work-orders:read-own", "work-orders:decide-own"}

AdminGrants ==
  AdvisorGrants \cup MechanicGrants \cup
  {"roles:read", "users:manage", "users:read", "user-access:manage", "user-access:read",
   "permissions:read", "sessions:revoke-any", "services:manage", "inventory:manage",
   "work-orders:cancel-in-execution", "work-orders:discount", "audit:read"}

SuperAdminGrants == AdminGrants \cup {"roles:manage"}

RoleGrants ==
  [SUPER_ADMIN |-> SuperAdminGrants, ADMIN |-> AdminGrants,
   SERVICE_ADVISOR |-> AdvisorGrants, MECHANIC |-> MechanicGrants, CUSTOMER |-> CustomerGrants]

-------------------------------------------------------------------------------
(* The routes whose requests change a work order, or the account of who asks. *)

On(verb, segments) == Named(verb, <<"work-orders", ":">> \o segments)

AssignMechanic == On("PUT", <<"mechanic">>)
StartDiagnosis == On("POST", <<"diagnosis">>)
CompleteDiagnosis == On("POST", <<"diagnosis", "completion">>)
Supplement == On("POST", <<"budget", "supplementary">>)
Withdraw == On("POST", <<"withdrawals">>)
Return == On("POST", <<"returns">>)
ByLink == {On("POST", <<"budgets", ":", "approval">>), On("POST", <<"budgets", ":", "rejection">>)}
Approvals == {On("POST", <<"budget", "approval">>), On("POST", <<"budgets", ":", "approval">>)}
Rejections == {On("POST", <<"budget", "rejection">>), On("POST", <<"budgets", ":", "rejection">>)}
Complete == On("POST", <<"completion">>)
Deliver == On("POST", <<"delivery">>)
Cancel == On("POST", <<"cancellation">>)
Edits == {On("POST", <<"services">>), On("POST", <<"parts">>), On("DELETE", <<"items", ":">>)}
Discount == On("POST", <<"discount">>)
Reads == {On("GET", << >>), On("GET", <<"trail">>)}
OwnRead == Named("GET", <<"work-orders", "me", ":">>)

Commands == {AssignMechanic, StartDiagnosis, CompleteDiagnosis, Supplement, Withdraw, Return,
             Complete, Deliver, Cancel, Discount} \cup Approvals \cup Rejections \cup Edits
OrderRoutes == Commands \cup Reads \cup {OwnRead}

PasswordRoute == Named("POST", <<"users", "me", "password">>)
LogoutRoute == Named("DELETE", <<"auth", "sessions">>)
===============================================================================
