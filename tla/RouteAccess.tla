------------------------------ MODULE RouteAccess ------------------------------
(***************************************************************************)
(* Who gets through to a work order: the guards every request passes, the  *)
(* authorizers of the use cases behind them, and the roles that change     *)
(* while requests are on their way.  A request is a chain of awaits: the   *)
(* token and its session, the effective access, the order, the access      *)
(* once more for an authorizer, the save.  A save is refused when the      *)
(* order was saved since the request loaded it.                            *)
(*                                                                         *)
(* One order with one owner stands for all of them.  Of its aggregate only *)
(* what an authorizer or the flow of a visit depends on is kept; the whole *)
(* of it is in WorkOrderAggregate, the cache of the access in              *)
(* AccessControl, sessions and tokens in Sessions.                         *)
(***************************************************************************)
EXTENDS Routes, FiniteSets

CONSTANTS
  Persons,
  Owner,       \* the account of the customer the order is for
  NoOne,       \* the null of a mechanic
  SeedRoles,   \* the role each person starts with
  Newcomers,   \* staff whose password is still the temporary one
  Calls,       \* requests that may be in flight at once
  Asked,       \* the routes they may ask for
  Askers,      \* the people who sign in and ask
  FirstStatus, \* how far the visit is when the model begins
  Movers       \* the staff whose roles are assigned and revoked meanwhile

\* What an instance must make of the constants.
RouteAccessAssumption ==
  /\ Owner \in Persons /\ NoOne \notin Persons
  /\ SeedRoles \in [Persons -> SystemRole]
  /\ Newcomers \subseteq Persons
  /\ Asked \subseteq RouteIds /\ Askers \subseteq Persons
  /\ FirstStatus \in {"RECEIVED", "IN_EXECUTION"}
  /\ Movers \subseteq Persons \ {Owner}

VARIABLES
  rolesOf,  \* the roles each person holds
  pending,  \* whose password is temporary
  claims,   \* the live access tokens: for each person, their must-change-password claims
  order,    \* the row of the order
  call,     \* where each request is and what it holds
  held      \* history: every permission a person has held so far

routeVars == <<rolesOf, pending, claims, order, call, held>>

NewOrder(status) ==
  [status |-> status, mechanic |-> NoOne, withdrawn |-> FALSE,
   round |-> IF status = "RECEIVED" THEN 0 ELSE 1,
   closer |-> NoOne, answering |-> NoOne, loss |-> FALSE]
NoCall ==
  [at |-> "idle", by |-> NoOne, claim |-> "none", means |-> 1, route |-> 1, link |-> FALSE,
   target |-> NoOne, copy |-> NewOrder("RECEIVED"), fresh |-> FALSE, answer |-> "none"]

PermissionsOf(rs) == UNION {RoleGrants[role] : role \in rs}
EffectivePermissions(p) == PermissionsOf(rolesOf[p])

RoutesInit ==
  /\ rolesOf = [p \in Persons |-> {SeedRoles[p]}]
  /\ pending = Newcomers
  /\ claims = [p \in Persons |-> IF p \in Newcomers THEN {} ELSE {"own"}]
  /\ order = NewOrder(FirstStatus)
  /\ call = [r \in Calls |-> NoCall]
  /\ held = [p \in Persons |-> RoleGrants[SeedRoles[p]]]

GoOn(r, from, to) ==
  /\ call[r].at = from
  /\ call' = [call EXCEPT ![r].at = to]

Answer(r, from, answer) ==
  /\ call[r].at = from
  /\ call' = [call EXCEPT ![r] = [NoCall EXCEPT !.at = "answered", !.by = call[r].by,
                                           !.means = call[r].means, !.route = call[r].route,
                                           !.answer = answer]]

Route(r) == AllRoutes[call[r].route]

-------------------------------------------------------------------------------
(* The guards. *)

\* AccessTokenService.sign: the claim is the flag of the account at sign-in.
SignIn(p) ==
  /\ claims' = [claims EXCEPT ![p] = @ \cup {IF p \in pending THEN "must change" ELSE "own"}]
  /\ UNCHANGED <<rolesOf, pending, order, call, held>>

Send(r, p) ==
  /\ call[r].at = "idle"
  /\ \E i \in Asked, claim \in claims[p] \cup {"none"}, link \in BOOLEAN, target \in Persons :
       /\ link => "budgets" \in {AllRoutes[i].path[k] : k \in DOMAIN AllRoutes[i].path}
       /\ AllRoutes[i].path # <<"work-orders", ":", "mechanic">> => target = p
       /\ call' = [call EXCEPT ![r] =
            [NoCall EXCEPT !.at = "sent", !.by = p, !.claim = claim, !.means = i, !.link = link,
                           !.target = target,
                           !.route = Resolved(AllRoutes[i].verb, Sent(AllRoutes[i].path))]]
  /\ UNCHANGED <<rolesOf, pending, claims, order, held>>

\* PendingPasswordGuard: only some routes answer while the password is temporary.
PasswordAllows(r) == call[r].claim = "must change" => Route(r).token # "own password"

\* JwtAuthGuard and, with nothing to wait for, PendingPasswordGuard.
Authenticate(r) ==
  /\ call[r].at = "sent"
  /\ \/ Route(r).token = "none" /\ GoOn(r, "sent", "identified")
     \/ /\ Route(r).token # "none"
        /\ IF call[r].claim \notin claims[call[r].by] THEN Answer(r, "sent", "unauthorized")
           ELSE IF PasswordAllows(r) THEN GoOn(r, "sent", "identified")
           ELSE Answer(r, "sent", "password change required")
  /\ UNCHANGED <<rolesOf, pending, claims, order, held>>

\* PermissionsGuard: every permission of the route.
Admit(r) ==
  /\ call[r].at = "identified"
  /\ IF Route(r).needs \subseteq EffectivePermissions(call[r].by)
     THEN GoOn(r, "identified", "admitted") ELSE Answer(r, "identified", "forbidden")
  /\ UNCHANGED <<rolesOf, pending, claims, order, held>>

-------------------------------------------------------------------------------
(* What a request for the order does. *)

CancelableStates == {"RECEIVED", "IN_DIAGNOSIS", "AWAITING_APPROVAL", "IN_EXECUTION"}

\* The orders a command may leave of o: none when the aggregate refuses it.
Effects(i, o, by, target) ==
  CASE i = AssignMechanic /\ o.status \notin {"DELIVERED", "CANCELED"} ->
         {[o EXCEPT !.mechanic = target]}
    [] i = StartDiagnosis /\ o.status = "RECEIVED" ->
         {[o EXCEPT !.status = "IN_DIAGNOSIS", !.mechanic = IF @ = NoOne THEN by ELSE @]}
    [] i = CompleteDiagnosis /\ o.status = "IN_DIAGNOSIS" ->
         {[o EXCEPT !.status = "AWAITING_APPROVAL", !.round = 1]}
    [] i = Supplement /\ o.status = "IN_EXECUTION" ->
         {[o EXCEPT !.status = "AWAITING_APPROVAL", !.round = 2]}
    [] i \in Approvals /\ o.status = "AWAITING_APPROVAL" ->
         {[o EXCEPT !.status = "IN_EXECUTION"]}
    [] i \in Rejections /\ o.status = "AWAITING_APPROVAL" ->
         {[o EXCEPT !.status = IF o.round = 1 THEN "IN_DIAGNOSIS" ELSE "IN_EXECUTION"]}
    [] i = Withdraw /\ o.status = "IN_EXECUTION" -> {[o EXCEPT !.withdrawn = TRUE]}
    [] i = Return /\ o.status = "IN_EXECUTION" /\ o.withdrawn ->
         {[o EXCEPT !.withdrawn = left] : left \in BOOLEAN}
    [] i = Complete /\ o.status = "IN_EXECUTION" ->
         {[o EXCEPT !.status = "COMPLETED"]}
    [] i = Deliver /\ o.status = "COMPLETED" -> {[o EXCEPT !.status = "DELIVERED"]}
    [] i = Cancel /\ o.status \in CancelableStates ->
         {[o EXCEPT !.status = "CANCELED"]}
    [] i \in Edits /\ o.status \in {"RECEIVED", "IN_DIAGNOSIS", "IN_EXECUTION"} -> {o}
    [] i = Discount /\ o.status \in {"IN_EXECUTION", "COMPLETED"} -> {o}
    [] OTHER -> {}

\* BudgetDecisionAuthorizer, with the capabilities it reads.
MayDecide(by, can) == "work-orders:decide" \in can \/ by = Owner

\* WorkOrderCompletionAuthorizer.
MayComplete(o, by, can) == "work-orders:manage" \in can \/ o.mechanic = by

\* CancellationAuthorizer: parts that are out make the elevated permission necessary.
MayCancel(o, can) == ~o.withdrawn \/ "work-orders:cancel-in-execution" \in can

Load(r) ==
  /\ call[r].at = "admitted"
  /\ call[r].route \in OrderRoutes
  /\ call' = [call EXCEPT ![r].at = "loaded", ![r].copy = order, ![r].fresh = TRUE]
  /\ UNCHANGED <<rolesOf, pending, claims, order, held>>

\* The check of the use case, on the order it loaded and the access it reads now.
Authorize(r) ==
  LET q == call[r]
      can == EffectivePermissions(q.by) IN
  /\ q.at = "loaded"
  /\ CASE q.route \in Approvals \cup Rejections /\ ~MayDecide(q.by, can) ->
            Answer(r, "loaded", "not found")
       [] q.route \in ByLink /\ MayDecide(q.by, can) /\ ~q.link -> Answer(r, "loaded", "link outdated")
       [] q.route = Complete /\ ~MayComplete(q.copy, q.by, can) ->
            Answer(r, "loaded", "completion forbidden")
       [] q.route = Cancel /\ ~MayCancel(q.copy, can) ->
            Answer(r, "loaded", "cancellation forbidden")
       [] q.route = AssignMechanic /\ "MECHANIC" \notin rolesOf[q.target] ->
            Answer(r, "loaded", "not a mechanic")
       [] q.route = OwnRead /\ q.by # Owner -> Answer(r, "loaded", "not found")
       [] q.route \in Reads \/ (q.route = OwnRead /\ q.by = Owner) -> Answer(r, "loaded", "ok")
       [] OTHER -> GoOn(r, "loaded", "authorized")
  /\ UNCHANGED <<rolesOf, pending, claims, order, held>>

\* History: who completes or cancels the order, and its row at that moment.
Closing(v, by) ==
  IF v.status \in {"COMPLETED", "CANCELED"} /\ v.status # order.status
  THEN [v EXCEPT !.closer = by, !.answering = order.mechanic, !.loss = order.withdrawn]
  ELSE v

\* Mutation: the save does not look at the version.
SaveOrderOver(r) ==
  LET q == call[r]
      after == Effects(q.route, q.copy, q.by, q.target) IN
  /\ q.at = "authorized"
  /\ IF after = {}
     THEN Answer(r, "authorized", "refused") /\ UNCHANGED order
     ELSE Answer(r, "authorized", "ok") /\ order' \in {Closing(v, q.by) : v \in after}
  /\ UNCHANGED <<rolesOf, pending, claims, held>>

\* The command on the aggregate and the save, which every other copy of it then fails.
SaveOrder(r) ==
  LET q == call[r]
      after == Effects(q.route, q.copy, q.by, q.target) IN
  /\ q.at = "authorized"
  /\ IF after = {} \/ ~q.fresh
     THEN Answer(r, "authorized", "refused") /\ UNCHANGED order
     ELSE /\ order' \in {Closing(v, q.by) : v \in after}
          /\ call' = [s \in Calls |->
               IF s = r THEN [NoCall EXCEPT !.at = "answered", !.by = q.by, !.means = q.means,
                                            !.route = q.route, !.answer = "ok"]
               ELSE [call[s] EXCEPT !.fresh = FALSE]]
  /\ UNCHANGED <<rolesOf, pending, claims, held>>

-------------------------------------------------------------------------------
(* The other routes that touch what is kept here. *)

\* A changed password is one's own, and either route ends every session.
OwnAccount(r) ==
  LET by == call[r].by IN
  /\ call[r].at = "admitted"
  /\ call[r].route \in {PasswordRoute, LogoutRoute}
  /\ pending' = IF call[r].route = PasswordRoute THEN pending \ {by} ELSE pending
  /\ claims' = [claims EXCEPT ![by] = {}]
  /\ Answer(r, "admitted", "ok")
  /\ UNCHANGED <<rolesOf, order, held>>

\* Every other route is answered without a look at the order.
Elsewhere(r) ==
  /\ call[r].at = "admitted"
  /\ call[r].route \notin OrderRoutes \cup {PasswordRoute, LogoutRoute}
  /\ Answer(r, "admitted", "ok")
  /\ UNCHANGED <<rolesOf, pending, claims, order, held>>

Receive(r) ==
  /\ call[r].at = "answered"
  /\ call' = [call EXCEPT ![r] = NoCall]
  /\ UNCHANGED <<rolesOf, pending, claims, order, held>>

\* PUT and DELETE users/:userId/roles/:roleId by somebody who may: a staff role comes or goes.
ChangeRoles(p) ==
  /\ \E role \in {"SERVICE_ADVISOR", "MECHANIC"} :
       /\ rolesOf' = [rolesOf EXCEPT ![p] = IF role \in @ THEN @ \ {role} ELSE @ \cup {role}]
       /\ held' = [held EXCEPT ![p] = @ \cup PermissionsOf(rolesOf'[p])]
  /\ UNCHANGED <<pending, claims, order, call>>

Handle(r) == Load(r) \/ Authorize(r) \/ SaveOrder(r) \/ OwnAccount(r) \/ Elsewhere(r)

Sending == \E r \in Calls, p \in Askers : Send(r, p)
Serving ==
  \/ \E p \in Askers : SignIn(p)
  \/ \E p \in Movers : ChangeRoles(p)
  \/ \E r \in Calls : Authenticate(r) \/ Admit(r) \/ Handle(r) \/ Receive(r)

RoutesNext == Sending \/ Serving

RoutesSpec == RoutesInit /\ [][RoutesNext]_routeVars

-------------------------------------------------------------------------------
(* What the guards and the authorizers are for. *)

\* Every variable keeps its shape, whatever route is asked for.
RoutesTypeOK ==
  /\ rolesOf \in [Persons -> SUBSET SystemRole]
  /\ pending \subseteq Persons
  /\ claims \in [Persons -> SUBSET {"must change", "own"}]
  /\ order.mechanic \in Persons \cup {NoOne}
  /\ order.withdrawn \in BOOLEAN
  /\ \A r \in Calls : call[r].route \in RouteIds /\ call[r].by \in Persons \cup {NoOne}

\* A request reaches the handler its path was written for: no route declared before it, with
\* a parameter where this one has a word, takes its requests ("me" is not a number).
NoRouteIsShadowed ==
  \A r \in Calls : call[r].route = call[r].means

EverStaff(p) == ~(held[p] \subseteq CustomerGrants)

\* Whoever was never staff, and does not own the order, is answered the same as if it did
\* not exist: by the guards, or with a not-found; never with the order or a reason of its own.
StrangersLearnNothing ==
  \A r \in Calls :
    LET q == call[r] IN
    q.at = "answered" /\ q.route \in OrderRoutes /\ q.by # Owner /\ ~EverStaff(q.by) =>
      q.answer \in {"unauthorized", "password change required", "forbidden", "not found"}

\* An order canceled while parts were out was canceled by somebody who had been given that
\* permission, whatever was withdrawn, saved or revoked while the request was on its way.
LossesAreAuthorised ==
  order.status = "CANCELED" /\ order.loss =>
    "work-orders:cancel-in-execution" \in held[order.closer]

\* An order was completed by the mechanic it had at that moment, or by somebody who had
\* been given the management of orders.
CompletedByItsMechanicOrAManager ==
  order.status \in {"COMPLETED", "DELIVERED"} =>
    order.closer = order.answering \/ "work-orders:manage" \in held[order.closer]

\* While a password is the temporary one, nothing but the routes that allow it is handled.
NoWorkBeforeTheOwnPassword ==
  \A r \in Calls :
    call[r].at \in {"admitted", "loaded", "authorized"} /\ call[r].by \in pending =>
      Route(r).token # "own password"

\* What a person with this role alone may ask for and the order would take.
MayAsk(role, i) ==
  /\ AllRoutes[i].needs \subseteq RoleGrants[role]
  /\ i \in Approvals \cup Rejections => role = "CUSTOMER" \/ "work-orders:decide" \in RoleGrants[role]
  /\ i = Complete => role = "MECHANIC" \/ "work-orders:manage" \in RoleGrants[role]

Forward(o) ==
  {i \in Commands : \E v \in Effects(i, o, Owner, Owner) :
                      v.status \notin {o.status, "CANCELED"}}

\* A visit never has to wait for an administrator: until the vehicle is delivered, its
\* customer, an advisor or a mechanic may ask for a step that takes it on.
VisitsGoOnWithoutAdministrators ==
  order.status \notin {"DELIVERED", "CANCELED"} =>
    \E role \in {"CUSTOMER", "SERVICE_ADVISOR", "MECHANIC"} : \E i \in Forward(order) : MayAsk(role, i)

\* Every request for an order comes to the route it was written for, past all its guards
\* and authorizers, whoever asks and whatever overtakes it.
RoutesAreGuarded ==
  /\ RoutesTypeOK
  /\ NoRouteIsShadowed
  /\ StrangersLearnNothing
  /\ LossesAreAuthorised
  /\ CompletedByItsMechanicOrAManager
  /\ NoWorkBeforeTheOwnPassword
  /\ VisitsGoOnWithoutAdministrators
===============================================================================
