------------------------------ MODULE MCIdentity ------------------------------
(***************************************************************************)
(* The components that decide who may do what, one beside the other: they  *)
(* share no variable, so a behaviour belongs to one of them, the others    *)
(* stay in their initial state, and their states add up.                   *)
(***************************************************************************)
EXTENDS AccessControl, Sessions, Users, RouteAccess, TLC

CONSTANTS
  Parts,      \* the components that may move
  u1, s1, s2, t1, t2, t3,                  \* a user, their sessions and refresh tokens
  boss, staff, superAdmin, admin, custom,  \* two employees, two seeded roles and a new one
  ana, new, email1, email2, document1, document2, secret, temporary

VARIABLES
  part    \* the component that moves

-------------------------------------------------------------------------------
(* The instances. *)

NewStaff == [email |-> email1, document |-> document1, password |-> temporary,
             status |-> "ACTIVE", mustChangePassword |-> TRUE]

AllPermissions == {"user-access:manage", "roles:manage"}
SeededRoles ==
  superAdmin :> [name |-> "SUPER_ADMIN", isSystem |-> TRUE, permissions |-> AllPermissions]
    @@ admin :> [name |-> "ADMIN", isSystem |-> TRUE, permissions |-> {"user-access:manage"}]
Granted == {<<boss, superAdmin>>, <<staff, admin>>}

Ana == ana :> NewStaff

RoleOf(p) == CASE p = "advisor" -> "SERVICE_ADVISOR" [] p = "mechanic" -> "MECHANIC"
               [] OTHER -> "CUSTOMER"
Everybody == {"owner", "stranger", "advisor", "mechanic"}
RoleOfEverybody == [p \in Everybody |-> RoleOf(p)]

VisitRoutes == RouteIds \ {PasswordRoute, LogoutRoute}
FirstSteps == {PasswordRoute, LogoutRoute, StartDiagnosis, OwnRead}
Losses == {Withdraw, Return, Cancel}
Finishing == {AssignMechanic, Complete}

\* Every route of the API but the two that end one's sessions, by one person of each kind.
Visits == INSTANCE RouteAccess WITH
  Asked <- VisitRoutes, Movers <- {}

\* These two, among the first steps of a mechanic with a temporary password.
SignIns == INSTANCE RouteAccess WITH
  Asked <- FirstSteps, Movers <- {}

\* The routes whose checks another request can overtake, two at a time.
Cancellations == INSTANCE RouteAccess WITH
  Newcomers <- {}, Asked <- Losses, Askers <- {"advisor", "mechanic"},
  FirstStatus <- "IN_EXECUTION"
Completions == INSTANCE RouteAccess WITH
  Newcomers <- {}, Asked <- Finishing, Askers <- {"advisor", "mechanic"},
  FirstStatus <- "IN_EXECUTION"

ASSUME SessionsAssumption /\ AccessAssumption /\ UsersAssumption /\ RouteAccessAssumption
ASSUME Cancellations!RouteAccessAssumption /\ Completions!RouteAccessAssumption

-------------------------------------------------------------------------------
(* The composition. *)

RouteParts == {"visits", "sign-ins", "cancellations", "completions"}

Init ==
  /\ part \in Parts
  /\ SessionsInit /\ AccessInit /\ UsersInit
  /\ IF part \in {"cancellations", "completions"} THEN Cancellations!RoutesInit ELSE RoutesInit

vars == <<part, sessionsVars, accessVars, accountVars, routeVars>>

\* Nothing but this component moves.
Only(p) ==
  /\ part = p /\ UNCHANGED part
  /\ p # "sessions" => UNCHANGED sessionsVars
  /\ p # "access" => UNCHANGED accessVars
  /\ p # "users" => UNCHANGED accountVars
  /\ p \notin RouteParts => UNCHANGED routeVars

\* Bound of two parts: one call at a time.
AllIdle == \A q \in Calls : call[q] = NoCall

Next ==
  \/ Only("sessions") /\ SessionsNext
  \/ Only("access") /\ AccessNext
  \/ Only("users") /\ UsersNext
  \/ Only("visits") /\ (Visits!Serving \/ (AllIdle /\ Visits!Sending))
  \/ Only("sign-ins") /\ (SignIns!Serving \/ (AllIdle /\ SignIns!Sending))
  \/ Only("cancellations") /\ Cancellations!RoutesNext
  \/ Only("completions") /\ Completions!RoutesNext

Spec == Init /\ [][Next]_vars

Symmetry == Permutations(Requests) \cup Permutations(Calls)
===============================================================================
