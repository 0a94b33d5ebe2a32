---------------------------- MODULE ServiceCatalog ----------------------------
(***************************************************************************)
(* The services the workshop sells.  A request reads a service, may look   *)
(* its new name up among the active ones, and saves every column of the    *)
(* copy it holds; requests run at once.  A name here is what lower() makes *)
(* of it.                                                                  *)
(***************************************************************************)
EXTENDS Naturals, FiniteSets

CONSTANTS
  Services, Names, Listed,      \* Listed: the services at the start, with their names
  NoService,                    \* no row in services
  ServiceRequests, ServiceOps   \* requests that may run at once, and what they may do

AllServiceOps == {"create", "rename", "reprice", "deactivate"}

\* The rows a service may have.
ServiceRows == [name : Names, status : {"ACTIVE", "INACTIVE"}]

\* What an instance must make of the constants.
ServiceAssumption ==
  /\ Services # {} /\ NoService \notin ServiceRows
  /\ DOMAIN Listed \subseteq Services /\ ServiceOps \subseteq AllServiceOps
  /\ \A s \in DOMAIN Listed : Listed[s] \in Names
  /\ \A s, t \in DOMAIN Listed : Listed[s] = Listed[t] => s = t

VARIABLES
  services,   \* the row of each service
  asking,     \* where each request is
  service,    \* the service it is about
  draft       \* its copy of the row

serviceVars == <<services, asking, service, draft>>

ServicesInit ==
  /\ services = [s \in Services |->
       IF s \in DOMAIN Listed THEN [name |-> Listed[s], status |-> "ACTIVE"] ELSE NoService]
  /\ asking = [r \in ServiceRequests |-> "idle"]
  /\ service \in [ServiceRequests -> {CHOOSE s \in Services : TRUE}]
  /\ draft = [r \in ServiceRequests |-> NoService]

Passes(r, from, to) == asking[r] = from /\ asking' = [asking EXCEPT ![r] = to]

Active(s) == services[s] # NoService /\ services[s].status = "ACTIVE"

\* existsActiveByName, but for the service itself.
NameInUse(name, s) == \E t \in Services \ {s} : Active(t) /\ services[t].name = name

Drafts(r, o, s, row) ==
  /\ o \in ServiceOps
  /\ service' = [service EXCEPT ![r] = s] /\ draft' = [draft EXCEPT ![r] = row]
  /\ UNCHANGED services

CreateService(r, s, name) ==
  /\ services[s] = NoService /\ \A q \in ServiceRequests : asking[q] # "idle" => service[q] # s
  /\ ~NameInUse(name, s)
  /\ Passes(r, "idle", "saving")
  /\ Drafts(r, "create", s, [name |-> name, status |-> "ACTIVE"])

\* The row is read, then the name is looked up.
RenameService(r, s, name) ==
  /\ services[s] # NoService
  /\ Passes(r, "idle", "naming")
  /\ Drafts(r, "rename", s, [name |-> name, status |-> services[s].status])

CheckName(r) ==
  /\ Passes(r, "naming", IF NameInUse(draft[r].name, service[r]) THEN "done" ELSE "saving")
  /\ UNCHANGED <<services, service, draft>>

RepriceService(r, s) ==
  /\ services[s] # NoService
  /\ Passes(r, "idle", "saving")
  /\ Drafts(r, "reprice", s, services[s])

DeactivateService(r, s) ==
  /\ services[s] # NoService
  /\ Passes(r, "idle", "saving")
  /\ Drafts(r, "deactivate", s, [name |-> services[s].name, status |-> "INACTIVE"])

\* Mutation: the status a service is saved with does not matter.
RefusedWhateverStatus(r) == NameInUse(draft[r].name, service[r])

\* The unique index over the names of the active services.
NameRefused(r) == draft[r].status = "ACTIVE" /\ NameInUse(draft[r].name, service[r])

SaveService(r) ==
  /\ Passes(r, "saving", "done")
  /\ services' = IF NameRefused(r) THEN services ELSE [services EXCEPT ![service[r]] = draft[r]]
  /\ UNCHANGED <<service, draft>>

ServicesNext ==
  \E r \in ServiceRequests :
    \/ CheckName(r) \/ SaveService(r)
    \/ \E s \in Services :
         \/ RepriceService(r, s) \/ DeactivateService(r, s)
         \/ \E name \in Names : CreateService(r, s, name) \/ RenameService(r, s, name)

ServicesSpec == ServicesInit /\ [][ServicesNext]_serviceVars

-------------------------------------------------------------------------------
(* Properties. *)

\* The columns, and the places and copies of the requests.
ServicesTypeOK ==
  /\ services \in [Services -> ServiceRows \cup {NoService}]
  /\ asking \in [ServiceRequests -> {"idle", "naming", "saving", "done"}]
  /\ service \in [ServiceRequests -> Services]
  /\ draft \in [ServiceRequests -> ServiceRows \cup {NoService}]
  /\ \A r \in ServiceRequests : asking[r] \in {"naming", "saving"} => draft[r] # NoService

\* Two active services do not share a name: not when two requests have both found
\* it free, and not when a stale save lists a service again whose name was given
\* away.
ActiveNamesAreUnique ==
  \A s, t \in Services :
    Active(s) /\ Active(t) /\ services[s].name = services[t].name => s = t

\* A deactivation that reaches its save takes the service off the list, whoever
\* has taken its name.
DeactivationsSucceed ==
  [][\A r \in ServiceRequests :
       asking[r] = "saving" /\ asking'[r] = "done" /\ draft[r].status = "INACTIVE"
         => ~Active(service[r])']_serviceVars

\* Requests at once never give two active services one name, and never cost a
\* deactivation its save.
ServicesAreSafe == [](ServicesTypeOK /\ ActiveNamesAreUnique) /\ DeactivationsSucceed

===============================================================================
