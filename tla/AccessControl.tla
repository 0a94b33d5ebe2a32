---------------------------- MODULE AccessControl ----------------------------
(***************************************************************************)
(* Roles, their permissions, who holds them, and the cache of what a user  *)
(* may do.  Every guarded request first learns the access of its actor,    *)
(* from the cache or from the database, and then changes roles or          *)
(* assignments; the requests run at once.  An assignment drops the cached  *)
(* entry of its user by an event that is handled after the answer and may  *)
(* fail; an entry expires by itself, at no particular moment here.         *)
(***************************************************************************)
EXTENDS Naturals, FiniteSets

CONSTANTS
  People, RoleIds, Names,
  Permissions,   \* permissions a role may be given
  Seeded,        \* the roles of the seed migration: a function from some RoleIds
  Holders,       \* the assignments at the start, pairs of a user and a role
  NoRole,        \* no row in roles
  NoEntry,       \* nothing cached
  RoleRequests,  \* requests that may be in flight at once
  Ops,           \* what they may do, of AllOps
  MayFail        \* whether an invalidation may fail

AllOps == {"assign", "revoke", "create", "rename", "set permissions", "delete"}

AccessType == [roles : SUBSET Names, permissions : SUBSET Permissions]
RoleType == [name : Names, isSystem : BOOLEAN, permissions : SUBSET Permissions]
EntryType == [access : AccessType, seen : Nat]

\* What an instance must make of the constants: the seed migration creates
\* system roles of different names, SUPER_ADMIN among them, and a null is no row.
AccessAssumption ==
  /\ Ops \subseteq AllOps /\ MayFail \in BOOLEAN
  /\ DOMAIN Seeded \subseteq RoleIds /\ Holders \subseteq People \X DOMAIN Seeded
  /\ \A i \in DOMAIN Seeded : Seeded[i] \in RoleType /\ Seeded[i].isSystem
  /\ \A i, j \in DOMAIN Seeded : Seeded[i].name = Seeded[j].name => i = j
  /\ \E i \in DOMAIN Seeded : Seeded[i].name = "SUPER_ADMIN"
  /\ NoRole \notin RoleType /\ NoEntry \notin EntryType

VARIABLES
  roles,        \* the rows of roles with their rows of role_permissions
  holds,        \* the rows of user_roles
  cache,        \* Redis: the cached access of each user
  changes,      \* history: how often the assignments of each user have changed
  dropped,      \* history: the last change of each user whose invalidation ran
  events,       \* invalidations under way: a user and its change
  asking        \* where each request is and what it holds

tables == <<roles, holds, changes>>
accessVars == <<tables, cache, dropped, events, asking>>

Nobody == [roles |-> {}, permissions |-> {}]
NotAsked == [at |-> "idle", op |-> "none", actor |-> "none", for |-> "guard", access |-> Nobody,
             seen |-> 0, role |-> "none", user |-> "none", copy |-> NoRole]

AccessInit ==
  /\ roles = [i \in RoleIds |-> IF i \in DOMAIN Seeded THEN Seeded[i] ELSE NoRole]
  /\ holds = Holders
  /\ cache = [u \in People |-> NoEntry]
  /\ changes = [u \in People |-> 0]
  /\ dropped = [u \in People |-> 0]
  /\ events = {}
  /\ asking = [r \in RoleRequests |-> NotAsked]

\* A request with some of its fields changed.
With(old, fields) == [f \in DOMAIN old |-> IF f \in DOMAIN fields THEN fields[f] ELSE old[f]]

Refused == With(NotAsked, [at |-> "refused"])

Proceed(r, from, state) ==
  /\ asking[r].at = from
  /\ asking' = [asking EXCEPT ![r] = With(@, state)]

-------------------------------------------------------------------------------
(* Effective access: EffectiveAccessService over the cache and the reader. *)

Existing == {i \in RoleIds : roles[i] # NoRole}
RolesOf(u) == {i \in Existing : <<u, i>> \in holds}

\* One query over user_roles, roles and role_permissions.
Effective(u) ==
  [roles |-> {roles[i].name : i \in RolesOf(u)},
   permissions |-> UNION {roles[i].permissions : i \in RolesOf(u)}]

Required(op) == IF op \in {"assign", "revoke"} THEN "user-access:manage" ELSE "roles:manage"

\* Where a request goes once it knows the access of its actor: PermissionsGuard
\* before it begins, the escalation rule while it assigns ADMIN.
Decision(req, access) ==
  CASE req.for = "guard" /\ Required(req.op) \in access.permissions -> "allowed"
    [] req.for = "escalation" /\ "SUPER_ADMIN" \in access.roles -> "cleared"
    [] OTHER -> "refused"

\* cache.get: a hit decides, a miss goes on to read.
Looked(req) ==
  LET entry == cache[req.actor] IN
  IF entry = NoEntry THEN With(req, [at |-> "missed"])
  ELSE With(req, [at |-> Decision(req, entry.access)])

Enter(r, actor, op, role, user) ==
  /\ asking[r].at = "idle"
  /\ op \in Ops
  /\ op \in {"assign", "revoke"} \/ user = actor
  /\ asking' = [asking EXCEPT ![r] =
       Looked(With(NotAsked, [actor |-> actor, op |-> op, role |-> role, user |-> user]))]
  /\ UNCHANGED <<tables, cache, dropped, events>>

ReadAccess(r) ==
  /\ asking[r].at = "missed"
  /\ Proceed(r, "missed", [at |-> "read", access |-> Effective(asking[r].actor),
                           seen |-> changes[asking[r].actor]])
  /\ UNCHANGED <<tables, cache, dropped, events>>

\* cache.set, whatever has changed or been dropped since the read.
FillCache(r) ==
  LET req == asking[r] IN
  /\ Proceed(r, "read", [at |-> Decision(req, req.access), access |-> Nobody, seen |-> 0])
  /\ cache' = [cache EXCEPT ![req.actor] = [access |-> req.access, seen |-> req.seen]]
  /\ UNCHANGED <<tables, dropped, events>>

-------------------------------------------------------------------------------
(* Assignments. *)

\* The event of a change starts its subscriber, which nobody waits for.
Published(u) ==
  /\ changes' = [changes EXCEPT ![u] = @ + 1]
  /\ events' = events \cup {[user |-> u, change |-> changes[u] + 1]}

\* Mutation: any role may be assigned by whoever may assign roles.
ResolveRoleUnchecked(r) ==
  LET req == asking[r] IN
  /\ req.at = "allowed" /\ req.op = "assign"
  /\ asking' = [asking EXCEPT ![r] =
       IF roles[req.role] = NoRole THEN Refused ELSE With(req, [at |-> "cleared"])]
  /\ UNCHANGED <<tables, cache, dropped, events>>

\* resolveRole and ensureAssignable: ADMIN needs a second look at the actor.
ResolveRole(r) ==
  LET req == asking[r]
      name == roles[req.role].name
  IN
  /\ req.at = "allowed" /\ req.op = "assign"
  /\ asking' = [asking EXCEPT ![r] =
       IF roles[req.role] = NoRole \/ name = "SUPER_ADMIN" THEN Refused
       ELSE IF name = "ADMIN" THEN Looked(With(req, [for |-> "escalation"]))
       ELSE With(req, [at |-> "cleared"])]
  /\ UNCHANGED <<tables, cache, dropped, events>>

\* insert or ignore, by the id of a role that may be gone; the event either way.
AssignRoleToUser(r) ==
  LET req == asking[r] IN
  /\ req.at = "cleared"
  /\ UNCHANGED <<roles, cache, dropped>>
  /\ IF roles[req.role] = NoRole
       THEN Proceed(r, "cleared", Refused) /\ UNCHANGED <<holds, changes, events>>
       ELSE /\ Proceed(r, "cleared", [at |-> "done"])
            /\ holds' = holds \cup {<<req.user, req.role>>}
            /\ Published(req.user)

\* The event only when a row was there to delete.
RemoveRoleFromUser(r) ==
  LET req == asking[r] IN
  /\ req.op = "revoke"
  /\ Proceed(r, "allowed", IF roles[req.role] = NoRole THEN Refused ELSE [at |-> "done"])
  /\ holds' = holds \ {<<req.user, req.role>>}
  /\ IF <<req.user, req.role>> \in holds THEN Published(req.user) ELSE UNCHANGED <<changes, events>>
  /\ UNCHANGED <<roles, cache, dropped>>

\* AccessCacheInvalidationSubscriber, or its failure, which is logged.
Invalidate(e) ==
  /\ e \in events
  /\ events' = events \ {e}
  /\ \/ /\ cache' = [cache EXCEPT ![e.user] = NoEntry]
        /\ dropped' = [dropped EXCEPT ![e.user] = IF e.change > @ THEN e.change ELSE @]
     \/ MayFail /\ UNCHANGED <<cache, dropped>>
  /\ UNCHANGED <<tables, asking>>

Expire(u) ==
  /\ cache[u] # NoEntry
  /\ cache' = [cache EXCEPT ![u] = NoEntry]
  /\ UNCHANGED <<tables, dropped, events, asking>>

-------------------------------------------------------------------------------
(* Roles. *)

NameTaken(name) == \E i \in Existing : roles[i].name = name

CreateRole(r) ==
  LET req == asking[r] IN
  /\ req.at = "allowed" /\ req.op = "create"
  /\ \E name \in Names, ps \in SUBSET Permissions :
       asking' = [asking EXCEPT ![r] =
         IF NameTaken(name) THEN Refused
         ELSE With(req, [at |-> "loaded",
                         copy |-> [name |-> name, isSystem |-> FALSE, permissions |-> ps]])]
  /\ roles[req.role] = NoRole
  /\ UNCHANGED <<tables, cache, dropped, events>>

\* Role.update with a name: NoRole when a system role would change its name.
Rename(copy, name) ==
  IF name # copy.name /\ copy.isSystem THEN NoRole ELSE [copy EXCEPT !.name = name]

UpdateRole(r) ==
  LET req == asking[r] IN
  /\ req.at = "allowed" /\ req.op = "rename"
  /\ \E name \in Names :
       asking' = [asking EXCEPT ![r] =
         IF \/ roles[req.role] = NoRole
            \/ name # roles[req.role].name /\ NameTaken(name)
            \/ Rename(roles[req.role], name) = NoRole
           THEN Refused
           ELSE With(req, [at |-> "loaded", copy |-> Rename(roles[req.role], name)])]
  /\ UNCHANGED <<tables, cache, dropped, events>>

SetRolePermissions(r) ==
  LET req == asking[r] IN
  /\ req.at = "allowed" /\ req.op = "set permissions"
  /\ \E ps \in SUBSET Permissions :
       asking' = [asking EXCEPT ![r] =
         IF roles[req.role] = NoRole THEN Refused
         ELSE With(req, [at |-> "loaded", copy |-> [roles[req.role] EXCEPT !.permissions = ps]])]
  /\ UNCHANGED <<tables, cache, dropped, events>>

\* save: every column and every permission of the copy, under the unique name.
\* A role deleted since it was read is inserted again.
SaveRole(r) ==
  LET req == asking[r] IN
  /\ req.at = "loaded" /\ req.op # "delete"
  /\ IF \E i \in Existing \ {req.role} : roles[i].name = req.copy.name
       THEN Proceed(r, "loaded", Refused) /\ UNCHANGED roles
       ELSE Proceed(r, "loaded", [at |-> "done", copy |-> NoRole]) /\ roles' = [roles EXCEPT ![req.role] = req.copy]
  /\ UNCHANGED <<holds, changes, cache, dropped, events>>

FindToDelete(r) ==
  LET req == asking[r] IN
  /\ req.at = "allowed" /\ req.op = "delete"
  /\ asking' = [asking EXCEPT ![r] =
       IF roles[req.role] = NoRole \/ roles[req.role].isSystem THEN Refused
       ELSE With(req, [at |-> "loaded", copy |-> roles[req.role]])]
  /\ UNCHANGED <<tables, cache, dropped, events>>

\* The assignments and the permissions go with the row, and no event is published.
DeleteRole(r) ==
  LET req == asking[r] IN
  /\ req.op = "delete"
  /\ Proceed(r, "loaded", [at |-> "done", copy |-> NoRole])
  /\ roles' = [roles EXCEPT ![req.role] = NoRole]
  /\ holds' = {pair \in holds : pair[2] # req.role}
  /\ UNCHANGED <<changes, cache, dropped, events>>

-------------------------------------------------------------------------------
Guarded(r) ==
  \/ \E a, u \in People, op \in Ops, i \in RoleIds : Enter(r, a, op, i, u)
  \/ ReadAccess(r) \/ FillCache(r)

Assignment(r) == ResolveRole(r) \/ AssignRoleToUser(r) \/ RemoveRoleFromUser(r)

RoleChange(r) ==
  \/ CreateRole(r) \/ UpdateRole(r) \/ SetRolePermissions(r)
  \/ SaveRole(r) \/ FindToDelete(r) \/ DeleteRole(r)

AccessNext ==
  \/ \E r \in RoleRequests : Guarded(r) \/ Assignment(r) \/ RoleChange(r)
  \/ \E e \in events : Invalidate(e)
  \/ \E u \in People : Expire(u)

AccessSpec == AccessInit /\ [][AccessNext]_accessVars

-------------------------------------------------------------------------------
(* Properties. *)

\* The types of the tables and of the cache.
AccessTypeOK ==
  /\ \A i \in RoleIds : roles[i] = NoRole \/ roles[i] \in RoleType
  /\ holds \subseteq People \X Existing
  /\ \A u \in People : cache[u] = NoEntry \/ cache[u] \in EntryType
  /\ events \subseteq [user : People, change : Nat]

\* No sequence of renames, creations and stale saves gives two roles one name,
\* or takes a seeded role or its name away.
SystemRolesStay ==
  /\ \A i, j \in Existing : roles[i].name = roles[j].name => i = j
  /\ \A i \in DOMAIN Seeded : roles[i] # NoRole /\ roles[i].name = Seeded[i].name

HoldsNamed(u, name, in) == \E i \in DOMAIN Seeded : Seeded[i].name = name /\ <<u, i>> \in in

\* Whoever holds ADMIN held it from the start or was given it by somebody who
\* was SUPER_ADMIN from the start, however the roles are renamed, recreated or
\* revoked meanwhile; and nobody becomes SUPER_ADMIN.
AdminIsGrantedBySuperAdmin ==
  \A u \in People :
    /\ HoldsNamed(u, "SUPER_ADMIN", holds) => HoldsNamed(u, "SUPER_ADMIN", Holders)
    /\ HoldsNamed(u, "ADMIN", holds) =>
         \/ HoldsNamed(u, "ADMIN", Holders)
         \/ \E r \in RoleRequests : /\ asking[r].op = "assign" /\ asking[r].user = u
                                /\ HoldsNamed(asking[r].actor, "SUPER_ADMIN", Holders)

\* Whatever the caches and copies the requests decide on have missed, the
\* seeded roles stay and only who was a super administrator made one an administrator.
GrantsAreSafe == AccessTypeOK /\ SystemRolesStay /\ AdminIsGrantedBySuperAdmin
===============================================================================

