---------------------------- MODULE IdentityProofs ----------------------------
(***************************************************************************)
(* Theorems about AccessControl, for every set of people, roles, names,    *)
(* permissions and requests, and whether or not an invalidation may fail,  *)
(* about Sessions, for every set of users, sessions, tokens and requests,  *)
(* all lifetimes, and wherever the process stops, and about Users, for     *)
(* every set of accounts and requests.                                     *)
(***************************************************************************)
EXTENDS AccessControl, Sessions, Users, FiniteSetTheorems, TLAPS

-------------------------------------------------------------------------------
(* Access control: the inductive invariant. *)

Super(u) == HoldsNamed(u, "SUPER_ADMIN", Holders)

\* A role that may be handed out, by a super administrator if it is ADMIN.
Grantable(role, actor) ==
  role \in DOMAIN Seeded =>
    Seeded[role].name # "SUPER_ADMIN" /\ (Seeded[role].name = "ADMIN" => Super(actor))

AskType ==
  [at : {"idle", "missed", "read", "allowed", "cleared", "loaded", "done", "refused"},
   op : AllOps \cup {"none"}, actor : People \cup {"none"}, for : {"guard", "escalation"},
   access : AccessType, seen : Nat, role : RoleIds \cup {"none"}, user : People \cup {"none"},
   copy : RoleType \cup {NoRole}]

\* What a request holds is what it was allowed to hold when it read it, and
\* stays so: no part of this depends on the tables or the cache as they are now.
AskSound(q) ==
  /\ q \in AskType
  /\ q.at \notin {"idle", "refused"} =>
       q.op \in AllOps /\ q.actor \in People /\ q.user \in People /\ q.role \in RoleIds
  /\ q.at = "read" /\ "SUPER_ADMIN" \in q.access.roles => Super(q.actor)
  /\ q.at \in {"missed", "read"} /\ q.for = "escalation" =>
       /\ q.op = "assign"
       /\ q.role \in DOMAIN Seeded => Seeded[q.role].name # "SUPER_ADMIN"
  /\ q.at = "cleared" => q.op = "assign"
  /\ q.at \in {"cleared", "done"} /\ q.op = "assign" => Grantable(q.role, q.actor)
  /\ q.at = "loaded" =>
       /\ q.op # "assign"
       /\ q.op = "delete" => q.role \notin DOMAIN Seeded
       /\ q.op # "delete" => q.copy # NoRole
       /\ q.op # "delete" /\ q.role \in DOMAIN Seeded =>
            q.copy.name = Seeded[q.role].name /\ q.copy.isSystem

RolesSound ==
  /\ roles \in [RoleIds -> RoleType \cup {NoRole}]
  /\ SystemRolesStay
  /\ \A i \in DOMAIN Seeded : roles[i].isSystem

\* An entry of the cache never shows a super administrator who was none.
CacheSound ==
  /\ cache \in [People -> EntryType \cup {NoEntry}]
  /\ \A u \in People :
       cache[u] # NoEntry /\ "SUPER_ADMIN" \in cache[u].access.roles => Super(u)

\* Who was made an administrator was so by a request that is answered, and an
\* answered request is never another one.
HoldsSound ==
  /\ holds \subseteq People \X Existing
  /\ \A u \in People :
       /\ HoldsNamed(u, "SUPER_ADMIN", holds) => Super(u)
       /\ HoldsNamed(u, "ADMIN", holds) =>
            \/ HoldsNamed(u, "ADMIN", Holders)
            \/ \E r \in RoleRequests : /\ asking[r].at = "done" /\ asking[r].op = "assign"
                                       /\ asking[r].user = u /\ Super(asking[r].actor)

AInv ==
  /\ RolesSound /\ CacheSound /\ HoldsSound
  /\ changes \in [People -> Nat] /\ events \subseteq [user : People, change : Nat]
  /\ DOMAIN asking = RoleRequests /\ \A r \in RoleRequests : AskSound(asking[r])

-------------------------------------------------------------------------------
(* What a request learns of its actor. *)

LEMMA EffectiveIsSound ==
  ASSUME AccessAssumption, RolesSound, HoldsSound, NEW u \in People
  PROVE  /\ Effective(u) \in AccessType
         /\ "SUPER_ADMIN" \in Effective(u).roles => Super(u)
<1>1. \A i \in Existing : i \in RoleIds /\ roles[i] \in RoleType
  BY DEF Existing, RolesSound
<1>2. Effective(u) \in AccessType
  <2>1. {roles[i].name : i \in RolesOf(u)} \subseteq Names
    BY <1>1 DEF RolesOf, RoleType
  <2>2. UNION {roles[i].permissions : i \in RolesOf(u)} \subseteq Permissions
    BY <1>1 DEF RolesOf, RoleType
  <2> QED BY <2>1, <2>2 DEF Effective, AccessType
<1>3. ASSUME "SUPER_ADMIN" \in Effective(u).roles PROVE Super(u)
  <2>1. PICK i \in Existing : <<u, i>> \in holds /\ roles[i].name = "SUPER_ADMIN"
    BY <1>3 DEF Effective, RolesOf
  <2>2. PICK s \in DOMAIN Seeded : Seeded[s].name = "SUPER_ADMIN"
    BY DEF AccessAssumption
  <2>3. s \in Existing /\ roles[s].name = "SUPER_ADMIN"
    BY <2>2 DEF RolesSound, SystemRolesStay, AccessAssumption, Existing
  <2>4. i = s
    BY <2>1, <2>3 DEF RolesSound, SystemRolesStay
  <2> QED BY <2>1, <2>2, <2>4 DEF HoldsSound, HoldsNamed
<1> QED BY <1>2, <1>3

LEMMA DecisionIs ==
  ASSUME NEW q, NEW known
  PROVE  /\ Decision(q, known) \in {"allowed", "cleared", "refused"}
         /\ Decision(q, known) = "cleared" =>
              q.for = "escalation" /\ "SUPER_ADMIN" \in known.roles
  BY DEF Decision

\* The request that looks its actor up in the cache.
LEMMA LookedIsSound ==
  ASSUME CacheSound, NEW q \in AskType,
         q.op \in AllOps, q.actor \in People, q.user \in People, q.role \in RoleIds,
         q.for = "escalation" =>
           /\ q.op = "assign"
           /\ q.role \in DOMAIN Seeded => Seeded[q.role].name # "SUPER_ADMIN"
  PROVE  AskSound(Looked(q)) /\ Looked(q).at # "done"
<1>1. CASE cache[q.actor] = NoEntry
  <2>1. PICK p : p = With(q, [at |-> "missed"])
    OBVIOUS
  <2>2. /\ p \in AskType /\ p.at = "missed" /\ p.for = q.for /\ p.op = q.op
        /\ p.role = q.role /\ p.actor = q.actor /\ p.user = q.user
    BY <2>1 DEF With, AskType
  <2>3. Looked(q) = p
    BY <1>1, <2>1 DEF Looked
  <2> QED BY <2>2, <2>3 DEF AskSound
<1>2. CASE cache[q.actor] # NoEntry
  <2>1. PICK to : to = Decision(q, cache[q.actor].access)
    OBVIOUS
  <2>2. /\ to \in {"allowed", "cleared", "refused"}
        /\ to = "cleared" => q.for = "escalation" /\ Super(q.actor)
    BY <1>2, <2>1, DecisionIs DEF CacheSound
  <2>3. PICK p : p = With(q, [at |-> to])
    OBVIOUS
  <2>4. /\ p \in AskType /\ p.at = to /\ p.for = q.for /\ p.op = q.op
        /\ p.role = q.role /\ p.actor = q.actor /\ p.user = q.user
    BY <2>2, <2>3 DEF With, AskType
  <2>5. Looked(q) = p
    BY <1>2, <2>1, <2>3 DEF Looked
  <2> QED BY <2>2, <2>4, <2>5 DEF AskSound, Grantable
<1> QED BY <1>1, <1>2

LEMMA RefusedIsSound ==
  /\ NotAsked \in AskType /\ AskSound(NotAsked)
  /\ AskSound(Refused) /\ Refused.at = "refused"
  /\ \A q \in AskType : With(q, Refused) = Refused
<1>1. Nobody \in AccessType
  BY DEF Nobody, AccessType
<1>2. NotAsked \in AskType /\ AskSound(NotAsked)
  BY <1>1 DEF NotAsked, AskType, AskSound, AllOps
<1>3. /\ Refused \in AskType /\ Refused.at = "refused"
  BY <1>1 DEF Refused, With, NotAsked, AskType
<1>4. ASSUME NEW q \in AskType PROVE With(q, Refused) = Refused
  BY <1>3, <1>4 DEF With, AskType
<1> QED BY <1>2, <1>3, <1>4 DEF AskSound

-------------------------------------------------------------------------------
(* What a step of a request keeps. *)

\* A request that is not answered yet goes on with what it may hold.
AskMoves(r) == asking[r].at # "done" /\ \E q : AskSound(q) /\ asking' = [asking EXCEPT ![r] = q]

LEMMA MoveKeepsAsking ==
  ASSUME AInv, NEW r \in RoleRequests, AskMoves(r)
  PROVE  DOMAIN asking' = RoleRequests /\ \A s \in RoleRequests : AskSound(asking'[s])
  BY DEF AInv, AskMoves

\* No assignment is added.
LEMMA MoveKeepsHolds ==
  ASSUME AInv, NEW r \in RoleRequests, AskMoves(r), holds' \subseteq holds,
         holds' \subseteq People \X Existing'
  PROVE  HoldsSound'
<1>1. \A s \in RoleRequests : asking[s].at = "done" => asking'[s] = asking[s]
  BY DEF AInv, AskMoves
<1>2. ASSUME NEW u \in People, NEW name, HoldsNamed(u, name, holds')
      PROVE  HoldsNamed(u, name, holds)
  BY <1>2 DEF HoldsNamed
<1>3. \A u \in People : HoldsNamed(u, "SUPER_ADMIN", holds') => Super(u)
  BY <1>2 DEF AInv, HoldsSound
<1>4. ASSUME NEW u \in People, HoldsNamed(u, "ADMIN", holds')
      PROVE  \/ HoldsNamed(u, "ADMIN", Holders)
             \/ \E s \in RoleRequests : /\ asking'[s].at = "done" /\ asking'[s].op = "assign"
                                        /\ asking'[s].user = u /\ Super(asking'[s].actor)
  BY <1>1, <1>2, <1>4 DEF AInv, HoldsSound
<1> QED BY <1>3, <1>4 DEF HoldsSound, HoldsNamed, Super

LEMMA RolesUnchanged == RolesSound /\ roles' = roles => RolesSound' /\ Existing' = Existing
  BY DEF RolesSound, SystemRolesStay, Existing

LEMMA CacheUnchanged == CacheSound /\ cache' = cache => CacheSound'
  BY DEF CacheSound, Super, HoldsNamed

\* Nothing but a request, and perhaps the cache.
LEMMA TablesAtRest ==
  ASSUME AInv, UNCHANGED <<tables, events>>, CacheSound', NEW r \in RoleRequests, AskMoves(r)
  PROVE  AInv'
<1>1. RolesSound' /\ Existing' = Existing
  BY RolesUnchanged DEF AInv, tables
<1>2. holds' = holds /\ holds \subseteq People \X Existing
  BY DEF AInv, HoldsSound, tables
<1>3. HoldsSound'
  BY <1>1, <1>2, MoveKeepsHolds
<1> QED BY <1>1, <1>3, MoveKeepsAsking DEF AInv, tables

-------------------------------------------------------------------------------
(* The requests. *)

LEMMA GuardedKeeps ==
  ASSUME AccessAssumption, AInv, NEW r \in RoleRequests, Guarded(r)
  PROVE  AInv'
<1>1. ASSUME NEW a \in People, NEW u \in People, NEW op \in Ops, NEW i \in RoleIds,
             Enter(r, a, op, i, u)
      PROVE  AInv'
  <2>1. PICK q : q = With(NotAsked, [actor |-> a, op |-> op, role |-> i, user |-> u])
    OBVIOUS
  <2>2. op \in AllOps
    BY DEF AccessAssumption
  <2>3. /\ q \in AskType /\ q.op = op /\ q.actor = a /\ q.user = u /\ q.role = i
        /\ q.for = "guard"
    BY <2>1, <2>2, RefusedIsSound DEF With, NotAsked, AskType
  <2>4. AskSound(Looked(q))
    BY <2>2, <2>3, LookedIsSound DEF AInv
  <2>5. asking' = [asking EXCEPT ![r] = Looked(q)] /\ asking[r].at # "done"
    BY <1>1, <2>1 DEF Enter
  <2>6. AskMoves(r)
    BY <2>4, <2>5 DEF AskMoves
  <2> QED BY <1>1, <2>6, TablesAtRest, CacheUnchanged DEF Enter, AInv
<1>2. CASE ReadAccess(r)
  <2>1. asking[r] \in AskType /\ asking[r].at = "missed" /\ AskSound(asking[r])
    BY <1>2 DEF ReadAccess, AInv, AskSound
  <2>2. PICK known : known = Effective(asking[r].actor)
    OBVIOUS
  <2>3. asking[r].actor \in People
    BY <2>1 DEF AskSound
  <2>4. known \in AccessType /\ ("SUPER_ADMIN" \in known.roles => Super(asking[r].actor))
    BY <2>2, <2>3, EffectiveIsSound DEF AInv
  <2>5. PICK seen \in Nat : seen = changes[asking[r].actor]
    BY <2>3 DEF AInv
  <2>6. PICK q : q = With(asking[r], [at |-> "read", access |-> known, seen |-> seen])
    OBVIOUS
  <2>7. /\ q \in AskType /\ q.at = "read" /\ q.access = known
        /\ q.for = asking[r].for /\ q.op = asking[r].op /\ q.role = asking[r].role
        /\ q.actor = asking[r].actor /\ q.user = asking[r].user
    BY <2>1, <2>4, <2>6 DEF With, AskType
  <2>8. AskSound(q)
    BY <2>1, <2>4, <2>7 DEF AskSound
  <2>9. asking' = [asking EXCEPT ![r] = q]
    BY <1>2, <2>2, <2>5, <2>6 DEF ReadAccess, Proceed
  <2>10. AskMoves(r)
    BY <2>1, <2>8, <2>9 DEF AskMoves
  <2> QED BY <1>2, <2>10, TablesAtRest, CacheUnchanged DEF ReadAccess, AInv
<1>3. CASE FillCache(r)
  <2>1. asking[r] \in AskType /\ asking[r].at = "read" /\ AskSound(asking[r])
    BY <1>3 DEF FillCache, Proceed, AInv, AskSound
  <2>2. PICK to : to = Decision(asking[r], asking[r].access)
    OBVIOUS
  <2>3. /\ to \in {"allowed", "cleared", "refused"}
        /\ to = "cleared" => asking[r].for = "escalation" /\ Super(asking[r].actor)
    BY <2>1, <2>2, DecisionIs DEF AskSound
  <2>4. PICK q : q = With(asking[r], [at |-> to, access |-> Nobody, seen |-> 0])
    OBVIOUS
  <2>5. Nobody \in AccessType
    BY DEF Nobody, AccessType
  <2>6. /\ q \in AskType /\ q.at = to
        /\ q.for = asking[r].for /\ q.op = asking[r].op /\ q.role = asking[r].role
        /\ q.actor = asking[r].actor /\ q.user = asking[r].user
    BY <2>1, <2>3, <2>4, <2>5 DEF With, AskType
  <2>7. AskSound(q)
    BY <2>1, <2>3, <2>6 DEF AskSound, Grantable
  <2>8. asking' = [asking EXCEPT ![r] = q]
    BY <1>3, <2>2, <2>4 DEF FillCache, Proceed
  <2>9. AskMoves(r)
    BY <2>1, <2>7, <2>8 DEF AskMoves
  <2>10. CacheSound'
    <3>1. PICK entry : entry = [access |-> asking[r].access, seen |-> asking[r].seen]
      OBVIOUS
    <3>2. entry \in EntryType /\ ("SUPER_ADMIN" \in entry.access.roles => Super(asking[r].actor))
      BY <2>1, <3>1 DEF AskSound, AskType, EntryType
    <3>3. cache' = [cache EXCEPT ![asking[r].actor] = entry]
      BY <1>3, <3>1 DEF FillCache
    <3> QED BY <3>2, <3>3 DEF CacheSound, AInv, Super, HoldsNamed
  <2> QED BY <1>3, <2>9, <2>10, TablesAtRest DEF FillCache
<1> QED BY <1>1, <1>2, <1>3 DEF Guarded

\* The subscriber's event of a change.
LEMMA PublishedIsSound ==
  ASSUME AInv, NEW u \in People, Published(u)
  PROVE  changes' \in [People -> Nat] /\ events' \subseteq [user : People, change : Nat]
  BY DEF AInv, Published

LEMMA AssignKeeps ==
  ASSUME AccessAssumption, AInv, NEW r \in RoleRequests, AssignRoleToUser(r)
  PROVE  AInv'
<1>1. asking[r] \in AskType /\ asking[r].at = "cleared" /\ AskSound(asking[r])
  BY DEF AssignRoleToUser, AInv, AskSound
<1>2. PICK u \in People, i \in RoleIds, actor \in People :
        u = asking[r].user /\ i = asking[r].role /\ actor = asking[r].actor
  BY <1>1 DEF AskSound
<1>3. asking[r].op = "assign" /\ Grantable(i, actor)
  BY <1>1, <1>2 DEF AskSound
<1>4. CASE roles[i] = NoRole
  <2>1. With(asking[r], Refused) = Refused
    BY <1>1, RefusedIsSound
  <2>2. AskMoves(r)
    BY <1>1, <1>2, <1>4, <2>1, RefusedIsSound DEF AssignRoleToUser, Proceed, AskMoves
  <2>3. UNCHANGED <<tables, events>> /\ CacheSound'
    BY <1>2, <1>4, CacheUnchanged DEF AssignRoleToUser, tables, AInv
  <2> QED BY <2>2, <2>3, TablesAtRest
<1>5. CASE roles[i] # NoRole
  <2>1. PICK q : q = With(asking[r], [at |-> "done"])
    OBVIOUS
  <2>2. /\ q \in AskType /\ q.at = "done" /\ q.op = "assign"
        /\ q.user = u /\ q.role = i /\ q.actor = actor
    BY <1>1, <1>2, <1>3, <2>1 DEF With, AskType
  <2>3. AskSound(q)
    BY <1>3, <2>2 DEF AskSound, AllOps
  <2>4. asking' = [asking EXCEPT ![r] = q]
    BY <1>2, <1>5, <2>1 DEF AssignRoleToUser, Proceed
  <2>5. AskMoves(r)
    BY <1>1, <2>3, <2>4 DEF AskMoves
  <2>6. holds' = holds \cup {<<u, i>>} /\ Published(u) /\ roles' = roles /\ cache' = cache
    BY <1>2, <1>5 DEF AssignRoleToUser
  <2>7. RolesSound' /\ Existing' = Existing /\ CacheSound' /\ i \in Existing
    BY <1>5, <2>6, RolesUnchanged, CacheUnchanged DEF AInv, Existing
  <2>8. HoldsSound'
    <3>1. \A s \in RoleRequests : asking[s].at = "done" => asking'[s] = asking[s]
      BY <1>1, <2>4 DEF AInv
    <3>2. asking'[r] = q
      BY <2>4 DEF AInv
    <3>3. ASSUME NEW w \in People, NEW name, HoldsNamed(w, name, holds')
          PROVE  \/ HoldsNamed(w, name, holds)
                 \/ w = u /\ i \in DOMAIN Seeded /\ Seeded[i].name = name
      BY <2>6, <3>3 DEF HoldsNamed
    <3>4. ASSUME NEW w \in People, HoldsNamed(w, "SUPER_ADMIN", holds') PROVE Super(w)
      BY <1>3, <3>3, <3>4 DEF AInv, HoldsSound, Grantable
    <3>5. ASSUME NEW w \in People, HoldsNamed(w, "ADMIN", holds')
          PROVE  \/ HoldsNamed(w, "ADMIN", Holders)
                 \/ \E s \in RoleRequests : /\ asking'[s].at = "done" /\ asking'[s].op = "assign"
                                            /\ asking'[s].user = w /\ Super(asking'[s].actor)
      <4>1. CASE HoldsNamed(w, "ADMIN", holds)
        BY <3>1, <4>1 DEF AInv, HoldsSound
      <4>2. CASE w = u /\ i \in DOMAIN Seeded /\ Seeded[i].name = "ADMIN"
        BY <1>3, <2>2, <3>2, <4>2 DEF Grantable
      <4> QED BY <3>3, <3>5, <4>1, <4>2
    <3>6. holds' \subseteq People \X Existing'
      BY <2>6, <2>7 DEF AInv, HoldsSound
    <3> QED BY <3>4, <3>5, <3>6 DEF HoldsSound, HoldsNamed, Super
  <2> QED BY <2>5, <2>6, <2>7, <2>8, MoveKeepsAsking, PublishedIsSound DEF AInv
<1> QED BY <1>4, <1>5

LEMMA AssignmentKeeps ==
  ASSUME AccessAssumption, AInv, NEW r \in RoleRequests, Assignment(r)
  PROVE  AInv'
<1>1. CASE ResolveRole(r)
  <2>1. asking[r] \in AskType /\ asking[r].at = "allowed" /\ asking[r].op = "assign"
        /\ AskSound(asking[r])
    BY <1>1 DEF ResolveRole, AInv, AskSound
  <2>2. PICK i \in RoleIds : i = asking[r].role
    BY <2>1 DEF AskSound
  <2>3. \A s \in DOMAIN Seeded : roles[s].name = Seeded[s].name
    BY DEF AInv, RolesSound, SystemRolesStay
  <2>4. AskMoves(r)
    <3>1. CASE roles[i] = NoRole \/ roles[i].name = "SUPER_ADMIN"
      <4>1. asking' = [asking EXCEPT ![r] = Refused]
        BY <1>1, <2>2, <3>1 DEF ResolveRole
      <4> QED BY <2>1, <4>1, RefusedIsSound DEF AskMoves
    <3>2. CASE roles[i] # NoRole /\ roles[i].name = "ADMIN"
      <4>1. PICK q : q = With(asking[r], [for |-> "escalation"])
        OBVIOUS
      <4>2. /\ q \in AskType /\ q.op = "assign" /\ q.for = "escalation"
            /\ q.user = asking[r].user /\ q.role = i /\ q.actor = asking[r].actor
        BY <2>1, <2>2, <4>1 DEF With, AskType
      <4>3. i \in DOMAIN Seeded => Seeded[i].name # "SUPER_ADMIN"
        BY <2>3, <3>2
      <4>4. AskSound(Looked(q))
        BY <2>1, <2>2, <4>2, <4>3, LookedIsSound DEF AskSound, AInv
      <4>5. asking' = [asking EXCEPT ![r] = Looked(q)]
        BY <1>1, <2>2, <3>2, <4>1 DEF ResolveRole
      <4> QED BY <2>1, <4>4, <4>5 DEF AskMoves
    <3>3. CASE roles[i] # NoRole /\ roles[i].name \notin {"SUPER_ADMIN", "ADMIN"}
      <4>1. PICK q : q = With(asking[r], [at |-> "cleared"])
        OBVIOUS
      <4>2. /\ q \in AskType /\ q.at = "cleared" /\ q.op = "assign"
            /\ q.user = asking[r].user /\ q.role = i /\ q.actor = asking[r].actor
        BY <2>1, <2>2, <4>1 DEF With, AskType
      <4>3. AskSound(q)
        BY <2>1, <2>2, <2>3, <3>3, <4>2 DEF AskSound, Grantable
      <4>4. asking' = [asking EXCEPT ![r] = q]
        BY <1>1, <2>2, <3>3, <4>1 DEF ResolveRole
      <4> QED BY <2>1, <4>3, <4>4 DEF AskMoves
    <3> QED BY <3>1, <3>2, <3>3
  <2> QED BY <1>1, <2>4, TablesAtRest, CacheUnchanged DEF ResolveRole, AInv
<1>2. CASE RemoveRoleFromUser(r)
  <2>1. asking[r] \in AskType /\ asking[r].at = "allowed" /\ asking[r].op = "revoke"
        /\ AskSound(asking[r])
    BY <1>2 DEF RemoveRoleFromUser, Proceed, AInv, AskSound
  <2>2. AskMoves(r)
    <3>1. CASE roles[asking[r].role] = NoRole
      BY <1>2, <2>1, <3>1, RefusedIsSound DEF RemoveRoleFromUser, Proceed, AskMoves
    <3>2. CASE roles[asking[r].role] # NoRole
      <4>1. PICK q : q = With(asking[r], [at |-> "done"])
        OBVIOUS
      <4>2. /\ q \in AskType /\ q.at = "done" /\ q.op = "revoke"
            /\ q.user = asking[r].user /\ q.role = asking[r].role /\ q.actor = asking[r].actor
        BY <2>1, <4>1 DEF With, AskType
      <4>3. AskSound(q)
        BY <2>1, <4>2 DEF AskSound
      <4>4. asking' = [asking EXCEPT ![r] = q]
        BY <1>2, <3>2, <4>1 DEF RemoveRoleFromUser, Proceed
      <4> QED BY <2>1, <4>3, <4>4 DEF AskMoves
    <3> QED BY <3>1, <3>2
  <2>3. /\ holds' \subseteq holds /\ roles' = roles /\ cache' = cache
        /\ Published(asking[r].user) \/ UNCHANGED <<changes, events>>
    BY <1>2 DEF RemoveRoleFromUser
  <2>4. RolesSound' /\ Existing' = Existing /\ CacheSound'
    BY <2>3, RolesUnchanged, CacheUnchanged DEF AInv
  <2>5. HoldsSound'
    BY <2>2, <2>3, <2>4, MoveKeepsHolds DEF AInv, HoldsSound
  <2>6. changes' \in [People -> Nat] /\ events' \subseteq [user : People, change : Nat]
    BY <2>1, <2>3, PublishedIsSound DEF AskSound, AInv
  <2> QED BY <2>2, <2>4, <2>5, <2>6, MoveKeepsAsking DEF AInv
<1> QED BY <1>1, <1>2, AssignKeeps DEF Assignment

\* A request that has read a role goes on with its copy, or is refused.
LEMMA CopyIsSound ==
  ASSUME AInv, NEW r \in RoleRequests, asking[r].at = "allowed",
         asking[r].op \in {"create", "rename", "set permissions", "delete"},
         NEW copy \in RoleType \cup {NoRole},
         asking[r].op = "delete" => asking[r].role \notin DOMAIN Seeded,
         asking[r].op # "delete" => copy # NoRole,
         asking[r].op # "delete" /\ asking[r].role \in DOMAIN Seeded =>
           copy.name = Seeded[asking[r].role].name /\ copy.isSystem,
         asking' = [asking EXCEPT ![r] = With(asking[r], [at |-> "loaded", copy |-> copy])]
  PROVE  AskMoves(r)
<1>1. asking[r] \in AskType /\ AskSound(asking[r])
  BY DEF AInv, AskSound
<1>2. PICK q : q = With(asking[r], [at |-> "loaded", copy |-> copy])
  OBVIOUS
<1>3. /\ q \in AskType /\ q.at = "loaded" /\ q.copy = copy /\ q.op = asking[r].op
      /\ q.user = asking[r].user /\ q.role = asking[r].role /\ q.actor = asking[r].actor
  BY <1>1, <1>2 DEF With, AskType
<1>4. AskSound(q)
  BY <1>1, <1>3 DEF AskSound
<1> QED BY <1>2, <1>4 DEF AskMoves

LEMMA RefusalMoves ==
  ASSUME NEW r, asking[r].at # "done", asking' = [asking EXCEPT ![r] = Refused]
  PROVE  AskMoves(r)
  BY RefusedIsSound DEF AskMoves

\* What a request reads of a role, to change it.
LEMMA RoleRead ==
  ASSUME AccessAssumption, AInv, NEW r \in RoleRequests,
         CreateRole(r) \/ UpdateRole(r) \/ SetRolePermissions(r) \/ FindToDelete(r)
  PROVE  AskMoves(r)
<1>1. asking[r] \in AskType /\ asking[r].at = "allowed" /\ AskSound(asking[r])
  BY DEF CreateRole, UpdateRole, SetRolePermissions, FindToDelete, AInv, AskSound
<1>2. PICK i \in RoleIds : i = asking[r].role
  BY <1>1 DEF AskSound
<1>3. /\ roles[i] \in RoleType \cup {NoRole}
      /\ i \in DOMAIN Seeded => /\ roles[i] # NoRole /\ roles[i].name = Seeded[i].name
                                /\ roles[i].isSystem
  BY DEF AInv, RolesSound, SystemRolesStay
<1>4. CASE CreateRole(r)
  <2>1. PICK name \in Names, ps \in SUBSET Permissions :
          asking' = [asking EXCEPT ![r] =
            IF NameTaken(name) THEN Refused
            ELSE With(asking[r], [at |-> "loaded",
                   copy |-> [name |-> name, isSystem |-> FALSE, permissions |-> ps]])]
    BY <1>4 DEF CreateRole
  <2>2. PICK copy : copy = [name |-> name, isSystem |-> FALSE, permissions |-> ps]
    OBVIOUS
  <2>3. copy \in RoleType
    BY <2>2 DEF RoleType
  <2>8. copy # NoRole
    BY <2>3 DEF AccessAssumption
  <2>4. i \notin DOMAIN Seeded
    BY <1>2, <1>3, <1>4 DEF CreateRole
  <2>5. asking[r].op = "create"
    BY <1>4 DEF CreateRole
  <2>6. CASE NameTaken(name)
    BY <1>1, <2>1, <2>6, RefusalMoves
  <2>7. CASE ~NameTaken(name)
    <3>1. asking' = [asking EXCEPT ![r] = With(asking[r], [at |-> "loaded", copy |-> copy])]
      BY <2>1, <2>2, <2>7
    <3> QED BY <1>1, <1>2, <2>3, <2>4, <2>5, <2>8, <3>1, CopyIsSound
  <2> QED BY <2>6, <2>7
<1>5. CASE UpdateRole(r)
  <2>1. PICK name \in Names :
          asking' = [asking EXCEPT ![r] =
            IF \/ roles[i] = NoRole
               \/ name # roles[i].name /\ NameTaken(name)
               \/ Rename(roles[i], name) = NoRole
              THEN Refused
              ELSE With(asking[r], [at |-> "loaded", copy |-> Rename(roles[i], name)])]
    BY <1>2, <1>5 DEF UpdateRole
  <2>2. PICK copy : copy = Rename(roles[i], name)
    OBVIOUS
  <2>3. CASE roles[i] = NoRole \/ (name # roles[i].name /\ NameTaken(name)) \/ copy = NoRole
    <3>1. asking' = [asking EXCEPT ![r] = Refused]
      BY <2>1, <2>2, <2>3
    <3> QED BY <1>1, <3>1, RefusalMoves
  <2>4. CASE ~(roles[i] = NoRole \/ (name # roles[i].name /\ NameTaken(name)) \/ copy = NoRole)
    <3>1. asking' = [asking EXCEPT ![r] = With(asking[r], [at |-> "loaded", copy |-> copy])]
      BY <2>1, <2>2, <2>4
    <3>2. copy = [roles[i] EXCEPT !.name = name] /\ (name = roles[i].name \/ ~roles[i].isSystem)
      BY <2>2, <2>4 DEF Rename
    <3>3. roles[i] \in RoleType
      BY <1>3, <2>4
    <3>4. copy \in RoleType /\ copy # NoRole
      BY <2>4, <3>2, <3>3 DEF RoleType
    <3>5. i \in DOMAIN Seeded => copy.name = Seeded[i].name /\ copy.isSystem
      BY <1>3, <3>2, <3>3 DEF RoleType
    <3>6. asking[r].op = "rename"
      BY <1>5 DEF UpdateRole
    <3> QED BY <1>1, <1>2, <3>1, <3>4, <3>5, <3>6, CopyIsSound
  <2> QED BY <2>3, <2>4
<1>6. CASE SetRolePermissions(r)
  <2>1. PICK ps \in SUBSET Permissions :
          asking' = [asking EXCEPT ![r] =
            IF roles[i] = NoRole THEN Refused
            ELSE With(asking[r], [at |-> "loaded", copy |-> [roles[i] EXCEPT !.permissions = ps]])]
    BY <1>2, <1>6 DEF SetRolePermissions
  <2>2. CASE roles[i] = NoRole
    BY <1>1, <2>1, <2>2, RefusalMoves
  <2>3. CASE roles[i] # NoRole
    <3>1. PICK copy : copy = [roles[i] EXCEPT !.permissions = ps]
      OBVIOUS
    <3>2. asking' = [asking EXCEPT ![r] = With(asking[r], [at |-> "loaded", copy |-> copy])]
      BY <2>1, <2>3, <3>1
    <3>3. /\ copy \in RoleType /\ copy # NoRole
          /\ copy.name = roles[i].name /\ copy.isSystem = roles[i].isSystem
      BY <1>3, <2>3, <3>1 DEF RoleType, AccessAssumption
    <3>4. asking[r].op = "set permissions"
      BY <1>6 DEF SetRolePermissions
    <3> QED BY <1>1, <1>2, <1>3, <3>2, <3>3, <3>4, CopyIsSound
  <2> QED BY <2>2, <2>3
<1>7. CASE FindToDelete(r)
  <2>1. CASE roles[i] = NoRole \/ roles[i].isSystem
    <3>1. asking' = [asking EXCEPT ![r] = Refused]
      BY <1>2, <1>7, <2>1 DEF FindToDelete
    <3> QED BY <1>1, <3>1, RefusalMoves
  <2>2. CASE ~(roles[i] = NoRole \/ roles[i].isSystem)
    <3>1. asking' = [asking EXCEPT ![r] = With(asking[r], [at |-> "loaded", copy |-> roles[i]])]
      BY <1>2, <1>7, <2>2 DEF FindToDelete
    <3>2. asking[r].op = "delete"
      BY <1>7 DEF FindToDelete
    <3> QED BY <1>1, <1>2, <1>3, <2>2, <3>1, <3>2, CopyIsSound
  <2> QED BY <2>1, <2>2
<1> QED BY <1>4, <1>5, <1>6, <1>7

\* A request whose copy is written is done with it.
LEMMA WrittenMoves ==
  ASSUME AccessAssumption, AInv, NEW r \in RoleRequests, asking[r].at = "loaded",
         asking' = [asking EXCEPT ![r] = With(asking[r], [at |-> "done", copy |-> NoRole])]
  PROVE  AskMoves(r)
<1>1. asking[r] \in AskType /\ AskSound(asking[r])
  BY DEF AInv, AskSound
<1>2. PICK q : q = With(asking[r], [at |-> "done", copy |-> NoRole])
  OBVIOUS
<1>3. /\ q \in AskType /\ q.at = "done" /\ q.op = asking[r].op
      /\ q.user = asking[r].user /\ q.role = asking[r].role /\ q.actor = asking[r].actor
  BY <1>1, <1>2 DEF With, AskType
<1>4. AskSound(q)
  BY <1>1, <1>3 DEF AskSound
<1> QED BY <1>2, <1>4 DEF AskMoves

LEMMA RoleChangeKeeps ==
  ASSUME AccessAssumption, AInv, NEW r \in RoleRequests, RoleChange(r)
  PROVE  AInv'
<1>1. CASE CreateRole(r) \/ UpdateRole(r) \/ SetRolePermissions(r) \/ FindToDelete(r)
  <2>1. UNCHANGED <<tables, events>> /\ cache' = cache
    BY <1>1 DEF CreateRole, UpdateRole, SetRolePermissions, FindToDelete
  <2> QED BY <1>1, <2>1, RoleRead, TablesAtRest, CacheUnchanged DEF AInv
<1>2. CASE SaveRole(r)
  <2>1. asking[r] \in AskType /\ AskSound(asking[r])
        /\ asking[r].at = "loaded" /\ asking[r].op # "delete"
    BY <1>2 DEF SaveRole, Proceed, AInv, AskSound
  <2>2. PICK i \in RoleIds, copy \in RoleType : i = asking[r].role /\ copy = asking[r].copy
    BY <2>1 DEF AskSound, AskType
  <2>3. i \in DOMAIN Seeded => copy.name = Seeded[i].name /\ copy.isSystem
    BY <2>1, <2>2 DEF AskSound
  <2>4. UNCHANGED <<holds, changes, cache, events>> /\ CacheSound'
    BY <1>2, CacheUnchanged DEF SaveRole, AInv
  <2>5. CASE \E j \in Existing \ {i} : roles[j].name = copy.name
    <3>1. UNCHANGED roles /\ asking' = [asking EXCEPT ![r] = With(asking[r], Refused)]
      BY <1>2, <2>2, <2>5 DEF SaveRole, Proceed
    <3>2. With(asking[r], Refused) = Refused
      BY <2>1, RefusedIsSound
    <3>3. AskMoves(r)
      BY <2>1, <3>1, <3>2, RefusalMoves
    <3> QED BY <2>4, <3>1, <3>3, TablesAtRest DEF tables
  <2>6. CASE ~\E j \in Existing \ {i} : roles[j].name = copy.name
    <3>1. /\ roles' = [roles EXCEPT ![i] = copy]
          /\ asking' = [asking EXCEPT ![r] = With(asking[r], [at |-> "done", copy |-> NoRole])]
      BY <1>2, <2>2, <2>6 DEF SaveRole, Proceed
    <3>2. AskMoves(r)
      BY <2>1, <3>1, WrittenMoves
    <3>3. copy # NoRole /\ Existing' = Existing \cup {i}
      BY <3>1 DEF AccessAssumption, Existing, AInv, RolesSound
    <3>4. RolesSound'
      <4>1. roles' \in [RoleIds -> RoleType \cup {NoRole}]
        BY <3>1 DEF AInv, RolesSound
      <4>2. roles'[i] = copy /\ \A j \in RoleIds \ {i} : roles'[j] = roles[j]
        BY <3>1 DEF AInv, RolesSound
      <4>3. \A j \in Existing \ {i} : roles'[j] = roles[j] /\ roles[j].name # copy.name
        BY <2>6, <4>2 DEF Existing
      <4>4. ASSUME NEW j \in Existing', NEW k \in Existing', roles'[j].name = roles'[k].name
            PROVE  j = k
        BY <3>3, <4>2, <4>3, <4>4 DEF AInv, RolesSound, SystemRolesStay
      <4>5. \A j \in DOMAIN Seeded :
              roles'[j] # NoRole /\ roles'[j].name = Seeded[j].name /\ roles'[j].isSystem
        BY <2>3, <3>3, <4>2 DEF AInv, RolesSound, SystemRolesStay, AccessAssumption
      <4> QED BY <4>1, <4>4, <4>5 DEF RolesSound, SystemRolesStay
    <3>5. HoldsSound'
      BY <2>4, <3>2, <3>3, MoveKeepsHolds DEF AInv, HoldsSound
    <3> QED BY <2>4, <3>2, <3>4, <3>5, MoveKeepsAsking DEF AInv
  <2> QED BY <2>5, <2>6
<1>3. CASE DeleteRole(r)
  <2>1. asking[r] \in AskType /\ AskSound(asking[r])
        /\ asking[r].at = "loaded" /\ asking[r].op = "delete"
    BY <1>3 DEF DeleteRole, Proceed, AInv, AskSound
  <2>2. PICK i \in RoleIds : i = asking[r].role /\ i \notin DOMAIN Seeded
    BY <2>1 DEF AskSound
  <2>3. /\ roles' = [roles EXCEPT ![i] = NoRole]
        /\ holds' = {pair \in holds : pair[2] # i}
        /\ UNCHANGED <<changes, cache, events>> /\ CacheSound'
        /\ asking' = [asking EXCEPT ![r] = With(asking[r], [at |-> "done", copy |-> NoRole])]
    BY <1>3, <2>2, CacheUnchanged DEF DeleteRole, Proceed, AInv
  <2>4. AskMoves(r)
    BY <2>1, <2>3, WrittenMoves
  <2>5. /\ Existing' = Existing \ {i}
        /\ \A j \in Existing' : roles'[j] = roles[j]
        /\ roles' \in [RoleIds -> RoleType \cup {NoRole}]
    BY <2>3 DEF Existing, AInv, RolesSound
  <2>6. DOMAIN Seeded \subseteq Existing'
    BY <2>2, <2>5 DEF AInv, RolesSound, SystemRolesStay, AccessAssumption, Existing
  <2>7. RolesSound'
    BY <2>5, <2>6 DEF AInv, RolesSound, SystemRolesStay, Existing
  <2>8. HoldsSound'
    <3>1. \A pair \in holds : pair \in People \X Existing
      BY DEF AInv, HoldsSound
    <3>2. holds' \subseteq holds /\ holds' \subseteq People \X Existing'
      BY <2>3, <2>5, <3>1
    <3> QED BY <2>4, <3>2, MoveKeepsHolds
  <2> QED BY <2>3, <2>4, <2>7, <2>8, MoveKeepsAsking DEF AInv
<1> QED BY <1>1, <1>2, <1>3 DEF RoleChange

-------------------------------------------------------------------------------
(* The theorem. *)

LEMMA InitAccess == AccessAssumption /\ AccessInit => AInv
<1> SUFFICES ASSUME AccessAssumption, AccessInit PROVE AInv
  OBVIOUS
<1>1. \A i \in DOMAIN Seeded : roles[i] = Seeded[i] /\ Seeded[i] \in RoleType /\ roles[i] # NoRole
  BY DEF AccessInit, AccessAssumption
<1>2. Existing = DOMAIN Seeded
  BY <1>1 DEF AccessInit, AccessAssumption, Existing
<1>3. RolesSound
  BY <1>1, <1>2 DEF AccessInit, AccessAssumption, RolesSound, SystemRolesStay
<1>4. CacheSound
  BY DEF AccessInit, CacheSound
<1>5. HoldsSound
  BY <1>2 DEF AccessInit, AccessAssumption, HoldsSound, Super
<1>6. DOMAIN asking = RoleRequests /\ \A r \in RoleRequests : AskSound(asking[r])
  BY RefusedIsSound DEF AccessInit
<1> QED BY <1>3, <1>4, <1>5, <1>6 DEF AccessInit, AInv

LEMMA StepAccess == AccessAssumption /\ AInv /\ [AccessNext]_accessVars => AInv'
<1> SUFFICES ASSUME AccessAssumption, AInv, [AccessNext]_accessVars PROVE AInv'
  OBVIOUS
<1>1. ASSUME UNCHANGED <<roles, holds, changes, asking>>, CacheSound', events' \subseteq events
      PROVE  AInv'
  <2>1. RolesSound' /\ Existing' = Existing
    BY <1>1, RolesUnchanged DEF AInv
  <2>2. HoldsSound'
    BY <1>1, <2>1 DEF AInv, HoldsSound, HoldsNamed, Super
  <2> QED BY <1>1, <2>1, <2>2 DEF AInv
<1>2. CASE UNCHANGED accessVars
  BY <1>1, <1>2, CacheUnchanged DEF accessVars, tables, AInv
<1>3. ASSUME NEW e \in events, Invalidate(e) PROVE AInv'
  <2>1. CacheSound'
    BY <1>3 DEF Invalidate, AInv, CacheSound, Super, HoldsNamed
  <2> QED BY <1>1, <1>3, <2>1 DEF Invalidate, tables
<1>4. ASSUME NEW u \in People, Expire(u) PROVE AInv'
  <2>1. CacheSound'
    BY <1>4 DEF Expire, AInv, CacheSound, Super, HoldsNamed
  <2> QED BY <1>1, <1>4, <2>1 DEF Expire, tables
<1> QED BY <1>2, <1>3, <1>4, GuardedKeeps, AssignmentKeeps, RoleChangeKeeps DEF AccessNext

\* No order of renames, creations, deletions and stale saves takes a seeded role
\* or its name away, and nobody is made an administrator but by somebody who was
\* a super administrator from the start, whatever the cache still shows.
THEOREM GrantsStaySafe ==
  ASSUME AccessAssumption
  PROVE  AccessSpec => []GrantsAreSafe
<1>1. AInv => GrantsAreSafe
  BY DEF AInv, GrantsAreSafe, AccessTypeOK, SystemRolesStay, AdminIsGrantedBySuperAdmin,
         RolesSound, CacheSound, HoldsSound, Super
<1> QED BY <1>1, InitAccess, StepAccess, PTL DEF AccessSpec

-------------------------------------------------------------------------------
(* Sessions: the inductive invariant. *)

Account ==
  [email : Emails, document : Documents, password : Passwords,
   status : UserStatus, mustChangePassword : BOOLEAN]

Copies == UNION {CopiesWith(ts) : ts \in SUBSET Tokens}

Saving == {"started", "rotated", "reuse", "revoking"}
Unrevoked == Saving \cup {"idle", "verified", "known", "saved", "revoking all", "writing user"}

RequestType ==
  [kind : AllKinds \cup {"none"}, at : Unrevoked \cup {"marking", "done", "refused", "stopped"},
   user : Users \cup {"none"}, account : Account, copy : Copies \cup {NoSession},
   presented : Tokens \cup {"none"}, revoked : SUBSET SessionIds, since : Nat]

\* A refresh that has, or is about to save, its new pair.
Exchanging(q) == q.kind = "refresh" /\ q.at \in {"rotated", "saved", "known", "done"}

\* What a request may hold, whatever the rows say.
Sound(q) ==
  /\ q \in RequestType
  /\ q.at # "idle" => q.user \in Users
  /\ q.at \in {"idle", "revoking all", "writing user"} => q.copy = NoSession
  /\ q.at \in Unrevoked => q.revoked = {}
  /\ q.at \in Saving \cup {"saved", "known"} => q.copy # NoSession
  /\ q.at \in {"verified", "started"} => q.kind = "login"
  /\ q.at \in {"revoking all", "writing user"} => q.kind # "refresh"
  /\ q.at \in {"reuse", "revoking"} => q.copy.status = "REVOKED"
  /\ q.at \in {"started", "rotated"} =>
       /\ q.copy.status = "ACTIVE"
       /\ \E t \in DOMAIN q.copy.tokens : q.copy.tokens[t].status = "ACTIVE"
  /\ Exchanging(q) => q.copy # NoSession /\ q.presented \in DOMAIN q.copy.tokens
  /\ q.at = "rotated" =>
       /\ q.kind = "refresh"
       /\ q.copy.tokens[q.presented].status = "ROTATED"
       /\ \E new \in DOMAIN q.copy.tokens : DOMAIN q.copy.tokens \ {q.presented} = {new}
  /\ q.copy # NoSession =>
       \A t \in DOMAIN q.copy.tokens : q.copy.tokens[t].expires <= q.copy.end

\* Some request has revoked the session, and marks it or has marked it.
Given(s) == \E r \in Requests : s \in request[r].revoked

\* The copy a request holds is of the rows there are: a token keeps its session,
\* a session its user and its end.
CopyFits(q) ==
  q.copy # NoSession =>
    /\ \A t \in DOMAIN q.copy.tokens :
         /\ tokens[t] # NoToken => tokens[t].session = q.copy.id
         /\ q.at \in Saving /\ q.copy.tokens[t].status = "ACTIVE" =>
              tokens[t] = NoToken \/ Given(q.copy.id)
    /\ sessions[q.copy.id] # NoRow =>
         sessions[q.copy.id].user = q.copy.user /\ sessions[q.copy.id].end = q.copy.end

\* A presented token is a row, and not ACTIVE any more once it is exchanged.
PresentedFits(q) ==
  Exchanging(q) =>
    /\ tokens[q.presented] # NoToken
    /\ q.at # "rotated" => tokens[q.presented].status # "ACTIVE" \/ Given(q.copy.id)

\* Once a revocation is answered its mark is there.
MarkFits(q) ==
  q.at = "done" => \A s \in q.revoked : mark[s] >= q.since + AccessTtl

\* Two requests hold a common token only if it is a row, and copies of one
\* session with one user and one end.
Apart(p, q) ==
  p.copy # NoSession /\ q.copy # NoSession =>
    /\ \A t \in DOMAIN p.copy.tokens \cap DOMAIN q.copy.tokens : tokens[t] # NoToken
    /\ p.copy.id = q.copy.id => p.copy.user = q.copy.user /\ p.copy.end = q.copy.end

RowsFit ==
  /\ now \in Nat /\ users \in [Users -> Account]
  /\ sessions \in [SessionIds -> [user : Users, status : SessionStatus, end : Nat] \cup {NoRow}]
  /\ tokens \in [Tokens -> [session : SessionIds, status : RefreshTokenStatus, expires : Nat]
                            \cup {NoToken}]
  /\ \A t \in Tokens : tokens[t] # NoToken => sessions[tokens[t].session] # NoRow
  /\ \A s \in SessionIds : sessions[s].status = "REVOKED" => Given(s)
  /\ NoTokenOutlivesSession
  /\ ActiveSessionHasOneToken

SInv ==
  /\ RowsFit /\ now \in 0 .. MaxTime
  /\ mark \in [SessionIds -> Nat] /\ \A s \in SessionIds : mark[s] <= now + AccessTtl
  /\ access \subseteq [user : Users, session : SessionIds, mustChangePassword : BOOLEAN, signed : Nat]
  /\ DOMAIN request = Requests
  /\ \A r \in Requests : /\ Sound(request[r]) /\ CopyFits(request[r])
                         /\ PresentedFits(request[r]) /\ MarkFits(request[r])
  /\ \A p, q \in Requests : p # q => Apart(request[p], request[q])
  /\ OneExchangePerToken

-------------------------------------------------------------------------------
(* Copies and requests. *)

LEMMA CopyIs ==
  ASSUME NEW c \in Copies
  PROVE  /\ c.id \in SessionIds /\ c.user \in Users /\ c.status \in SessionStatus /\ c.end \in Nat
         /\ DOMAIN c.tokens \subseteq Tokens
         /\ \A t \in DOMAIN c.tokens :
              c.tokens[t].status \in RefreshTokenStatus /\ c.tokens[t].expires \in Nat
  BY DEF Copies, CopiesWith

LEMMA CopyOf ==
  ASSUME NEW ts \in SUBSET Tokens, NEW c \in CopiesWith(ts), SessionsAssumption
  PROVE  c \in Copies /\ c # NoSession /\ DOMAIN c.tokens = ts
  BY DEF Copies, CopiesWith, SessionsAssumption

LEMMA CopyIsNoNull ==
  ASSUME SessionsAssumption
  PROVE  NoSession \notin Copies
  BY DEF Copies, SessionsAssumption

LEMMA GeneratedIdIs ==
  ASSUME NEW S, NEW x \in GeneratedId(S)
  PROVE  x \in S
  BY DEF GeneratedId

\* A row there is, and a token there is, are no null.
LEMMA RowsAre ==
  ASSUME RowsFit
  PROVE  /\ \A s \in SessionIds : sessions[s] # NoRow =>
              sessions[s].user \in Users /\ sessions[s].status \in SessionStatus /\ sessions[s].end \in Nat
         /\ \A t \in Tokens : tokens[t] # NoToken =>
              /\ tokens[t].session \in SessionIds /\ tokens[t].status \in RefreshTokenStatus
              /\ tokens[t].expires \in Nat
         /\ NoRow.status = "NONE" /\ NoToken.status = "NONE"
         /\ \A t \in Tokens : tokens[t].status = "ACTIVE" => tokens[t] # NoToken
         /\ \A s \in SessionIds : sessions[s].status = "ACTIVE" => sessions[s] # NoRow
  BY DEF RowsFit, NoRow, NoToken

-------------------------------------------------------------------------------
(* What a step of one request leaves of the others. *)

\* The rows only move on, and new ones are of the copy the request held.
RowsMove(r) ==
  /\ \A t \in Tokens : tokens[t] # NoToken =>
       /\ tokens'[t] # NoToken /\ tokens'[t].session = tokens[t].session
       /\ tokens'[t].status = "ACTIVE" => tokens[t].status = "ACTIVE" \/ Given(tokens[t].session)
  /\ \A t \in Tokens : tokens[t] = NoToken /\ tokens'[t] # NoToken =>
       request[r].copy # NoSession /\ t \in DOMAIN request[r].copy.tokens
  /\ \A s \in SessionIds : sessions[s] # NoRow =>
       /\ sessions'[s] # NoRow
       /\ sessions'[s].user = sessions[s].user /\ sessions'[s].end = sessions[s].end
  /\ \A s \in SessionIds : sessions[s] = NoRow /\ sessions'[s] # NoRow =>
       /\ request[r].copy # NoSession /\ s = request[r].copy.id
       /\ sessions'[s].user = request[r].copy.user /\ sessions'[s].end = request[r].copy.end
  /\ mark' \in [SessionIds -> Nat] /\ \A s \in SessionIds : mark'[s] >= mark[s]

Goes(r, q) == request' = [request EXCEPT ![r] = q] /\ request[r].revoked \subseteq q.revoked

LEMMA GivenStays ==
  ASSUME SInv, NEW r \in Requests, NEW q, Goes(r, q), NEW s, Given(s)
  PROVE  Given(s)'
  BY DEF SInv, Goes, Given

LEMMA OthersFit ==
  ASSUME SessionsAssumption, SInv, NEW r \in Requests, NEW q, Goes(r, q), RowsMove(r),
         NEW p \in Requests, p # r
  PROVE  /\ Sound(request[p])' /\ CopyFits(request[p])'
         /\ PresentedFits(request[p])' /\ MarkFits(request[p])'
<1>0. PICK P : P = request[p]
  OBVIOUS
<1>1. request'[p] = P /\ Sound(P) /\ CopyFits(P) /\ PresentedFits(P) /\ MarkFits(P)
  BY <1>0 DEF SInv, Goes
<1>2. P.copy # NoSession => P.copy \in Copies
  BY <1>1 DEF Sound, RequestType
<1>3. Apart(request[r], P)
  BY <1>0 DEF SInv
<1>4. Sound(request[p])'
  BY <1>1 DEF Sound
<1>5. CopyFits(request[p])'
  <2> SUFFICES ASSUME P.copy # NoSession
               PROVE  CopyFits(P)'
    BY <1>1 DEF CopyFits
  <2>1. P.copy.id \in SessionIds /\ DOMAIN P.copy.tokens \subseteq Tokens
    BY <1>2, CopyIs
  <2>2. \A t \in DOMAIN P.copy.tokens : tokens'[t] # NoToken => tokens'[t].session = P.copy.id
    BY <1>1, <1>3, <2>1 DEF RowsMove, CopyFits, Apart
  <2>3. \A t \in DOMAIN P.copy.tokens :
          P.at \in Saving /\ P.copy.tokens[t].status = "ACTIVE" => tokens'[t] = NoToken \/ Given(P.copy.id)
    BY <1>1, <1>3, <2>1 DEF RowsMove, CopyFits, Apart
  <2>4. sessions'[P.copy.id] # NoRow =>
          sessions'[P.copy.id].user = P.copy.user /\ sessions'[P.copy.id].end = P.copy.end
    BY <1>1, <1>3, <2>1 DEF RowsMove, CopyFits, Apart
  <2> QED BY <2>2, <2>3, <2>4, GivenStays DEF CopyFits
<1>6. PresentedFits(request[p])'
  <2> SUFFICES ASSUME Exchanging(P)
               PROVE  PresentedFits(P)'
    BY <1>1 DEF PresentedFits, Exchanging
  <2>1. P.copy # NoSession /\ P.presented \in DOMAIN P.copy.tokens /\ P.presented \in Tokens
    BY <1>1, <1>2, CopyIs DEF Sound
  <2>2. tokens[P.presented] # NoToken /\ tokens[P.presented].session = P.copy.id
    BY <1>1, <2>1 DEF PresentedFits, CopyFits
  <2>3. P.at # "rotated" => tokens[P.presented].status # "ACTIVE" \/ Given(P.copy.id)
    BY <1>1 DEF PresentedFits
  <2>4. tokens'[P.presented] # NoToken
    BY <2>1, <2>2 DEF RowsMove
  <2>5. P.at # "rotated" => tokens'[P.presented].status # "ACTIVE" \/ Given(P.copy.id)
    BY <2>1, <2>2, <2>3 DEF RowsMove
  <2> QED BY <2>4, <2>5, GivenStays DEF PresentedFits, Exchanging
<1>7. MarkFits(request[p])'
  <2>1. P.revoked \subseteq SessionIds /\ P.since \in Nat
    BY <1>1 DEF Sound, RequestType
  <2>2. \A s \in SessionIds : mark[s] \in Nat
    BY DEF SInv
  <2>3. ASSUME P.at = "done", NEW s \in P.revoked
        PROVE  mark'[s] >= P.since + AccessTtl
    <3>1. mark[s] >= P.since + AccessTtl /\ mark'[s] >= mark[s] /\ mark'[s] \in Nat /\ mark[s] \in Nat
      BY <1>1, <2>1, <2>2, <2>3 DEF MarkFits, RowsMove
    <3> QED BY <2>1, <3>1 DEF SessionsAssumption
  <2> QED BY <1>1, <2>3 DEF MarkFits
<1> QED BY <1>4, <1>5, <1>6, <1>7

LEMMA ExchangesStay ==
  ASSUME SInv, NEW r \in Requests, NEW q, Goes(r, q),
         \A p \in Requests : Exchanged(p)' =>
           /\ Exchanged(p)
           /\ request'[p].presented = request[p].presented
           /\ request'[p].copy.id = request[p].copy.id
  PROVE  OneExchangePerToken'
<1> SUFFICES ASSUME NEW p1 \in Requests, NEW p2 \in Requests, p1 # p2, Exchanged(p1)', Exchanged(p2)',
                    request'[p1].presented = request'[p2].presented
             PROVE  \E p \in Requests : request'[p1].copy.id \in request'[p].revoked
  BY DEF OneExchangePerToken
<1>2. Given(request[p1].copy.id)
  BY DEF SInv, OneExchangePerToken, Given
<1>3. \A s : Given(s) => Given(s)'
  BY GivenStays
<1> QED BY <1>2, <1>3 DEF Given

SignedTokens ==
  [user : Users, session : SessionIds, mustChangePassword : BOOLEAN, signed : Nat]

\* A step of a request keeps the invariant when it fits what the request holds after it.
LEMMA StepKeeps ==
  ASSUME SessionsAssumption, SInv, NEW r \in Requests, NEW q, Goes(r, q), RowsMove(r),
         RowsFit', now' = now, \A s \in SessionIds : mark'[s] <= now + AccessTtl,
         access' \subseteq SignedTokens,
         Sound(q), CopyFits(q)', PresentedFits(q)', MarkFits(q)',
         \A p \in Requests : p # r => Apart(request[p], q)',
         OneExchangePerToken'
  PROVE  SInv'
<1>1. request' = [request EXCEPT ![r] = q] /\ DOMAIN request = Requests
  BY DEF Goes, SInv
<1>2. request'[r] = q /\ DOMAIN request' = Requests /\ \A p \in Requests : p # r => request'[p] = request[p]
  BY <1>1
<1>3. \A p \in Requests :
        /\ Sound(request[p])' /\ CopyFits(request[p])'
        /\ PresentedFits(request[p])' /\ MarkFits(request[p])'
  <2> SUFFICES ASSUME NEW p \in Requests
               PROVE  /\ Sound(request[p])' /\ CopyFits(request[p])'
                      /\ PresentedFits(request[p])' /\ MarkFits(request[p])'
    OBVIOUS
  <2>1. CASE p # r
    BY <2>1, OthersFit
  <2>2. CASE p = r
    <3>1. request'[p] = q
      BY <1>2, <2>2
    <3>2. Sound(request[p])' /\ CopyFits(request[p])'
      BY <3>1 DEF Sound, CopyFits
    <3>3. PresentedFits(request[p])' /\ MarkFits(request[p])'
      BY <3>1 DEF PresentedFits, Exchanging, MarkFits
    <3> QED BY <3>2, <3>3
  <2> QED BY <2>1, <2>2
<1>4. \A p1, p2 \in Requests : p1 # p2 => Apart(request[p1], request[p2])'
  <2> SUFFICES ASSUME NEW p1 \in Requests, NEW p2 \in Requests, p1 # p2
               PROVE  Apart(request[p1], request[p2])'
    OBVIOUS
  <2>1. CASE p1 # r /\ p2 # r
    <3>1. Apart(request[p1], request[p2]) /\ Sound(request[p1])
      BY DEF SInv
    <3>2. request[p1].copy # NoSession => DOMAIN request[p1].copy.tokens \subseteq Tokens
      BY <3>1, CopyIs DEF Sound, RequestType
    <3>3. request'[p1] = request[p1] /\ request'[p2] = request[p2]
      BY <1>2, <2>1
    <3> QED BY <3>1, <3>2, <3>3 DEF Apart, RowsMove
  <2>2. CASE p2 = r
    BY <1>2, <2>2 DEF Apart
  <2>3. CASE p1 = r
    <3>1. Apart(request[p2], q)'
      BY <2>3
    <3> QED BY <1>2, <2>3, <3>1 DEF Apart
  <2> QED BY <2>1, <2>2, <2>3
<1>5. now' \in 0 .. MaxTime /\ mark' \in [SessionIds -> Nat]
  BY DEF SInv, RowsMove
<1> QED BY <1>2, <1>3, <1>4, <1>5 DEF SInv, SignedTokens

LEMMA RowsFitStill ==
  ASSUME SInv, NEW r \in Requests, NEW q, Goes(r, q),
         users' \in [Users -> Account], UNCHANGED <<now, sessions, tokens>>
  PROVE  RowsFit'
<1>1. \A s : Given(s) => Given(s)'
  BY GivenStays
<1>2. RowsFit
  BY DEF SInv
<1>3. /\ NoTokenOutlivesSession' <=> NoTokenOutlivesSession
      /\ ActiveSessionHasOneToken' <=> ActiveSessionHasOneToken
  BY DEF NoTokenOutlivesSession, ActiveSessionHasOneToken, ActiveTokens
<1> QED BY <1>1, <1>2, <1>3 DEF RowsFit

LEMMA RowsStandStill ==
  ASSUME SInv, NEW r \in Requests, UNCHANGED <<sessions, tokens, mark>>
  PROVE  RowsMove(r)
  BY DEF RowsMove, SInv

\* A request goes on with the copy it has, or none, and is not about to save it.
LEMMA MoveKeeps ==
  ASSUME SessionsAssumption, SInv, NEW r \in Requests, NEW q, Goes(r, q), Sound(q),
         q.copy = request[r].copy, q.at \notin Saving, q.at = "done" => q.revoked = {},
         Exchanging(q) => Exchanged(r) /\ q.presented = request[r].presented,
         users' \in [Users -> Account], UNCHANGED <<now, sessions, tokens, mark>>,
         access' \subseteq SignedTokens
  PROVE  SInv'
<1>1. RowsFit' /\ RowsMove(r)
  BY RowsFitStill, RowsStandStill
<1>2. request'[r] = q /\ \A p \in Requests : p # r => request'[p] = request[p]
  BY DEF Goes, SInv
<1>3. CopyFits(request[r]) /\ PresentedFits(request[r]) /\ Sound(request[r])
  BY DEF SInv
<1>4. CopyFits(q)'
  BY <1>3 DEF CopyFits
<1>5. Exchanged(r) => Exchanging(request[r]) /\ request[r].at # "rotated"
  BY DEF Exchanged, Exchanging
<1>6. PresentedFits(q)'
  BY <1>3, <1>5, GivenStays DEF PresentedFits
<1>7. MarkFits(q)'
  BY DEF MarkFits
<1>8. \A p \in Requests : p # r => Apart(request[p], q)'
  BY <1>2 DEF SInv, Apart
<1>9. OneExchangePerToken'
  <2>1. q.kind = "refresh" /\ q.at \in {"saved", "known", "done"} => Exchanging(q)
    BY DEF Exchanging
  <2> QED BY <1>2, <2>1, ExchangesStay DEF Exchanged
<1>10. \A s \in SessionIds : mark'[s] <= now + AccessTtl
  BY DEF SInv
<1> QED BY <1>1, <1>4, <1>6, <1>7, <1>8, <1>9, <1>10, StepKeeps

\* A request comes to hold a copy to be saved, or none that will be.
LEMMA HoldKeeps ==
  ASSUME SessionsAssumption, SInv, NEW r \in Requests, NEW q, Goes(r, q), Sound(q),
         q.at \in Saving \cup {"refused"}, q.at = "rotated" => tokens[q.presented] # NoToken,
         CopyFits(q), \A p \in Requests : p # r => Apart(request[p], q),
         UNCHANGED <<now, rows, mark, access>>
  PROVE  SInv'
<1>1. RowsFit' /\ RowsMove(r)
  BY RowsFitStill, RowsStandStill DEF SInv, RowsFit, rows
<1>2. request'[r] = q /\ \A p \in Requests : p # r => request'[p] = request[p]
  BY DEF Goes, SInv
<1>3. UNCHANGED <<sessions, tokens, mark>> /\ access' \subseteq SignedTokens
  BY DEF rows, SInv, SignedTokens
<1>4. CopyFits(q)'
  BY <1>3, GivenStays DEF CopyFits
<1>5. PresentedFits(q)' /\ MarkFits(q)' /\ q.at \notin {"saved", "known", "done"}
  BY <1>3 DEF PresentedFits, Exchanging, MarkFits, Saving
<1>6. \A p \in Requests : p # r => Apart(request[p], q)'
  BY <1>2, <1>3 DEF Apart
<1>7. OneExchangePerToken'
  BY <1>2, <1>5, ExchangesStay DEF Exchanged
<1>8. \A s \in SessionIds : mark'[s] <= now + AccessTtl
  BY <1>3 DEF SInv
<1> QED BY <1>1, <1>3, <1>4, <1>5, <1>6, <1>7, <1>8, StepKeeps

-------------------------------------------------------------------------------
(* The steps that save no copy. *)

LEMMA AccountsAre ==
  /\ \A u : IsUser(u) <=> u \in Account
  /\ \A u \in Account : Deactivate(u) \in Account
  /\ \A u \in Account, p \in Passwords : ChangePassword(u, p) \in Account
  BY DEF IsUser, Account, Deactivate, ChangePassword, UserStatus

\* A request begins with no copy.
LEMMA BeginsWithNone ==
  ASSUME SessionsAssumption, SInv, NEW r \in Requests, NEW kind, NEW state,
         Begin(r, kind, state), NEW u \in Users, NEW a \in Account,
         UNCHANGED <<now, rows, mark, access>>,
         \/ kind = "login" /\ state = [at |-> "verified", user |-> u]
         \/ kind = "logout" /\ state = [at |-> "revoking all", user |-> u]
         \/ kind \in {"deactivate", "change password"}
              /\ state = [at |-> "writing user", user |-> u, account |-> a]
  PROVE  SInv'
<1>1. PICK q : q = Holding(Holding(Idle, [kind |-> kind]), state)
  OBVIOUS
<1>2. Opened \in Account
  BY AccountsAre DEF SessionsAssumption
<1>3. /\ q \in RequestType /\ q.kind = kind /\ kind # "refresh" /\ q.copy = NoSession
      /\ q.user = u /\ q.revoked = {}
      /\ q.at \in {"verified", "revoking all", "writing user"} /\ (q.at = "verified" => kind = "login")
  <2>1. CASE state = [at |-> "verified", user |-> u]
    BY <1>1, <1>2, <2>1 DEF Holding, Idle, RequestType, AllKinds, Unrevoked, Saving
  <2>2. CASE state = [at |-> "revoking all", user |-> u]
    BY <1>1, <1>2, <2>2 DEF Holding, Idle, RequestType, AllKinds, Unrevoked, Saving
  <2>3. CASE state = [at |-> "writing user", user |-> u, account |-> a]
    BY <1>1, <1>2, <2>3 DEF Holding, Idle, RequestType, AllKinds, Unrevoked, Saving
  <2> QED BY <2>1, <2>2, <2>3
<1>4. Sound(q) /\ ~Exchanging(q)
  BY <1>3 DEF Sound, Exchanging, Saving
<1>5. request[r].at = "idle" /\ request' = [request EXCEPT ![r] = q]
  BY <1>1 DEF Begin
<1>6. request[r].copy = NoSession /\ request[r].revoked = {}
  BY <1>5 DEF SInv, Sound, Unrevoked
<1>7. Goes(r, q)
  BY <1>3, <1>5, <1>6 DEF Goes
<1>8. UNCHANGED <<now, sessions, tokens, mark>> /\ users' \in [Users -> Account] /\ access' \subseteq SignedTokens
  BY DEF rows, SInv, RowsFit, SignedTokens
<1> QED BY <1>3, <1>4, <1>6, <1>7, <1>8, MoveKeeps DEF Saving

LEMMA VerifyCredentialsKeeps ==
  ASSUME SessionsAssumption, SInv, NEW r \in Requests, NEW u \in Users, NEW p,
         VerifyCredentials(r, u, p)
  PROVE  SInv'
<1>1. users[u] \in Account
  BY DEF SInv, RowsFit
<1> QED BY <1>1, BeginsWithNone DEF VerifyCredentials

LEMMA LogoutKeeps ==
  ASSUME SessionsAssumption, SInv, NEW r \in Requests, NEW u \in Users, Logout(r, u)
  PROVE  SInv'
<1>1. users[u] \in Account
  BY DEF SInv, RowsFit
<1> QED BY <1>1, BeginsWithNone DEF Logout

LEMMA ReadToDeactivateKeeps ==
  ASSUME SessionsAssumption, SInv, NEW r \in Requests, NEW u \in Users, ReadToDeactivate(r, u)
  PROVE  SInv'
<1>1. Deactivate(users[u]) \in Account
  BY AccountsAre DEF SInv, RowsFit
<1> QED BY <1>1, BeginsWithNone DEF ReadToDeactivate

LEMMA ReadToChangePasswordKeeps ==
  ASSUME SessionsAssumption, SInv, NEW r \in Requests, NEW u \in Users,
         NEW old \in Passwords, NEW new \in Passwords, ReadToChangePassword(r, u, old, new)
  PROVE  SInv'
<1>1. ChangePassword(users[u], new) \in Account
  BY AccountsAre DEF SInv, RowsFit
<1> QED BY <1>1, BeginsWithNone DEF ReadToChangePassword

LEMMA StopKeeps ==
  ASSUME SessionsAssumption, SInv, NEW r \in Requests, Stop(r)
  PROVE  SInv'
<1>1. PICK q : q = [request[r] EXCEPT !.at = "stopped"]
  OBVIOUS
<1>2. Sound(request[r]) /\ request[r].at # "idle"
  BY DEF SInv, Stop, Ended
<1>3. /\ q \in RequestType /\ q.at = "stopped" /\ q.copy = request[r].copy
      /\ q.user = request[r].user /\ q.revoked = request[r].revoked
  BY <1>1, <1>2 DEF Sound, RequestType
<1>4. Sound(q) /\ ~Exchanging(q) /\ q.at \notin Saving
  BY <1>2, <1>3 DEF Sound, Exchanging, Saving, Unrevoked
<1>5. Goes(r, q)
  BY <1>1, <1>3 DEF Goes, Stop
<1>6. UNCHANGED <<now, sessions, tokens, mark>> /\ users' \in [Users -> Account] /\ access' \subseteq SignedTokens
  BY DEF rows, SInv, RowsFit, SignedTokens, Stop
<1> QED BY <1>3, <1>4, <1>5, <1>6, MoveKeeps

\* A request is refused with the copy it has.
LEMMA RefusalKeeps ==
  ASSUME SessionsAssumption, SInv, NEW r \in Requests, NEW from \in Unrevoked \ {"idle"},
         Goto(r, from, [at |-> "refused"]), UNCHANGED <<now, rows, mark, access>>
  PROVE  SInv'
<1>1. PICK q : q = Holding(request[r], [at |-> "refused"])
  OBVIOUS
<1>2. Sound(request[r]) /\ request[r].at = from
  BY DEF SInv, Goto
<1>3. /\ q \in RequestType /\ q.at = "refused" /\ q.copy = request[r].copy
      /\ q.user = request[r].user /\ q.revoked = request[r].revoked
  BY <1>1, <1>2 DEF Sound, RequestType, Holding
<1>4. Sound(q) /\ ~Exchanging(q) /\ q.at \notin Saving
  BY <1>2, <1>3 DEF Sound, Exchanging, Saving, Unrevoked
<1>5. Goes(r, q)
  BY <1>1, <1>3 DEF Goes, Goto
<1>6. UNCHANGED <<now, sessions, tokens, mark>> /\ users' \in [Users -> Account] /\ access' \subseteq SignedTokens
  BY DEF rows, SInv, RowsFit, SignedTokens
<1> QED BY <1>3, <1>4, <1>5, <1>6, MoveKeeps

LEMMA SignKeeps ==
  ASSUME SessionsAssumption, SInv, NEW r \in Requests, Sign(r)
  PROVE  SInv'
<1>1. PICK q : q = Holding(request[r], [at |-> "done"])
  OBVIOUS
<1>2. Sound(request[r]) /\ request[r].at = "known"
  BY DEF SInv, Goto, Sign
<1>3. /\ q \in RequestType /\ q.at = "done" /\ q.copy = request[r].copy /\ q.kind = request[r].kind
      /\ q.user = request[r].user /\ q.revoked = request[r].revoked /\ q.presented = request[r].presented
  BY <1>1, <1>2 DEF Sound, RequestType, Holding
<1>4. q.revoked = {} /\ q.copy \in Copies /\ q.user \in Users /\ request[r].account \in Account
  BY <1>2, <1>3 DEF Sound, RequestType, Unrevoked
<1>5. Exchanging(q) => Exchanged(r) /\ Exchanging(request[r])
  BY <1>2, <1>3 DEF Exchanging, Exchanged
<1>6. Sound(q) /\ q.at \notin Saving
  BY <1>2, <1>3, <1>5 DEF Sound, Saving, Unrevoked
<1>7. Goes(r, q)
  BY <1>1, <1>3 DEF Goes, Goto, Sign
<1>8. access' \subseteq SignedTokens
  <2>1. request[r].copy.id \in SessionIds
    BY <1>3, <1>4, CopyIs
  <2>2. [user |-> request[r].user, session |-> request[r].copy.id,
         mustChangePassword |-> request[r].account.mustChangePassword, signed |-> now] \in SignedTokens
    BY <1>3, <1>4, <2>1 DEF SignedTokens, Account, SInv, RowsFit
  <2> QED BY <2>2 DEF Sign, SInv, SignedTokens
<1>9. UNCHANGED <<now, sessions, tokens, mark>> /\ users' \in [Users -> Account]
  BY DEF rows, SInv, RowsFit, Sign
<1> QED BY <1>3, <1>4, <1>5, <1>6, <1>7, <1>8, <1>9, MoveKeeps

LEMMA ReadUserKeeps ==
  ASSUME SessionsAssumption, SInv, NEW r \in Requests, ReadUser(r)
  PROVE  SInv'
<1>1. CASE ~CanAuthenticate(users[request[r].user])
  <2>1. Goto(r, "saved", [at |-> "refused"]) /\ UNCHANGED <<now, rows, mark, access>>
    BY <1>1 DEF ReadUser
  <2> QED BY <2>1, RefusalKeeps DEF Unrevoked
<1>2. CASE CanAuthenticate(users[request[r].user])
  <2>1. PICK a : a = users[request[r].user]
    OBVIOUS
  <2>2. PICK q : q = Holding(request[r], [at |-> "known", account |-> a])
    OBVIOUS
  <2>3. Sound(request[r]) /\ request[r].at = "saved" /\ request' = [request EXCEPT ![r] = q]
    BY <1>2, <2>1, <2>2 DEF SInv, Goto, ReadUser
  <2>4. a \in Account
    BY <2>1, <2>3 DEF Sound, SInv, RowsFit
  <2>5. /\ q \in RequestType /\ q.at = "known" /\ q.copy = request[r].copy /\ q.kind = request[r].kind
        /\ q.user = request[r].user /\ q.revoked = request[r].revoked /\ q.presented = request[r].presented
    BY <2>2, <2>3, <2>4 DEF Sound, RequestType, Holding, Unrevoked
  <2>6. Exchanging(q) => Exchanged(r) /\ Exchanging(request[r])
    BY <2>3, <2>5 DEF Exchanging, Exchanged
  <2>7. Sound(q) /\ q.at \notin Saving
    BY <2>3, <2>5, <2>6 DEF Sound, Saving, Unrevoked
  <2>8. Goes(r, q)
    BY <2>3, <2>5 DEF Goes
  <2>9. UNCHANGED <<now, sessions, tokens, mark>> /\ users' \in [Users -> Account] /\ access' \subseteq SignedTokens
    BY DEF rows, SInv, RowsFit, SignedTokens, ReadUser
  <2> QED BY <2>5, <2>6, <2>7, <2>8, <2>9, MoveKeeps
<1> QED BY <1>1, <1>2

LEMMA SaveUserKeeps ==
  ASSUME SessionsAssumption, SInv, NEW r \in Requests, SaveUser(r)
  PROVE  SInv'
<1>1. PICK q : q = Holding(request[r], [at |-> "revoking all"])
  OBVIOUS
<1>2. Sound(request[r]) /\ request[r].at = "writing user"
  BY DEF SInv, Goto, SaveUser
<1>3. /\ q \in RequestType /\ q.at = "revoking all" /\ q.copy = request[r].copy /\ q.kind = request[r].kind
      /\ q.user = request[r].user /\ q.revoked = request[r].revoked
  BY <1>1, <1>2 DEF Sound, RequestType, Holding, Unrevoked
<1>4. Sound(q) /\ ~Exchanging(q) /\ q.at \notin Saving
  BY <1>2, <1>3 DEF Sound, Exchanging, Saving, Unrevoked
<1>5. Goes(r, q)
  BY <1>1, <1>3 DEF Goes, Goto, SaveUser
<1>6. request[r].user \in Users /\ request[r].account \in Account
  BY <1>2 DEF Sound, RequestType
<1>7. UNCHANGED <<now, sessions, tokens, mark>> /\ users' \in [Users -> Account] /\ access' \subseteq SignedTokens
  BY <1>6 DEF SInv, RowsFit, SignedTokens, SaveUser
<1> QED BY <1>3, <1>4, <1>5, <1>7, MoveKeeps

-------------------------------------------------------------------------------
(* The steps that load or start a session. *)

LEMMA LoadedIs ==
  ASSUME SessionsAssumption, SInv, NEW s \in SessionIds, sessions[s] # NoRow,
         NEW ts \in SUBSET {t \in Tokens : tokens[t] # NoToken /\ tokens[t].session = s},
         NEW c, c = Loaded(s, ts)
  PROVE  /\ c \in CopiesWith(ts) /\ c.id = s /\ c.status = sessions[s].status
         /\ c.user = sessions[s].user /\ c.end = sessions[s].end
         /\ \A t \in ts : /\ c.tokens[t].status = tokens[t].status
                          /\ c.tokens[t].expires <= c.end
<1>1. ts \in SUBSET Tokens /\ \A t \in ts : tokens[t] # NoToken /\ tokens[t].session = s
  OBVIOUS
<1>2. \A t \in ts : /\ tokens[t].status \in RefreshTokenStatus /\ tokens[t].expires \in Nat
                    /\ tokens[t].expires <= sessions[s].end
  BY <1>1, RowsAre DEF SInv, RowsFit, NoTokenOutlivesSession
<1>3. sessions[s].user \in Users /\ sessions[s].status \in SessionStatus /\ sessions[s].end \in Nat
  BY RowsAre DEF SInv
<1>4. c \in CopiesWith(ts)
  BY <1>1, <1>2, <1>3 DEF Loaded, CopiesWith
<1> QED BY <1>1, <1>2, <1>4 DEF Loaded

LEMMA RevokeIs ==
  ASSUME NEW ts \in SUBSET Tokens, NEW c \in CopiesWith(ts), NEW v, v = Revoke(c)
  PROVE  /\ v \in CopiesWith(ts) /\ v.id = c.id /\ v.user = c.user /\ v.end = c.end
         /\ v.status = "REVOKED"
         /\ \A t \in ts : /\ v.tokens[t].expires = c.tokens[t].expires
                          /\ v.tokens[t].status = "ACTIVE" =>
                               c.status = "REVOKED" /\ c.tokens[t].status = "ACTIVE"
<1>1. /\ c.id \in SessionIds /\ c.user \in Users /\ c.status \in SessionStatus /\ c.end \in Nat
      /\ c.tokens \in [ts -> [status : RefreshTokenStatus, expires : Nat]]
  BY DEF CopiesWith
<1>2. CASE c.status = "REVOKED"
  BY <1>2 DEF Revoke
<1>3. CASE c.status # "REVOKED"
  <2>1. \A k \in [status : RefreshTokenStatus, expires : Nat] :
          /\ RevokeToken(k) \in [status : RefreshTokenStatus, expires : Nat]
          /\ RevokeToken(k).expires = k.expires /\ RevokeToken(k).status # "ACTIVE"
    BY DEF RevokeToken, RefreshTokenStatus
  <2>2. DOMAIN c.tokens = ts /\ \A t \in ts : c.tokens[t] \in [status : RefreshTokenStatus, expires : Nat]
    BY <1>1
  <2>3. PICK f : f = [t \in ts |-> RevokeToken(c.tokens[t])]
    OBVIOUS
  <2>4. /\ f \in [ts -> [status : RefreshTokenStatus, expires : Nat]]
        /\ \A t \in ts : f[t].expires = c.tokens[t].expires /\ f[t].status # "ACTIVE"
    BY <2>1, <2>2, <2>3
  <2>5. v = [c EXCEPT !.status = "REVOKED", !.tokens = f]
    BY <1>3, <2>2, <2>3 DEF Revoke
  <2>6. /\ v \in CopiesWith(ts) /\ v.id = c.id /\ v.user = c.user /\ v.end = c.end
        /\ v.status = "REVOKED" /\ v.tokens = f
    BY <1>1, <2>4, <2>5 DEF CopiesWith, SessionStatus
  <2> QED BY <2>4, <2>6
<1> QED BY <1>2, <1>3

\* A copy of the rows fits them, and so do the copies of the other requests.
LEMMA LoadedFits ==
  ASSUME SessionsAssumption, SInv, NEW r \in Requests, NEW q, q.copy \in Copies,
         sessions[q.copy.id] # NoRow,
         q.copy.user = sessions[q.copy.id].user, q.copy.end = sessions[q.copy.id].end,
         \A t \in DOMAIN q.copy.tokens :
           t \in FreshTokens \/ (tokens[t] # NoToken /\ tokens[t].session = q.copy.id),
         \A t \in DOMAIN q.copy.tokens :
           q.at \in Saving /\ q.copy.tokens[t].status = "ACTIVE" => tokens[t] = NoToken \/ Given(q.copy.id)
  PROVE  CopyFits(q) /\ \A p \in Requests : p # r => Apart(request[p], q)
<1>1. \A t \in FreshTokens : tokens[t] = NoToken
  BY DEF FreshTokens
<1>2. CopyFits(q)
  BY <1>1 DEF CopyFits
<1>3. ASSUME NEW p \in Requests, p # r, request[p].copy # NoSession
      PROVE  Apart(request[p], q)
  <2>1. CopyFits(request[p]) /\ p \in Held
    BY <1>3 DEF SInv, Held
  <2>2. \A t \in FreshTokens : t \notin DOMAIN request[p].copy.tokens
    BY <2>1 DEF FreshTokens
  <2> QED BY <1>3, <2>1, <2>2 DEF Apart, CopyFits
<1> QED BY <1>2, <1>3 DEF Apart

LEMMA StartIs ==
  ASSUME SessionsAssumption, NEW s \in SessionIds, NEW u \in Users, NEW t \in Tokens,
         NEW time \in Nat, NEW c, c = Start(s, u, t, time)
  PROVE  /\ c \in CopiesWith({t}) /\ c.id = s /\ c.status = "ACTIVE"
         /\ c.tokens[t].status = "ACTIVE" /\ c.tokens[t].expires <= c.end
<1>1. PICK i : i = Issue(time, time + AbsoluteTtl)
  OBVIOUS
<1>2. /\ i.status = "ACTIVE" /\ i \in [status : RefreshTokenStatus, expires : Nat]
      /\ i.expires <= time + AbsoluteTtl
  BY <1>1 DEF Issue, Earliest, RefreshTokenStatus, SessionsAssumption
<1>3. c = [id |-> s, user |-> u, status |-> "ACTIVE", end |-> time + AbsoluteTtl,
           tokens |-> [k \in {t} |-> i]]
  BY <1>1 DEF Start
<1>4. time + AbsoluteTtl \in Nat
  BY DEF SessionsAssumption
<1> QED BY <1>2, <1>3, <1>4 DEF CopiesWith, SessionStatus

LEMMA StartSessionKeeps ==
  ASSUME SessionsAssumption, SInv, NEW r \in Requests, StartSession(r)
  PROVE  SInv'
<1>1. CASE ~CanAuthenticate(users[request[r].user])
  <2>1. Goto(r, "verified", [at |-> "refused"]) /\ UNCHANGED <<now, rows, mark, access>>
    BY <1>1 DEF StartSession
  <2> QED BY <2>1, RefusalKeeps DEF Unrevoked
<1>2. CASE CanAuthenticate(users[request[r].user])
  <2>1. PICK s \in GeneratedId(FreshSessions), t \in GeneratedId(FreshTokens) :
          Goto(r, "verified", [at |-> "started", account |-> users[request[r].user],
                               copy |-> Start(s, request[r].user, t, now)])
    BY <1>2 DEF StartSession
  <2>2. s \in FreshSessions /\ t \in FreshTokens
    BY GeneratedIdIs
  <2>3. PICK a, c : a = users[request[r].user] /\ c = Start(s, request[r].user, t, now)
    OBVIOUS
  <2>4. PICK q : q = Holding(request[r], [at |-> "started", account |-> a, copy |-> c])
    OBVIOUS
  <2>5. Sound(request[r]) /\ request[r].at = "verified" /\ request' = [request EXCEPT ![r] = q]
    BY <2>1, <2>3, <2>4 DEF SInv, Goto
  <2>6. request[r].user \in Users /\ a \in Account /\ request[r].kind = "login" /\ request[r].revoked = {}
    BY <2>3, <2>5 DEF Sound, SInv, RowsFit, Unrevoked
  <2>7. s \in SessionIds /\ t \in Tokens /\ tokens[t] = NoToken /\ sessions[s] = NoRow
    BY <2>2 DEF FreshSessions, FreshTokens
  <2>8. now \in Nat
    BY DEF SInv, RowsFit
  <2>9. /\ c \in CopiesWith({t}) /\ c.id = s /\ c.status = "ACTIVE"
        /\ c.tokens[t].status = "ACTIVE" /\ c.tokens[t].expires <= c.end
    BY <2>3, <2>6, <2>7, <2>8, StartIs
  <2>10. c \in Copies /\ c # NoSession /\ DOMAIN c.tokens = {t}
    BY <2>7, <2>9, CopyOf
  <2>11. /\ q \in RequestType /\ q.at = "started" /\ q.copy = c /\ q.kind = "login"
         /\ q.user = request[r].user /\ q.revoked = {}
    BY <2>4, <2>5, <2>6, <2>10 DEF Sound, RequestType, Holding, Unrevoked, Saving
  <2>12. Sound(q)
    BY <2>6, <2>9, <2>10, <2>11 DEF Sound, Exchanging, Saving
  <2>13. CopyFits(q)
    BY <2>7, <2>9, <2>10, <2>11 DEF CopyFits
  <2>14. \A p \in Requests : p # r => Apart(request[p], q)
    BY <2>2, <2>9, <2>10, <2>11 DEF FreshSessions, FreshTokens, Held, Apart
  <2>15. Goes(r, q)
    BY <2>5, <2>6 DEF Goes
  <2>16. UNCHANGED <<now, rows, mark, access>>
    BY DEF StartSession
  <2> QED BY <2>11, <2>12, <2>13, <2>14, <2>15, <2>16, HoldKeeps DEF Saving
<1> QED BY <1>1, <1>2

LEMMA FindSessionKeeps ==
  ASSUME SessionsAssumption, SInv, NEW r \in Requests, NEW s \in SessionIds, FindSession(r, s)
  PROVE  SInv'
<1>1. sessions[s] # NoRow
  BY DEF FindSession
<1>2. PICK ts : ts = ActiveTokens(s)
  OBVIOUS
<1>3. /\ ts \in SUBSET {t \in Tokens : tokens[t] # NoToken /\ tokens[t].session = s}
      /\ ts \in SUBSET Tokens
  BY <1>2, RowsAre DEF ActiveTokens, SInv
<1>4. PICK c : c = Loaded(s, ts)
  OBVIOUS
<1>5. /\ c \in CopiesWith(ts) /\ c.id = s /\ c.status = sessions[s].status
      /\ c.user = sessions[s].user /\ c.end = sessions[s].end
      /\ \A t \in ts : /\ c.tokens[t].status = tokens[t].status
                       /\ c.tokens[t].expires <= c.end
  BY <1>1, <1>3, <1>4, LoadedIs
<1>6. PICK v : v = Revoke(c)
  OBVIOUS
<1>7. /\ v \in CopiesWith(ts) /\ v.id = c.id /\ v.user = c.user /\ v.end = c.end
      /\ v.status = "REVOKED"
      /\ \A t \in ts : /\ v.tokens[t].expires = c.tokens[t].expires
                       /\ v.tokens[t].status = "ACTIVE" =>
                            c.status = "REVOKED" /\ c.tokens[t].status = "ACTIVE"
  BY <1>3, <1>5, <1>6, RevokeIs
<1>8. v \in Copies /\ v # NoSession /\ DOMAIN v.tokens = ts
  BY <1>3, <1>7, CopyOf
<1>9. PICK u : u = sessions[s].user
  OBVIOUS
<1>10. PICK q : q = Holding(Holding(Idle, [kind |-> "revoke"]), [at |-> "revoking", user |-> u, copy |-> v])
  OBVIOUS
<1>11. u \in Users /\ Opened \in Account
  BY <1>1, <1>9, RowsAre, AccountsAre DEF SInv, SessionsAssumption
<1>12. /\ q \in RequestType /\ q.at = "revoking" /\ q.copy = v /\ q.kind = "revoke"
       /\ q.user = u /\ q.revoked = {}
  BY <1>8, <1>10, <1>11 DEF Holding, Idle, RequestType, AllKinds, Unrevoked, Saving
<1>13. Sound(q)
  BY <1>5, <1>7, <1>8, <1>11, <1>12 DEF Sound, Exchanging, Saving
<1>14. \A t \in DOMAIN q.copy.tokens :
         q.at \in Saving /\ q.copy.tokens[t].status = "ACTIVE" => tokens[t] = NoToken \/ Given(q.copy.id)
  BY <1>5, <1>7, <1>8, <1>12 DEF SInv, RowsFit
<1>15. CopyFits(q) /\ \A p \in Requests : p # r => Apart(request[p], q)
  <2>1. \A t \in DOMAIN q.copy.tokens : tokens[t] # NoToken /\ tokens[t].session = q.copy.id
    BY <1>3, <1>5, <1>7, <1>8, <1>12
  <2>2. /\ sessions[q.copy.id] # NoRow /\ q.copy \in Copies
        /\ q.copy.user = sessions[q.copy.id].user /\ q.copy.end = sessions[q.copy.id].end
    BY <1>1, <1>5, <1>7, <1>8, <1>12
  <2> QED BY <1>14, <2>1, <2>2, LoadedFits
<1>16. request[r].at = "idle" /\ request' = [request EXCEPT ![r] = q]
  BY <1>2, <1>4, <1>6, <1>9, <1>10 DEF FindSession, Begin
<1>17. Goes(r, q)
  BY <1>16 DEF Goes, SInv, Sound, Unrevoked
<1>18. UNCHANGED <<now, rows, mark, access>>
  BY DEF FindSession
<1> QED BY <1>12, <1>13, <1>15, <1>17, <1>18, HoldKeeps DEF Saving

\* What a refresh makes of the session it has loaded.
Rotated(v, c, t, new, why) ==
  /\ v.id = c.id /\ v.user = c.user /\ v.end = c.end
  /\ why = "none" =>
       /\ v \in CopiesWith({t, new}) /\ v.status = "ACTIVE"
       /\ v.tokens[t].status = "ROTATED" /\ v.tokens[t].expires <= v.end
       /\ v.tokens[new].status = "ACTIVE" /\ v.tokens[new].expires <= v.end
  /\ why = "reuse" =>
       /\ v \in CopiesWith({t}) /\ v.status = "REVOKED"
       /\ v.tokens[t].status # "ACTIVE" /\ v.tokens[t].expires <= v.end
  /\ why \notin {"none", "reuse"} => v = c

LEMMA RotateIs ==
  ASSUME SessionsAssumption, NEW t \in Tokens, NEW new \in Tokens, new # t, NEW c \in CopiesWith({t}),
         c.tokens[t].expires <= c.end, NEW time \in Nat,
         NEW why, why = Refusal(c, t, time), NEW v, v = Rotate(c, t, new, time)
  PROVE  Rotated(v, c, t, new, why)
<1>1. c.status \in SessionStatus
  BY DEF CopiesWith
<1>2. CASE why = "none"
  <2>1. c.status = "ACTIVE"
    BY <1>2 DEF Refusal, IsActiveAt
  <2>2. PICK f : f = Exchange(c, t, new, time) /\ v = [c EXCEPT !.tokens = f]
    BY <1>2 DEF Rotate
  <2>3. /\ v \in CopiesWith({t, new}) /\ v.id = c.id /\ v.user = c.user /\ v.end = c.end
        /\ v.status = c.status
        /\ v.tokens[t].status = "ROTATED" /\ v.tokens[t].expires = c.tokens[t].expires
        /\ v.tokens[new].status = "ACTIVE" /\ v.tokens[new].expires <= c.end
    <3>1. /\ c.id \in SessionIds /\ c.user \in Users /\ c.status \in SessionStatus /\ c.end \in Nat
          /\ DOMAIN c.tokens = {t} /\ c.tokens[t] \in [status : RefreshTokenStatus, expires : Nat]
      BY DEF CopiesWith
    <3>2. PICK i : i = Issue(time, c.end)
      OBVIOUS
    <3>3. i.status = "ACTIVE" /\ i \in [status : RefreshTokenStatus, expires : Nat] /\ i.expires <= c.end
      BY <3>1, <3>2 DEF Issue, Earliest, RefreshTokenStatus, SessionsAssumption
    <3>4. PICK k : k = [c.tokens[t] EXCEPT !.status = "ROTATED"]
      OBVIOUS
    <3>5. /\ k \in [status : RefreshTokenStatus, expires : Nat]
          /\ k.status = "ROTATED" /\ k.expires = c.tokens[t].expires
      BY <3>1, <3>4 DEF RefreshTokenStatus
    <3>6. f = [x \in {t, new} |-> IF x = new THEN i ELSE k]
      <4>1. DOMAIN c.tokens \cup {new} = {t, new}
        BY <3>1
      <4>2. Exchange(c, t, new, time) =
              [x \in {t, new} |-> IF x = new THEN i
                 ELSE IF x = t THEN [c.tokens[x] EXCEPT !.status = "ROTATED"] ELSE c.tokens[x]]
        BY <3>2, <4>1 DEF Exchange
      <4> QED BY <2>2, <3>4, <4>2
    <3>8. f \in [{t, new} -> [status : RefreshTokenStatus, expires : Nat]] /\ f[t] = k /\ f[new] = i
      BY <3>3, <3>5, <3>6
    <3>9. /\ v \in CopiesWith({t, new}) /\ v.id = c.id /\ v.user = c.user /\ v.end = c.end
           /\ v.status = c.status /\ v.tokens = f
      BY <2>2, <3>1, <3>8 DEF CopiesWith
    <3> QED BY <3>3, <3>5, <3>8, <3>9
  <2> QED BY <1>2, <2>1, <2>3 DEF Rotated
<1>3. CASE why = "reuse"
  <2>1. c.status = "ACTIVE" /\ c.tokens[t].status # "ACTIVE"
    BY <1>3 DEF Refusal, IsActiveAt
  <2>2. v = Revoke(c)
    BY <1>3 DEF Rotate
  <2>3. v \in CopiesWith({t}) /\ v.id = c.id /\ v.user = c.user /\ v.end = c.end /\ v.status = "REVOKED"
    BY <2>2, RevokeIs
  <2>4. v.tokens[t].expires = c.tokens[t].expires /\ v.tokens[t].status # "ACTIVE"
    BY <2>1, <2>2, RevokeIs
  <2> QED BY <1>3, <2>3, <2>4 DEF Rotated
<1>4. CASE why \notin {"none", "reuse"}
  BY <1>4 DEF Rotate, Rotated
<1> QED BY <1>2, <1>3, <1>4

LEMMA PresentTokenKeeps ==
  ASSUME SessionsAssumption, SInv, NEW r \in Requests, NEW t \in Tokens, PresentToken(r, t)
  PROVE  SInv'
<1>1. PICK s, c, why : s = tokens[t].session /\ c = Loaded(s, {t}) /\ why = Refusal(c, t, now)
  OBVIOUS
<1>2. PICK new \in GeneratedId(FreshTokens) :
        Begin(r, "refresh",
          [at |-> CASE why = "none" -> "rotated" [] why = "reuse" -> "reuse" [] OTHER -> "refused",
           user |-> c.user, copy |-> Rotate(c, t, new, now), presented |-> t, since |-> now])
  BY <1>1 DEF PresentToken
<1>3. tokens[t] # NoToken /\ UNCHANGED <<now, rows, mark, access>>
  BY DEF PresentToken
<1>4. new \in Tokens /\ tokens[new] = NoToken /\ new # t /\ new \in FreshTokens
  BY <1>3, GeneratedIdIs DEF FreshTokens
<1>5. s \in SessionIds /\ sessions[s] # NoRow /\ now \in Nat
  BY <1>1, <1>3, RowsAre DEF SInv, RowsFit
<1>6. /\ c \in CopiesWith({t}) /\ c.id = s /\ c.user = sessions[s].user /\ c.end = sessions[s].end
      /\ c.tokens[t].expires <= c.end
  <2>1. {t} \in SUBSET {x \in Tokens : tokens[x] # NoToken /\ tokens[x].session = s}
    BY <1>1, <1>3
  <2>2. PICK ts : ts = {t}
    OBVIOUS
  <2> QED BY <1>1, <1>5, <2>1, <2>2, LoadedIs
<1>7. PICK v, u, at : /\ v = Rotate(c, t, new, now) /\ u = c.user
                      /\ at = IF why = "none" THEN "rotated" ELSE IF why = "reuse" THEN "reuse" ELSE "refused"
  OBVIOUS
<1>8. /\ v.id = s /\ v.user = u /\ v.end = c.end /\ u \in Users
      /\ why = "none" =>
           /\ v \in CopiesWith({t, new}) /\ v.status = "ACTIVE"
           /\ v.tokens[t].status = "ROTATED" /\ v.tokens[t].expires <= v.end
           /\ v.tokens[new].status = "ACTIVE" /\ v.tokens[new].expires <= v.end
      /\ why = "reuse" =>
           /\ v \in CopiesWith({t}) /\ v.status = "REVOKED"
           /\ v.tokens[t].status # "ACTIVE" /\ v.tokens[t].expires <= v.end
      /\ why \notin {"none", "reuse"} => v \in CopiesWith({t}) /\ v.tokens[t].expires <= v.end
  <2>1. c.user \in Users
    BY <1>6 DEF CopiesWith
  <2>2. why = Refusal(c, t, now) /\ v = Rotate(c, t, new, now) /\ u = c.user
    BY <1>1, <1>7
  <2>3. Rotated(v, c, t, new, why)
    <3>1. new \in Tokens /\ new # t
      BY <1>4
    <3>2. now \in Nat
      BY <1>5
    <3>3. c \in CopiesWith({t}) /\ c.tokens[t].expires <= c.end
      BY <1>6
    <3> QED BY <2>2, <3>1, <3>2, <3>3, RotateIs
  <2> QED BY <1>6, <2>1, <2>2, <2>3 DEF Rotated
<1>9. /\ v \in Copies /\ v # NoSession
      /\ why = "none" => DOMAIN v.tokens = {t, new}
      /\ why # "none" => DOMAIN v.tokens = {t}
  BY <1>4, <1>8, CopyOf
<1>10. PICK q : q = Holding(Holding(Idle, [kind |-> "refresh"]),
                            [at |-> at, user |-> u, copy |-> v, presented |-> t, since |-> now])
  OBVIOUS
<1>11. Opened \in Account /\ at \in {"rotated", "reuse", "refused"}
  BY <1>7, AccountsAre DEF SessionsAssumption
<1>12. /\ q \in RequestType /\ q.at = at /\ q.copy = v /\ q.kind = "refresh"
       /\ q.user = u /\ q.revoked = {} /\ q.presented = t
  BY <1>5, <1>8, <1>9, <1>10, <1>11 DEF Holding, Idle, RequestType, AllKinds, Unrevoked, Saving
<1>13. Sound(q)
  <2>1. CASE why = "none"
    <3>1. at = "rotated" /\ DOMAIN v.tokens \ {t} = {new}
      BY <1>4, <1>7, <1>9, <2>1
    <3> QED BY <1>8, <1>9, <1>12, <2>1, <3>1 DEF Sound, Saving, Unrevoked
  <2>2. CASE why = "reuse"
    <3>1. at = "reuse"
      BY <1>7, <2>2
    <3> QED BY <1>8, <1>9, <1>12, <2>2, <3>1 DEF Sound, Exchanging, Saving, Unrevoked
  <2>3. CASE why \notin {"none", "reuse"}
    <3>1. at = "refused"
      BY <1>7, <2>3
    <3> QED BY <1>8, <1>9, <1>12, <2>3, <3>1 DEF Sound, Exchanging, Saving, Unrevoked
  <2> QED BY <2>1, <2>2, <2>3
<1>14. CopyFits(q) /\ \A p \in Requests : p # r => Apart(request[p], q)
  <2>1. \A x \in DOMAIN q.copy.tokens :
          x \in FreshTokens \/ (tokens[x] # NoToken /\ tokens[x].session = q.copy.id)
    BY <1>1, <1>3, <1>4, <1>8, <1>9, <1>12
  <2>2. \A x \in DOMAIN q.copy.tokens :
          q.at \in Saving /\ q.copy.tokens[x].status = "ACTIVE" => tokens[x] = NoToken
    BY <1>4, <1>7, <1>8, <1>9, <1>12 DEF Saving
  <2>3. /\ sessions[q.copy.id] # NoRow /\ q.copy \in Copies
        /\ q.copy.user = sessions[q.copy.id].user /\ q.copy.end = sessions[q.copy.id].end
    BY <1>5, <1>6, <1>7, <1>8, <1>9, <1>12
  <2> QED BY <2>1, <2>2, <2>3, LoadedFits
<1>15. request[r].at = "idle" /\ request' = [request EXCEPT ![r] = q]
  BY <1>2, <1>7, <1>10 DEF Begin
<1>16. Goes(r, q)
  BY <1>15 DEF Goes, SInv, Sound, Unrevoked
<1> QED BY <1>3, <1>11, <1>12, <1>13, <1>14, <1>16, HoldKeeps DEF Saving

-------------------------------------------------------------------------------
(* The steps that save a copy. *)

LEMMA OneAtMost ==
  ASSUME NEW S, IsFiniteSet(S)
  PROVE  /\ Cardinality(S) \in Nat /\ (S # {} => Cardinality(S) # 0)
         /\ \A x, y \in S : x # y => Cardinality(S) > 1
<1>1. Cardinality(S) \in Nat /\ (Cardinality(S) = 0 <=> S = {})
  BY FS_CardinalityType, FS_EmptySet
<1>2. ASSUME NEW x \in S, NEW y \in S, x # y
      PROVE  Cardinality(S) > 1
  <2>1. IsFiniteSet(S \ {x}) /\ Cardinality(S \ {x}) = Cardinality(S) - 1
    BY FS_RemoveElement
  <2>2. y \in S \ {x} /\ IsFiniteSet(S \ {x})
    BY <1>2, <2>1
  <2>3. Cardinality(S \ {x}) \in Nat /\ (Cardinality(S \ {x}) = 0 <=> S \ {x} = {})
    BY <2>2, FS_CardinalityType, FS_EmptySet
  <2>4. Cardinality(S \ {x}) # 0
    BY <2>2, <2>3
  <2> QED BY <1>1, <2>1, <2>3, <2>4
<1> QED BY <1>1, <1>2

\* What stands in the rows once a copy is saved.
Overwritten(c) ==
  /\ sessions' \in [SessionIds -> [user : Users, status : SessionStatus, end : Nat] \cup {NoRow}]
  /\ sessions'[c.id] = [user |-> c.user, status |-> c.status, end |-> c.end]
  /\ \A s \in SessionIds : s # c.id => sessions'[s] = sessions[s]
  /\ tokens' \in [Tokens -> [session : SessionIds, status : RefreshTokenStatus, expires : Nat]
                             \cup {NoToken}]
  /\ \A t \in DOMAIN c.tokens :
       /\ tokens'[t].session = c.id /\ tokens'[t].status = c.tokens[t].status
       /\ tokens'[t].expires = c.tokens[t].expires /\ tokens'[t] # NoToken
  /\ \A t \in Tokens : t \notin DOMAIN c.tokens => tokens'[t] = tokens[t]

LEMMA SavedIs ==
  ASSUME SessionsAssumption, SInv, NEW r \in Requests, request[r].at \in Saving,
         NEW c, c = request[r].copy, Saved(c)
  PROVE  c \in Copies /\ c # NoSession /\ Overwritten(c)
<1>1. Sound(request[r])
  BY DEF SInv
<1>2. c \in Copies /\ c # NoSession
  BY <1>1, CopyIsNoNull DEF Sound, RequestType
<1>3. /\ c.id \in SessionIds /\ c.user \in Users /\ c.status \in SessionStatus /\ c.end \in Nat
      /\ DOMAIN c.tokens \subseteq Tokens
      /\ \A t \in DOMAIN c.tokens :
           c.tokens[t].status \in RefreshTokenStatus /\ c.tokens[t].expires \in Nat
  BY <1>2, CopyIs
<1>4. sessions' = [sessions EXCEPT ![c.id] = [user |-> c.user, status |-> c.status, end |-> c.end]]
  BY DEF Saved
<1>5. tokens' = [t \in Tokens |->
                   IF t \in DOMAIN c.tokens
                     THEN [session |-> c.id, status |-> c.tokens[t].status, expires |-> c.tokens[t].expires]
                     ELSE tokens[t]]
  BY DEF Saved, SavedTokens
<1>6. /\ sessions \in [SessionIds -> [user : Users, status : SessionStatus, end : Nat] \cup {NoRow}]
      /\ tokens \in [Tokens -> [session : SessionIds, status : RefreshTokenStatus, expires : Nat]
                                \cup {NoToken}]
  BY DEF SInv, RowsFit
<1>7. /\ sessions' \in [SessionIds -> [user : Users, status : SessionStatus, end : Nat] \cup {NoRow}]
      /\ sessions'[c.id] = [user |-> c.user, status |-> c.status, end |-> c.end]
      /\ \A s \in SessionIds : s # c.id => sessions'[s] = sessions[s]
  BY <1>3, <1>4, <1>6
<1>8. \A t \in DOMAIN c.tokens :
        tokens'[t] = [session |-> c.id, status |-> c.tokens[t].status, expires |-> c.tokens[t].expires]
  BY <1>3, <1>5
<1>9. \A t \in Tokens : t \notin DOMAIN c.tokens => tokens'[t] = tokens[t]
  BY <1>5
<1>10. tokens' \in [Tokens -> [session : SessionIds, status : RefreshTokenStatus, expires : Nat]
                               \cup {NoToken}]
  BY <1>3, <1>5, <1>6
<1>11. \A t \in DOMAIN c.tokens :
         /\ tokens'[t].session = c.id /\ tokens'[t].status = c.tokens[t].status
         /\ tokens'[t].expires = c.tokens[t].expires
  <2> SUFFICES ASSUME NEW t \in DOMAIN c.tokens
               PROVE  /\ tokens'[t].session = c.id /\ tokens'[t].status = c.tokens[t].status
                      /\ tokens'[t].expires = c.tokens[t].expires
    OBVIOUS
  <2>1. tokens'[t] = [session |-> c.id, status |-> c.tokens[t].status, expires |-> c.tokens[t].expires]
    BY <1>8
  <2> QED BY <2>1
<1>12. \A t \in DOMAIN c.tokens : c.tokens[t].status # "NONE"
  BY <1>3 DEF RefreshTokenStatus
<1>13. NoToken.status = "NONE"
  BY DEF NoToken
<1>14. \A t \in DOMAIN c.tokens : tokens'[t] # NoToken
  BY <1>11, <1>12, <1>13
<1> QED BY <1>2, <1>7, <1>9, <1>10, <1>11, <1>14 DEF Overwritten

LEMMA SavedMoves ==
  ASSUME SessionsAssumption, SInv, NEW r \in Requests, request[r].at \in Saving,
         NEW c, c = request[r].copy, Saved(c), mark' = mark
  PROVE  RowsMove(r)
<1>1. Sound(request[r]) /\ CopyFits(request[r]) /\ c \in Copies /\ c # NoSession
  BY SavedIs DEF SInv
<1>0. Overwritten(c)
  BY SavedIs
<1>2. /\ c.id \in SessionIds /\ DOMAIN c.tokens \subseteq Tokens /\ c.status \in SessionStatus
      /\ NoRow.status = "NONE"
  BY <1>1, CopyIs DEF NoRow
<1>3. \A t \in Tokens : tokens[t] # NoToken =>
        /\ tokens'[t] # NoToken /\ tokens'[t].session = tokens[t].session
        /\ tokens'[t].status = "ACTIVE" => tokens[t].status = "ACTIVE" \/ Given(tokens[t].session)
  <2> SUFFICES ASSUME NEW t \in Tokens, tokens[t] # NoToken
               PROVE  /\ tokens'[t] # NoToken /\ tokens'[t].session = tokens[t].session
                      /\ tokens'[t].status = "ACTIVE" => tokens[t].status = "ACTIVE" \/ Given(tokens[t].session)
    OBVIOUS
  <2>1. CASE t \in DOMAIN c.tokens
    <3>1. /\ tokens[t].session = c.id
          /\ c.tokens[t].status = "ACTIVE" => Given(c.id)
      BY <1>1, <2>1 DEF CopyFits
    <3>2. tokens'[t] # NoToken /\ tokens'[t].session = c.id /\ tokens'[t].status = c.tokens[t].status
      BY <2>1, <1>0 DEF Overwritten
    <3> QED BY <3>1, <3>2
  <2>2. CASE t \notin DOMAIN c.tokens
    <3>1. tokens'[t] = tokens[t]
      BY <2>2, <1>0 DEF Overwritten
    <3> QED BY <3>1
  <2> QED BY <2>1, <2>2
<1>4. \A t \in Tokens : tokens[t] = NoToken /\ tokens'[t] # NoToken => t \in DOMAIN c.tokens
  BY <1>0 DEF Overwritten
<1>5. \A s \in SessionIds : s # c.id => sessions'[s] = sessions[s]
  BY <1>0 DEF Overwritten
<1>6. sessions'[c.id].user = c.user /\ sessions'[c.id].end = c.end /\ sessions'[c.id] # NoRow
  <2>1. sessions'[c.id] = [user |-> c.user, status |-> c.status, end |-> c.end]
    BY <1>0 DEF Overwritten
  <2> QED BY <1>2, <2>1 DEF SessionStatus
<1>7. sessions[c.id] # NoRow => sessions[c.id].user = c.user /\ sessions[c.id].end = c.end
  BY <1>1 DEF CopyFits
<1>8. mark' \in [SessionIds -> Nat] /\ \A s \in SessionIds : mark'[s] >= mark[s]
  BY DEF SInv
<1> QED BY <1>1, <1>3, <1>4, <1>5, <1>6, <1>7, <1>8 DEF RowsMove

LEMMA SavedFits ==
  ASSUME SessionsAssumption, SInv, NEW r \in Requests, request[r].at \in Saving,
         NEW c, c = request[r].copy, Saved(c), ~BreaksIndex(c), mark' = mark, now' = now,
         NEW q, Goes(r, q), c.status = "REVOKED" => c.id \in q.revoked
  PROVE  RowsFit'
<1>1. /\ Sound(request[r]) /\ CopyFits(request[r]) /\ RowsMove(r) /\ RowsFit
      /\ c \in Copies /\ c # NoSession
  BY SavedIs, SavedMoves DEF SInv
<1>0. Overwritten(c)
  BY SavedIs
<1>2. /\ c.id \in SessionIds /\ DOMAIN c.tokens \subseteq Tokens /\ c.status \in SessionStatus
      /\ c.end \in Nat /\ \A t \in DOMAIN c.tokens : c.tokens[t].expires \in Nat
  BY <1>1, CopyIs
<1>3. sessions'[c.id].status = c.status /\ sessions'[c.id].end = c.end /\ sessions'[c.id] # NoRow
  <2>1. sessions'[c.id] = [user |-> c.user, status |-> c.status, end |-> c.end]
    BY <1>0 DEF Overwritten
  <2> QED BY <1>2, <2>1 DEF SessionStatus, NoRow
<1>4. \A s \in SessionIds : s # c.id => sessions'[s] = sessions[s]
  BY <1>0 DEF Overwritten
<1>5. \A t \in DOMAIN c.tokens :
        /\ tokens'[t].session = c.id /\ tokens'[t].status = c.tokens[t].status
        /\ tokens'[t].expires = c.tokens[t].expires
  BY <1>0 DEF Overwritten
<1>6. \A t \in Tokens : t \notin DOMAIN c.tokens => tokens'[t] = tokens[t]
  BY <1>0 DEF Overwritten
<1>7. \A t \in Tokens : tokens'[t] # NoToken => sessions'[tokens'[t].session] # NoRow
  BY <1>1, <1>3, <1>5, <1>6, RowsAre, ZenonT(60) DEF RowsFit, RowsMove
<1>8. \A s \in SessionIds : sessions'[s].status = "REVOKED" => Given(s)'
  <2> SUFFICES ASSUME NEW s \in SessionIds, sessions'[s].status = "REVOKED"
               PROVE  Given(s)'
    OBVIOUS
  <2>1. CASE s = c.id
    <3>1. request'[r] = q
      BY DEF Goes, SInv
    <3> QED BY <1>3, <2>1, <3>1 DEF Given
  <2>2. CASE s # c.id
    BY <1>1, <1>4, <2>2, GivenStays DEF RowsFit
  <2> QED BY <2>1, <2>2
<1>9. NoTokenOutlivesSession'
  <2> SUFFICES ASSUME NEW t \in Tokens, tokens'[t] # NoToken
               PROVE  tokens'[t].expires <= sessions'[tokens'[t].session].end
    BY DEF NoTokenOutlivesSession
  <2>1. CASE t \in DOMAIN c.tokens
    BY <1>1, <1>3, <1>5, <2>1 DEF Sound
  <2>2. CASE t \notin DOMAIN c.tokens
    <3>1. /\ tokens[t] # NoToken /\ tokens[t].session \in SessionIds
          /\ tokens[t].expires <= sessions[tokens[t].session].end
          /\ sessions[tokens[t].session] # NoRow
      BY <1>1, <1>6, <2>2, RowsAre DEF RowsFit, NoTokenOutlivesSession
    <3>2. sessions'[tokens[t].session].end = sessions[tokens[t].session].end
      BY <1>1, <3>1 DEF RowsMove
    <3> QED BY <1>6, <2>2, <3>1, <3>2
  <2> QED BY <2>1, <2>2
<1>10. ActiveSessionHasOneToken'
  <2> SUFFICES ASSUME NEW s \in SessionIds, sessions'[s].status = "ACTIVE"
               PROVE  Cardinality(ActiveTokens(s)') = 1
    BY DEF ActiveSessionHasOneToken
  <2>1. CASE s = c.id
    <3>1. PICK S : S = {t \in Tokens : /\ SavedTokens(c)[t].session = c.id
                                       /\ SavedTokens(c)[t].status = "ACTIVE"}
      OBVIOUS
    <3>2. ActiveTokens(s)' = S
      BY <2>1, <3>1 DEF ActiveTokens, Saved
    <3>3. ~(Cardinality(S) > 1)
      BY <3>1 DEF BreaksIndex
    <3>4. IsFiniteSet(S)
      BY <3>1, FS_Subset DEF SessionsAssumption
    <3>5. PICK t \in DOMAIN c.tokens : c.tokens[t].status = "ACTIVE"
      BY <1>1, <1>3, <2>1 DEF Sound, Saving
    <3>6. t \in S
      BY <1>2, <1>5, <3>2, <3>5, <2>1 DEF ActiveTokens
    <3>7. Cardinality(S) \in Nat /\ Cardinality(S) # 0
      BY <3>4, <3>6, OneAtMost
    <3> QED BY <3>2, <3>3, <3>7
  <2>2. CASE s # c.id
    <3>1. ActiveTokens(s)' = ActiveTokens(s)
      <4>1. \A t \in DOMAIN c.tokens : tokens[t].session # s \/ tokens[t].status # "ACTIVE"
        <5>1. \A t \in Tokens : tokens[t].status = "ACTIVE" => tokens[t] # NoToken
          BY <1>1, RowsAre
        <5>2. \A t \in DOMAIN c.tokens : tokens[t] # NoToken => tokens[t].session = c.id
          BY <1>1 DEF CopyFits
        <5> QED BY <1>2, <2>2, <5>1, <5>2
      <4>2. \A t \in DOMAIN c.tokens : tokens'[t].session # s
        BY <1>5, <2>2
      <4>3. \A t \in Tokens : (tokens'[t].session = s /\ tokens'[t].status = "ACTIVE")
                                <=> (tokens[t].session = s /\ tokens[t].status = "ACTIVE")
        BY <1>6, <4>1, <4>2
      <4> QED BY <4>3 DEF ActiveTokens
    <3>2. sessions[s].status = "ACTIVE"
      BY <1>4, <2>2
    <3> QED BY <1>1, <3>1, <3>2 DEF RowsFit, ActiveSessionHasOneToken
  <2> QED BY <2>1, <2>2
<1>11. /\ sessions' \in [SessionIds -> [user : Users, status : SessionStatus, end : Nat] \cup {NoRow}]
       /\ tokens' \in [Tokens -> [session : SessionIds, status : RefreshTokenStatus, expires : Nat]
                                  \cup {NoToken}]
  BY <1>0 DEF Overwritten
<1>12. now' \in Nat /\ users' \in [Users -> Account]
  BY <1>1 DEF Saved, RowsFit
<1> QED BY <1>7, <1>8, <1>9, <1>10, <1>11, <1>12 DEF RowsFit

\* A request saves its copy, and no two refreshes have exchanged one token by that.
LEMMA SaveKeeps ==
  ASSUME SessionsAssumption, SInv, NEW r \in Requests, request[r].at \in Saving,
         NEW c, c = request[r].copy, Saved(c), ~BreaksIndex(c), UNCHANGED <<now, mark, access>>,
         NEW q, Goes(r, q), Sound(q), q.copy = c, q.at \notin Saving, q.at # "done",
         c.status = "REVOKED" => c.id \in q.revoked,
         Exchanging(q) => request[r].at = "rotated" /\ q.presented = request[r].presented,
         OneExchangePerToken'
  PROVE  SInv'
<1>1. /\ Sound(request[r]) /\ PresentedFits(request[r])
      /\ c \in Copies /\ c # NoSession /\ Overwritten(c) /\ RowsMove(r)
  BY SavedIs, SavedMoves DEF SInv
<1>2. RowsFit'
  BY SavedFits
<1>3. c.id \in SessionIds /\ DOMAIN c.tokens \subseteq Tokens
  BY <1>1, CopyIs
<1>4. CopyFits(q)'
  <2>1. sessions'[c.id].user = c.user /\ sessions'[c.id].end = c.end
    BY <1>1 DEF Overwritten
  <2>2. \A t \in DOMAIN c.tokens : tokens'[t].session = c.id
    BY <1>1 DEF Overwritten
  <2> QED BY <2>1, <2>2 DEF CopyFits
<1>5. PresentedFits(q)'
  <2> SUFFICES ASSUME Exchanging(q)
               PROVE  tokens'[q.presented] # NoToken /\ tokens'[q.presented].status # "ACTIVE"
    BY DEF PresentedFits
  <2>1. q.presented \in DOMAIN c.tokens /\ c.tokens[q.presented].status = "ROTATED"
    BY <1>1 DEF Sound, Exchanging
  <2> QED BY <1>1, <2>1 DEF Overwritten
<1>6. MarkFits(q)'
  BY DEF MarkFits
<1>7. \A p \in Requests : p # r => Apart(request[p], q)'
  <2> SUFFICES ASSUME NEW p \in Requests, p # r
               PROVE  Apart(request[p], q)'
    OBVIOUS
  <2>1. Apart(request[p], request[r]) /\ request'[p] = request[p]
    BY DEF SInv, Goes
  <2>2. \A t \in DOMAIN c.tokens : tokens'[t] # NoToken
    BY <1>1 DEF Overwritten
  <2> QED BY <1>1, <2>1, <2>2 DEF Apart
<1>8. /\ now' = now /\ access' \subseteq SignedTokens
      /\ \A s \in SessionIds : mark'[s] <= now + AccessTtl
  BY DEF SInv, SignedTokens
<1> QED BY <1>1, <1>2, <1>4, <1>5, <1>6, <1>7, <1>8, StepKeeps

\* What a save does to the requests: it goes through, or is refused.
LEMMA SaveIs ==
  ASSUME NEW r \in Requests, NEW from, NEW state, Save(r, from, state, "refused")
  PROVE  /\ request[r].at = from /\ UNCHANGED <<now, mark, access>>
         /\ \/ Goto(r, from, [at |-> "refused"]) /\ UNCHANGED rows
            \/ /\ ~BreaksIndex(request[r].copy) /\ Saved(request[r].copy)
               /\ request' = [request EXCEPT ![r] = Holding(request[r], state)]
  BY DEF Save, Goto

LEMMA SaveStartedKeeps ==
  ASSUME SessionsAssumption, SInv, NEW r \in Requests, SaveStarted(r)
  PROVE  SInv'
<1>1. request[r].at = "started" /\ UNCHANGED <<now, mark, access>>
  BY SaveIs DEF SaveStarted
<1>2. CASE Goto(r, "started", [at |-> "refused"]) /\ UNCHANGED rows
  BY <1>1, <1>2, RefusalKeeps DEF Unrevoked, Saving
<1>3. CASE /\ ~BreaksIndex(request[r].copy) /\ Saved(request[r].copy)
           /\ request' = [request EXCEPT ![r] = Holding(request[r], [at |-> "known"])]
  <2>1. PICK q, c : q = Holding(request[r], [at |-> "known"]) /\ c = request[r].copy
    OBVIOUS
  <2>2. Sound(request[r])
    BY DEF SInv
  <2>3. /\ q \in RequestType /\ q.at = "known" /\ q.copy = c /\ q.kind = request[r].kind
        /\ q.user = request[r].user /\ q.revoked = request[r].revoked
    BY <1>1, <2>1, <2>2 DEF Sound, RequestType, Holding, Unrevoked
  <2>4. q.kind = "login" /\ c.status = "ACTIVE" /\ q.revoked = {}
    BY <1>1, <2>1, <2>2, <2>3 DEF Sound, Unrevoked, Saving
  <2>5. Sound(q) /\ ~Exchanging(q)
    BY <1>1, <2>1, <2>2, <2>3, <2>4 DEF Sound, Exchanging, Unrevoked, Saving
  <2>6. Goes(r, q)
    BY <1>3, <2>1, <2>3 DEF Goes
  <2>7. OneExchangePerToken'
    <3>1. request'[r].kind = "login" /\ \A p \in Requests : p # r => request'[p] = request[p]
      BY <2>4, <2>6 DEF Goes, SInv
    <3> QED BY <2>6, <3>1, ExchangesStay DEF Exchanged
  <2> QED BY <1>1, <1>3, <2>1, <2>3, <2>4, <2>5, <2>6, <2>7, SaveKeeps DEF Saving
<1> QED BY <1>1, <1>2, <1>3, SaveIs DEF SaveStarted

\* The session is revoked by the request that saves the copy, or tells of a reuse.
LEMMA SaveRevocationKeeps ==
  ASSUME SessionsAssumption, SInv, NEW r \in Requests, NEW from \in {"reuse", "revoking"},
         Save(r, from, [at |-> "marking", revoked |-> {request[r].copy.id}], "refused")
  PROVE  SInv'
<1>0. PICK state : state = [at |-> "marking", revoked |-> {request[r].copy.id}]
  OBVIOUS
<1>1. /\ request[r].at = from /\ UNCHANGED <<now, mark, access>>
      /\ \/ Goto(r, from, [at |-> "refused"]) /\ UNCHANGED rows
         \/ /\ ~BreaksIndex(request[r].copy) /\ Saved(request[r].copy)
            /\ request' = [request EXCEPT ![r] = Holding(request[r], state)]
  BY <1>0, SaveIs
<1>2. CASE Goto(r, from, [at |-> "refused"]) /\ UNCHANGED rows
  BY <1>1, <1>2, RefusalKeeps DEF Unrevoked, Saving
<1>3. CASE /\ ~BreaksIndex(request[r].copy) /\ Saved(request[r].copy)
           /\ request' = [request EXCEPT ![r] = Holding(request[r], state)]
  <2>1. PICK q, c : q = Holding(request[r], state) /\ c = request[r].copy
    OBVIOUS
  <2>2. Sound(request[r]) /\ c \in Copies /\ c.id \in SessionIds
    BY <1>1, <1>3, <2>1, SavedIs, CopyIs DEF SInv, Saving
  <2>3. /\ q \in RequestType /\ q.at = "marking" /\ q.copy = c /\ q.kind = request[r].kind
        /\ q.user = request[r].user /\ q.revoked = {c.id}
    BY <1>0, <1>1, <2>1, <2>2 DEF Sound, RequestType, Holding, Unrevoked
  <2>4. Sound(q) /\ ~Exchanging(q)
    BY <1>1, <2>1, <2>2, <2>3 DEF Sound, Exchanging, Unrevoked, Saving
  <2>5. Goes(r, q)
    BY <1>1, <1>3, <2>1, <2>2 DEF Goes, Sound, Unrevoked, Saving
  <2>6. OneExchangePerToken'
    <3>1. request'[r].at = "marking" /\ \A p \in Requests : p # r => request'[p] = request[p]
      BY <2>3, <2>5 DEF Goes, SInv
    <3> QED BY <2>5, <3>1, ExchangesStay DEF Exchanged
  <2> QED BY <1>1, <1>3, <2>1, <2>3, <2>4, <2>5, <2>6, SaveKeeps DEF Saving
<1> QED BY <1>1, <1>2, <1>3

\* A refresh that goes through finds the token it presents ACTIVE, unless somebody
\* has revoked the session: another ACTIVE token beside the new one would break the index.
LEMMA PresentedWasActive ==
  ASSUME SessionsAssumption, SInv, NEW r \in Requests, request[r].at = "rotated",
         NEW c, c = request[r].copy, Saved(c), ~BreaksIndex(c)
  PROVE  tokens[request[r].presented].status = "ACTIVE" \/ Given(c.id)
<1> DEFINE t == request[r].presented
<1>1. /\ Sound(request[r]) /\ CopyFits(request[r]) /\ PresentedFits(request[r])
      /\ c \in Copies /\ c # NoSession /\ Overwritten(c) /\ RowsFit
  BY SavedIs DEF SInv, Saving
<1>2. /\ c.id \in SessionIds /\ DOMAIN c.tokens \subseteq Tokens
  BY <1>1, CopyIs
<1>3. PICK new \in DOMAIN c.tokens : DOMAIN c.tokens \ {t} = {new} /\ c.tokens[new].status = "ACTIVE"
  BY <1>1 DEF Sound
<1>4. t \in DOMAIN c.tokens /\ tokens[t] # NoToken /\ tokens[t].session = c.id
  BY <1>1 DEF Sound, Exchanging, PresentedFits, CopyFits
<1> SUFFICES ASSUME ~Given(c.id)
             PROVE  tokens[t].status = "ACTIVE"
  OBVIOUS
<1>5. tokens[new] = NoToken
  BY <1>1, <1>3 DEF CopyFits, Saving
<1>6. sessions[c.id].status = "ACTIVE"
  BY <1>1, <1>2, <1>4, RowsAre DEF RowsFit, SessionStatus
<1>7. PICK x \in ActiveTokens(c.id) : TRUE
  <2>1. Cardinality(ActiveTokens(c.id)) = 1
    BY <1>1, <1>2, <1>6 DEF RowsFit, ActiveSessionHasOneToken
  <2> QED BY <2>1, FS_EmptySet
<1>8. x \in Tokens /\ tokens[x].session = c.id /\ tokens[x].status = "ACTIVE" /\ x # new
  BY <1>1, <1>5, <1>7, RowsAre DEF ActiveTokens
<1>9. x \in DOMAIN c.tokens
  <2> SUFFICES ASSUME x \notin DOMAIN c.tokens
               PROVE  FALSE
    OBVIOUS
  <2>1. PICK S : S = {k \in Tokens : /\ SavedTokens(c)[k].session = c.id
                                     /\ SavedTokens(c)[k].status = "ACTIVE"}
    OBVIOUS
  <2>2. S = {k \in Tokens : tokens'[k].session = c.id /\ tokens'[k].status = "ACTIVE"}
    BY <2>1 DEF Saved
  <2>3. tokens'[x] = tokens[x] /\ tokens'[new].session = c.id /\ tokens'[new].status = "ACTIVE"
    BY <1>1, <1>3, <1>8 DEF Overwritten
  <2>4. x \in S /\ new \in S
    BY <1>2, <1>3, <1>8, <2>2, <2>3
  <2>5. IsFiniteSet(S)
    BY <2>1, FS_Subset DEF SessionsAssumption
  <2>6. Cardinality(S) > 1
    BY <1>8, <2>4, <2>5, OneAtMost
  <2> QED BY <2>1, <2>6 DEF BreaksIndex
<1>10. x = t
  BY <1>3, <1>8, <1>9
<1> QED BY <1>8, <1>10

LEMMA SaveRotatedKeeps ==
  ASSUME SessionsAssumption, SInv, NEW r \in Requests, SaveRotated(r)
  PROVE  SInv'
<1>1. request[r].at = "rotated" /\ UNCHANGED <<now, mark, access>>
  BY SaveIs DEF SaveRotated
<1>2. CASE Goto(r, "rotated", [at |-> "refused"]) /\ UNCHANGED rows
  BY <1>1, <1>2, RefusalKeeps DEF Unrevoked, Saving
<1>3. CASE /\ ~BreaksIndex(request[r].copy) /\ Saved(request[r].copy)
           /\ request' = [request EXCEPT ![r] = Holding(request[r], [at |-> "saved"])]
  <2>1. PICK q, c : q = Holding(request[r], [at |-> "saved"]) /\ c = request[r].copy
    OBVIOUS
  <2>2. Sound(request[r]) /\ PresentedFits(request[r])
    BY DEF SInv
  <2>3. /\ q \in RequestType /\ q.at = "saved" /\ q.copy = c /\ q.kind = request[r].kind
        /\ q.user = request[r].user /\ q.revoked = request[r].revoked
        /\ q.presented = request[r].presented
    BY <1>1, <2>1, <2>2 DEF Sound, RequestType, Holding, Unrevoked
  <2>4. c.status = "ACTIVE" /\ q.revoked = {} /\ Exchanging(request[r])
    BY <1>1, <2>1, <2>2, <2>3 DEF Sound, Exchanging, Unrevoked, Saving
  <2>5. Sound(q)
    BY <1>1, <2>1, <2>2, <2>3, <2>4 DEF Sound, Exchanging, Unrevoked, Saving
  <2>6. Goes(r, q)
    BY <1>3, <2>1, <2>3 DEF Goes
  <2>7. OneExchangePerToken'
    <3>1. request'[r] = q /\ \A p \in Requests : p # r => request'[p] = request[p]
      BY <2>6 DEF Goes, SInv
    <3>2. ASSUME NEW p \in Requests, p # r, Exchanged(p), request[p].presented = q.presented
          PROVE  request[p].copy.id = c.id /\ Given(c.id)
      <4>1. /\ Sound(request[p]) /\ CopyFits(request[p]) /\ PresentedFits(request[p])
            /\ CopyFits(request[r])
        BY DEF SInv
      <4>2. Exchanging(request[p]) /\ request[p].at # "rotated"
        BY <3>2 DEF Exchanged, Exchanging
      <4>3. tokens[q.presented] # NoToken /\ tokens[q.presented].session = request[p].copy.id
        BY <3>2, <4>1, <4>2 DEF Sound, PresentedFits, CopyFits
      <4>4. tokens[q.presented].session = c.id
        BY <2>1, <2>2, <2>3, <2>4, <4>1, <4>3, ZenonT(60) DEF Sound, CopyFits
      <4>5. tokens[q.presented].status # "ACTIVE" \/ Given(c.id)
        BY <3>2, <4>1, <4>2, <4>3, <4>4 DEF PresentedFits
      <4>6. tokens[q.presented].status = "ACTIVE" \/ Given(c.id)
        BY <1>1, <1>3, <2>1, <2>3, PresentedWasActive
      <4> QED BY <4>3, <4>4, <4>5, <4>6
    <3>3. Given(c.id) => Given(c.id)'
      BY <2>6, GivenStays
    <3> SUFFICES ASSUME NEW p1 \in Requests, NEW p2 \in Requests, p1 # p2, Exchanged(p1)', Exchanged(p2)',
                        request'[p1].presented = request'[p2].presented
                 PROVE  \E p \in Requests : request'[p1].copy.id \in request'[p].revoked
      BY DEF OneExchangePerToken
    <3>4. CASE p1 = r
      <4>1. Exchanged(p2) /\ request[p2].presented = q.presented
        BY <3>1, <3>4 DEF Exchanged
      <4>2. Given(c.id)'
        BY <3>2, <3>3, <3>4, <4>1
      <4> QED BY <2>3, <3>1, <3>4, <4>2 DEF Given
    <3>5. CASE p2 = r
      <4>1. Exchanged(p1) /\ request[p1].presented = q.presented /\ request'[p1] = request[p1]
        BY <3>1, <3>5 DEF Exchanged
      <4>2. request[p1].copy.id = c.id /\ Given(c.id)'
        BY <3>2, <3>3, <3>5, <4>1
      <4> QED BY <4>1, <4>2 DEF Given
    <3>6. CASE p1 # r /\ p2 # r
      <4>1. /\ request'[p1] = request[p1] /\ request'[p2] = request[p2]
            /\ Exchanged(p1) /\ Exchanged(p2)
        BY <3>1, <3>6 DEF Exchanged
      <4>2. Given(request[p1].copy.id)
        BY <4>1 DEF SInv, OneExchangePerToken, Given
      <4>3. Given(request[p1].copy.id)'
        <5>1. PICK s : s = request[p1].copy.id
          OBVIOUS
        <5>2. Given(s)'
          BY <2>6, <4>2, <5>1, GivenStays
        <5> QED BY <4>1, <5>1, <5>2 DEF Given
      <4> QED BY <4>1, <4>3 DEF Given
    <3> QED BY <3>4, <3>5, <3>6
  <2> QED BY <1>1, <1>3, <2>1, <2>3, <2>4, <2>5, <2>6, <2>7, SaveKeeps DEF Saving
<1> QED BY <1>1, <1>2, <1>3, SaveIs DEF SaveRotated

-------------------------------------------------------------------------------
(* The revocation of all, the marks and the clock. *)

\* What stands in the rows once all ACTIVE sessions of out are revoked.
Revoked(out) ==
  /\ \A s \in SessionIds : sessions'[s] =
       IF s \in out THEN [user |-> sessions[s].user, status |-> "REVOKED", end |-> sessions[s].end]
                    ELSE sessions[s]
  /\ \A t \in Tokens :
       /\ tokens'[t] \in [session : SessionIds, status : RefreshTokenStatus, expires : Nat]
                           \cup {NoToken}
       /\ tokens'[t] # NoToken <=> tokens[t] # NoToken
       /\ tokens'[t].session = tokens[t].session /\ tokens'[t].expires = tokens[t].expires
       /\ tokens'[t].status = IF tokens[t].session \in out /\ tokens[t].status = "ACTIVE"
                                THEN "REVOKED" ELSE tokens[t].status

LEMMA RevokedIs ==
  ASSUME SessionsAssumption, SInv, NEW r \in Requests, RevokeAllActiveByUserId(r),
         NEW out, out = ActiveSessions(request[r].user)
  PROVE  /\ Revoked(out) /\ DOMAIN sessions' = SessionIds /\ DOMAIN tokens' = Tokens
         /\ \A s \in out : s \in SessionIds /\ sessions[s].status = "ACTIVE"
<1>1. RowsFit
  BY DEF SInv
<1>2. \A s \in out : s \in SessionIds /\ sessions[s].status = "ACTIVE"
  BY DEF ActiveSessions
<1>3. sessions' = [s \in SessionIds |->
                     IF s \in out THEN [sessions[s] EXCEPT !.status = "REVOKED"] ELSE sessions[s]]
  BY DEF RevokeAllActiveByUserId
<1>4. tokens' = [t \in Tokens |->
                   IF tokens[t].session \in out THEN RevokeToken(tokens[t]) ELSE tokens[t]]
  BY DEF RevokeAllActiveByUserId
<1>5. \A s \in SessionIds : sessions'[s] =
        IF s \in out THEN [user |-> sessions[s].user, status |-> "REVOKED", end |-> sessions[s].end]
                     ELSE sessions[s]
  <2> SUFFICES ASSUME NEW s \in SessionIds, s \in out
               PROVE  sessions'[s] = [user |-> sessions[s].user, status |-> "REVOKED", end |-> sessions[s].end]
    BY <1>3
  <2>1. sessions[s] \in [user : Users, status : SessionStatus, end : Nat]
    BY <1>1, <1>2, RowsAre DEF RowsFit
  <2>2. sessions'[s] = [sessions[s] EXCEPT !.status = "REVOKED"]
    BY <1>3
  <2> QED BY <2>1, <2>2
<1>6. ASSUME NEW t \in Tokens
      PROVE  /\ tokens'[t] \in [session : SessionIds, status : RefreshTokenStatus, expires : Nat]
                                 \cup {NoToken}
             /\ tokens'[t] # NoToken <=> tokens[t] # NoToken
             /\ tokens'[t].session = tokens[t].session /\ tokens'[t].expires = tokens[t].expires
             /\ tokens'[t].status = IF tokens[t].session \in out /\ tokens[t].status = "ACTIVE"
                                      THEN "REVOKED" ELSE tokens[t].status
  <2>1. CASE tokens[t].session \in out /\ tokens[t].status = "ACTIVE"
    <3>1. tokens[t] # NoToken /\ NoToken.status = "NONE"
      BY <1>1, <2>1, RowsAre
    <3>2. tokens[t] \in [session : SessionIds, status : RefreshTokenStatus, expires : Nat]
      BY <1>1, <3>1 DEF RowsFit
    <3>3. tokens'[t] = [tokens[t] EXCEPT !.status = "REVOKED"]
      BY <1>4, <2>1 DEF RevokeToken
    <3>4. /\ tokens'[t] \in [session : SessionIds, status : RefreshTokenStatus, expires : Nat]
          /\ tokens'[t].status = "REVOKED"
          /\ tokens'[t].session = tokens[t].session /\ tokens'[t].expires = tokens[t].expires
      BY <3>2, <3>3 DEF RefreshTokenStatus
    <3> QED BY <2>1, <3>1, <3>4
  <2>2. CASE ~(tokens[t].session \in out /\ tokens[t].status = "ACTIVE")
    <3>1. tokens'[t] = tokens[t]
      BY <1>4, <2>2 DEF RevokeToken
    <3> QED BY <1>1, <2>2, <3>1 DEF RowsFit
  <2> QED BY <2>1, <2>2
<1> QED BY <1>2, <1>3, <1>4, <1>5, <1>6 DEF Revoked

LEMMA RevokedFits ==
  ASSUME SInv, NEW out, Revoked(out), DOMAIN sessions' = SessionIds, DOMAIN tokens' = Tokens,
         \A s \in out : s \in SessionIds /\ sessions[s].status = "ACTIVE",
         NEW r \in Requests, NEW q, Goes(r, q), q.revoked = out, UNCHANGED <<now, users, mark>>,
         sessions' = [s \in SessionIds |-> sessions'[s]], tokens' = [t \in Tokens |-> tokens'[t]]
  PROVE  RowsFit' /\ RowsMove(r)
<1>1. RowsFit /\ mark \in [SessionIds -> Nat]
  BY DEF SInv
<1>2. \A s \in SessionIds : sessions[s] # NoRow =>
        /\ sessions[s].user \in Users /\ sessions[s].status \in SessionStatus /\ sessions[s].end \in Nat
        /\ sessions[s] \in [user : Users, status : SessionStatus, end : Nat]
  BY <1>1, RowsAre DEF RowsFit
<1>3. NoRow.status = "NONE" /\ \A s \in SessionIds : sessions[s].status = "ACTIVE" => sessions[s] # NoRow
  BY <1>1, RowsAre
<1>4. ASSUME NEW s \in SessionIds
      PROVE  /\ sessions'[s] # NoRow <=> sessions[s] # NoRow
             /\ sessions'[s] \in [user : Users, status : SessionStatus, end : Nat] \cup {NoRow}
             /\ sessions'[s].user = sessions[s].user /\ sessions'[s].end = sessions[s].end
             /\ sessions'[s].status = IF s \in out THEN "REVOKED" ELSE sessions[s].status
  <2>1. CASE s \in out
    <3>1. sessions[s] # NoRow
      BY <1>3, <2>1
    <3>2. sessions'[s] = [user |-> sessions[s].user, status |-> "REVOKED", end |-> sessions[s].end]
      BY <2>1 DEF Revoked
    <3>3. /\ sessions'[s].user = sessions[s].user /\ sessions'[s].end = sessions[s].end
          /\ sessions'[s].status = "REVOKED"
      BY <3>2
    <3>4. sessions'[s] \in [user : Users, status : SessionStatus, end : Nat]
      BY <1>2, <3>1, <3>2 DEF SessionStatus
    <3>5. sessions'[s] # NoRow
      BY <1>3, <3>3
    <3> QED BY <2>1, <3>1, <3>3, <3>4, <3>5
  <2>2. CASE s \notin out
    <3>1. sessions'[s] = sessions[s]
      BY <2>2 DEF Revoked
    <3> QED BY <1>1, <2>2, <3>1 DEF RowsFit
  <2> QED BY <2>1, <2>2
<1>5. ASSUME NEW t \in Tokens
      PROVE  /\ tokens'[t] \in [session : SessionIds, status : RefreshTokenStatus, expires : Nat]
                                 \cup {NoToken}
             /\ tokens'[t] # NoToken <=> tokens[t] # NoToken
             /\ tokens'[t].session = tokens[t].session /\ tokens'[t].expires = tokens[t].expires
             /\ tokens'[t].status = IF tokens[t].session \in out /\ tokens[t].status = "ACTIVE"
                                      THEN "REVOKED" ELSE tokens[t].status
  BY DEF Revoked
<1>6. \A t \in Tokens : tokens[t] # NoToken => tokens[t].session \in SessionIds
  BY <1>1, RowsAre
<1>7. \A s \in SessionIds : sessions'[s].status = "REVOKED" => Given(s)'
  <2> SUFFICES ASSUME NEW s \in SessionIds, sessions'[s].status = "REVOKED"
               PROVE  Given(s)'
    OBVIOUS
  <2>1. CASE s \in out
    <3>1. request'[r] = q
      BY DEF Goes, SInv
    <3> QED BY <2>1, <3>1 DEF Given
  <2>2. CASE s \notin out
    <3>1. Given(s)
      BY <1>1, <1>4, <2>2 DEF RowsFit
    <3> QED BY <3>1, GivenStays
  <2> QED BY <2>1, <2>2
<1>8. ActiveSessionHasOneToken'
  <2> SUFFICES ASSUME NEW s \in SessionIds, sessions'[s].status = "ACTIVE"
               PROVE  Cardinality(ActiveTokens(s)') = 1
    BY DEF ActiveSessionHasOneToken
  <2>1. s \notin out /\ sessions[s].status = "ACTIVE"
    BY <1>4
  <2>2. ActiveTokens(s)' = ActiveTokens(s)
    BY <1>5, <2>1 DEF ActiveTokens
  <2> QED BY <1>1, <2>1, <2>2 DEF RowsFit, ActiveSessionHasOneToken
<1>9. NoTokenOutlivesSession'
  BY <1>1, <1>4, <1>5, <1>6 DEF RowsFit, NoTokenOutlivesSession
<1>10. \A t \in Tokens : tokens'[t] # NoToken => sessions'[tokens'[t].session] # NoRow
  BY <1>1, <1>4, <1>5, <1>6 DEF RowsFit
<1>11. /\ sessions' \in [SessionIds -> [user : Users, status : SessionStatus, end : Nat] \cup {NoRow}]
       /\ tokens' \in [Tokens -> [session : SessionIds, status : RefreshTokenStatus, expires : Nat]
                                  \cup {NoToken}]
  BY <1>4, <1>5
<1>12. RowsFit'
  BY <1>1, <1>7, <1>8, <1>9, <1>10, <1>11 DEF RowsFit
<1>13. RowsMove(r)
  <2>1. \A t \in Tokens : tokens[t] # NoToken =>
          /\ tokens'[t] # NoToken /\ tokens'[t].session = tokens[t].session
          /\ tokens'[t].status = "ACTIVE" => tokens[t].status = "ACTIVE"
    BY <1>5
  <2>2. \A t \in Tokens : tokens[t] = NoToken => tokens'[t] = NoToken
    BY <1>5
  <2>3. \A s \in SessionIds : /\ sessions'[s] # NoRow <=> sessions[s] # NoRow
                              /\ sessions'[s].user = sessions[s].user
                              /\ sessions'[s].end = sessions[s].end
    BY <1>4
  <2>4. mark' \in [SessionIds -> Nat] /\ \A s \in SessionIds : mark'[s] >= mark[s]
    BY <1>1
  <2> QED BY <2>1, <2>2, <2>3, <2>4 DEF RowsMove
<1> QED BY <1>12, <1>13

LEMMA RevokeAllKeeps ==
  ASSUME SessionsAssumption, SInv, NEW r \in Requests, RevokeAllActiveByUserId(r)
  PROVE  SInv'
<1>1. PICK out : out = ActiveSessions(request[r].user)
  OBVIOUS
<1>2. PICK q : q = Holding(request[r], [at |-> IF out = {} THEN "done" ELSE "marking", revoked |-> out])
  OBVIOUS
<1>3. /\ Sound(request[r]) /\ request[r].at = "revoking all"
      /\ request' = [request EXCEPT ![r] = q]
      /\ UNCHANGED <<now, users, mark, access>>
  BY <1>1, <1>2 DEF SInv, Goto, RevokeAllActiveByUserId
<1>4. /\ Revoked(out) /\ DOMAIN sessions' = SessionIds /\ DOMAIN tokens' = Tokens
      /\ \A s \in out : s \in SessionIds /\ sessions[s].status = "ACTIVE"
  BY <1>1, RevokedIs
<1>5. /\ q \in RequestType /\ q.at \in {"done", "marking"} /\ q.copy = request[r].copy
      /\ q.kind = request[r].kind /\ q.user = request[r].user /\ q.revoked = out
      /\ q.at = "done" => out = {}
  BY <1>2, <1>3, <1>4 DEF Sound, RequestType, Holding
<1>6. q.copy = NoSession /\ q.kind # "refresh" /\ request[r].revoked = {}
  BY <1>3, <1>5 DEF Sound, Unrevoked
<1>7. Sound(q) /\ ~Exchanging(q)
  BY <1>3, <1>5, <1>6 DEF Sound, Exchanging, Saving, Unrevoked
<1>8. Goes(r, q)
  BY <1>3, <1>6 DEF Goes
<1>9. sessions' = [s \in SessionIds |-> sessions'[s]] /\ tokens' = [t \in Tokens |-> tokens'[t]]
  BY DEF RevokeAllActiveByUserId
<1>10. RowsFit' /\ RowsMove(r)
  BY <1>3, <1>4, <1>5, <1>8, <1>9, RevokedFits
<1>11. /\ CopyFits(q)' /\ PresentedFits(q)' /\ MarkFits(q)'
       /\ \A p \in Requests : p # r => Apart(request[p], q)'
  BY <1>5, <1>6, <1>7 DEF CopyFits, PresentedFits, MarkFits, Apart, Exchanging
<1>12. OneExchangePerToken'
  <2>1. request'[r].kind # "refresh" /\ \A p \in Requests : p # r => request'[p] = request[p]
    BY <1>3, <1>6 DEF SInv
  <2> QED BY <1>8, <2>1, ExchangesStay DEF Exchanged
<1>13. now' = now /\ access' \subseteq SignedTokens /\ \A s \in SessionIds : mark'[s] <= now + AccessTtl
  BY <1>3 DEF SInv, SignedTokens
<1> QED BY <1>7, <1>8, <1>10, <1>11, <1>12, <1>13, StepKeeps

LEMMA MarkKeeps ==
  ASSUME SessionsAssumption, SInv, NEW r \in Requests, Mark(r)
  PROVE  SInv'
<1>1. PICK q : q = Holding(request[r],
                     [at |-> IF request[r].kind = "refresh" THEN "refused" ELSE "done", since |-> now])
  OBVIOUS
<1>2. /\ Sound(request[r]) /\ CopyFits(request[r]) /\ request[r].at = "marking"
      /\ request' = [request EXCEPT ![r] = q] /\ UNCHANGED <<now, rows, access>>
  BY <1>1 DEF SInv, Goto, Mark
<1>3. /\ q \in RequestType /\ q.at \in {"done", "refused"} /\ q.copy = request[r].copy
      /\ q.kind = request[r].kind /\ q.user = request[r].user /\ q.revoked = request[r].revoked
      /\ q.since = now /\ (q.at = "done" => q.kind # "refresh")
  BY <1>1, <1>2, ZenonT(60) DEF Sound, RequestType, Holding, SInv, RowsFit
<1>4. Sound(q) /\ ~Exchanging(q) /\ q.revoked \subseteq SessionIds
  BY <1>2, <1>3 DEF Sound, Exchanging, Saving, Unrevoked, RequestType
<1>5. Goes(r, q)
  BY <1>2, <1>3 DEF Goes
<1>6. /\ now \in Nat /\ AccessTtl \in Nat /\ mark \in [SessionIds -> Nat]
      /\ \A s \in SessionIds : mark[s] <= now + AccessTtl
  BY DEF SInv, RowsFit, SessionsAssumption
<1>7. mark' = [s \in SessionIds |-> IF s \in q.revoked THEN now + AccessTtl ELSE mark[s]]
  BY <1>3 DEF Mark
<1>8. /\ mark' \in [SessionIds -> Nat] /\ \A s \in q.revoked : mark'[s] = now + AccessTtl
      /\ \A s \in SessionIds : mark'[s] >= mark[s] /\ mark'[s] <= now + AccessTtl
  BY <1>4, <1>6, <1>7
<1>9. UNCHANGED <<now, sessions, tokens, users>> /\ users' \in [Users -> Account]
      /\ access' \subseteq SignedTokens
  BY <1>2 DEF rows, SInv, RowsFit, SignedTokens
<1>10. RowsFit'
  BY <1>5, <1>9, RowsFitStill
<1>11. RowsMove(r)
  BY <1>8, <1>9 DEF RowsMove
<1>12. CopyFits(q)'
  <2>1. q.at \notin Saving
    BY <1>3 DEF Saving
  <2> QED BY <1>2, <1>3, <1>9, <2>1 DEF CopyFits
<1>13. PresentedFits(q)'
  BY <1>4 DEF PresentedFits
<1>14. MarkFits(q)'
  BY <1>3, <1>6, <1>8 DEF MarkFits
<1>15. \A p \in Requests : p # r => Apart(request[p], q)'
  <2>1. \A p \in Requests : p # r => Apart(request[p], request[r]) /\ request'[p] = request[p]
    BY <1>2 DEF SInv
  <2> QED BY <1>3, <1>9, <2>1 DEF Apart
<1>16. OneExchangePerToken'
  <2>1. request'[r] = q /\ \A p \in Requests : p # r => request'[p] = request[p]
    BY <1>2 DEF SInv
  <2> QED BY <1>3, <1>5, <2>1, ExchangesStay DEF Exchanged
<1>17. \A s \in SessionIds : mark'[s] <= now + AccessTtl
  BY <1>8
<1> QED BY <1>4, <1>5, <1>9, <1>10, <1>11, <1>12, <1>13, <1>14, <1>15, <1>16, <1>17, StepKeeps

LEMMA TickKeeps ==
  ASSUME SessionsAssumption, SInv, Tick
  PROVE  SInv'
<1>1. /\ now' = now + 1 /\ now < MaxTime /\ now \in Nat /\ MaxTime \in Nat /\ AccessTtl \in Nat
      /\ UNCHANGED <<users, sessions, tokens, mark, access, request>>
  BY DEF Tick, rows, SInv, RowsFit, SessionsAssumption
<1>2. now' \in 0 .. MaxTime /\ now' \in Nat
  BY <1>1
<1>3. \A s \in SessionIds : mark'[s] <= now' + AccessTtl
  BY <1>1 DEF SInv
<1>4. \A s : Given(s)' <=> Given(s)
  BY <1>1 DEF Given
<1>5. RowsFit'
  <2>1. /\ NoTokenOutlivesSession' <=> NoTokenOutlivesSession
        /\ ActiveSessionHasOneToken' <=> ActiveSessionHasOneToken
    BY <1>1 DEF NoTokenOutlivesSession, ActiveSessionHasOneToken, ActiveTokens
  <2> QED BY <1>1, <1>2, <1>4, <2>1 DEF SInv, RowsFit
<1>6. \A r \in Requests :
        /\ Sound(request[r])' /\ CopyFits(request[r])'
        /\ PresentedFits(request[r])' /\ MarkFits(request[r])'
  <2> SUFFICES ASSUME NEW r \in Requests
               PROVE  /\ Sound(request[r])' /\ CopyFits(request[r])'
                      /\ PresentedFits(request[r])' /\ MarkFits(request[r])'
    OBVIOUS
  <2>1. /\ Sound(request[r]) /\ CopyFits(request[r])
        /\ PresentedFits(request[r]) /\ MarkFits(request[r])
    BY DEF SInv
  <2>2. Sound(request[r])'
    BY <1>1, <2>1 DEF Sound
  <2>3. CopyFits(request[r])'
    BY <1>1, <1>4, <2>1 DEF CopyFits
  <2>4. PresentedFits(request[r])'
    BY <1>1, <1>4, <2>1 DEF PresentedFits, Exchanging
  <2>5. MarkFits(request[r])'
    BY <1>1, <2>1 DEF MarkFits
  <2> QED BY <2>2, <2>3, <2>4, <2>5
<1>7. \A p, q \in Requests : p # q => Apart(request[p], request[q])'
  BY <1>1 DEF SInv, Apart
<1>8. OneExchangePerToken'
  BY <1>1 DEF SInv, OneExchangePerToken, Exchanged
<1> QED BY <1>1, <1>2, <1>3, <1>5, <1>6, <1>7, <1>8 DEF SInv

-------------------------------------------------------------------------------
(* The theorem. *)

LEMMA SessionsBegin ==
  ASSUME SessionsAssumption, SessionsInit
  PROVE  SInv
<1>1. Idle \in RequestType /\ Idle.at = "idle" /\ Idle.copy = NoSession /\ Idle.revoked = {}
      /\ Idle.kind = "none"
  BY AccountsAre DEF Idle, RequestType, AllKinds, Unrevoked, SessionsAssumption
<1>2. Sound(Idle) /\ ~Exchanging(Idle)
  BY <1>1 DEF Sound, Exchanging, Saving
<1>3. CopyFits(Idle) /\ PresentedFits(Idle) /\ MarkFits(Idle) /\ Apart(Idle, Idle)
  BY <1>1, <1>2 DEF CopyFits, PresentedFits, MarkFits, Apart
<1>4. \A r \in Requests : request[r] = Idle
  BY DEF SessionsInit
<1>5. NoRow.status = "NONE" /\ Opened \in Account
  BY AccountsAre DEF NoRow, SessionsAssumption
<1>6. \A s \in SessionIds : sessions[s] = NoRow
  BY DEF SessionsInit
<1>7. \A t \in Tokens : tokens[t] = NoToken
  BY DEF SessionsInit
<1>8. NoTokenOutlivesSession /\ ActiveSessionHasOneToken
  BY <1>5, <1>6, <1>7 DEF NoTokenOutlivesSession, ActiveSessionHasOneToken
<1>9. RowsFit
  <2>1. \A s \in SessionIds : sessions[s].status # "REVOKED"
    BY <1>5, <1>6
  <2>2. /\ now \in Nat /\ users \in [Users -> Account]
        /\ sessions \in [SessionIds -> [user : Users, status : SessionStatus, end : Nat] \cup {NoRow}]
        /\ tokens \in [Tokens -> [session : SessionIds, status : RefreshTokenStatus, expires : Nat]
                                  \cup {NoToken}]
    BY <1>5 DEF SessionsInit
  <2> QED BY <1>7, <1>8, <2>1, <2>2 DEF RowsFit
<1>10. OneExchangePerToken
  BY <1>1, <1>4 DEF OneExchangePerToken, Exchanged
<1>11. /\ now \in 0 .. MaxTime /\ mark \in [SessionIds -> Nat]
       /\ \A s \in SessionIds : mark[s] <= now + AccessTtl
       /\ access = {} /\ DOMAIN request = Requests
  BY DEF SessionsInit, SessionsAssumption
<1>12. \A r \in Requests : /\ Sound(request[r]) /\ CopyFits(request[r])
                           /\ PresentedFits(request[r]) /\ MarkFits(request[r])
  BY <1>2, <1>3, <1>4
<1>13. \A p, q \in Requests : p # q => Apart(request[p], request[q])
  BY <1>3, <1>4
<1> QED BY <1>9, <1>10, <1>11, <1>12, <1>13 DEF SInv

LEMMA SessionStepKeeps ==
  ASSUME SessionsAssumption, SInv, [SessionsNext]_sessionsVars
  PROVE  SInv'
<1>1. CASE UNCHANGED sessionsVars
  <2>1. UNCHANGED <<now, users, sessions, tokens, mark, access, request>>
    BY <1>1 DEF sessionsVars, rows
  <2>2. \A s : Given(s)' <=> Given(s)
    BY <2>1 DEF Given
  <2>3. RowsFit' <=> RowsFit
    BY <2>1, <2>2 DEF RowsFit, NoTokenOutlivesSession, ActiveSessionHasOneToken, ActiveTokens
  <2>4. \A r \in Requests : /\ Sound(request[r])' <=> Sound(request[r])
                            /\ CopyFits(request[r])' <=> CopyFits(request[r])
    BY <2>1, <2>2 DEF Sound, CopyFits, Exchanging
  <2>5. \A r \in Requests : /\ PresentedFits(request[r])' <=> PresentedFits(request[r])
                            /\ MarkFits(request[r])' <=> MarkFits(request[r])
    BY <2>1, <2>2 DEF PresentedFits, MarkFits, Exchanging
  <2>6. \A p, q \in Requests : Apart(request[p], request[q])' <=> Apart(request[p], request[q])
    BY <2>1 DEF Apart
  <2>7. OneExchangePerToken' <=> OneExchangePerToken
    BY <2>1 DEF OneExchangePerToken, Exchanged
  <2> QED BY <2>1, <2>3, <2>4, <2>5, <2>6, <2>7 DEF SInv
<1>2. CASE Tick
  BY <1>2, TickKeeps
<1>3. CASE \E r \in Requests : Login(r) \/ Refresh(r) \/ Revocation(r) \/ Stop(r)
  <2> SUFFICES ASSUME NEW r \in Requests, Login(r) \/ Refresh(r) \/ Revocation(r) \/ Stop(r)
               PROVE  SInv'
    BY <1>3
  <2>1. CASE Login(r)
    BY <2>1, VerifyCredentialsKeeps, StartSessionKeeps, SaveStartedKeeps, SignKeeps DEF Login
  <2>2. CASE Refresh(r)
    BY <2>2, PresentTokenKeeps, SaveRotatedKeeps, ReadUserKeeps, SaveRevocationKeeps
    DEF Refresh, SaveReuse
  <2>3. CASE Revocation(r)
    BY <2>3, FindSessionKeeps, LogoutKeeps, ReadToDeactivateKeeps, ReadToChangePasswordKeeps,
       SaveRevocationKeeps, SaveUserKeeps, RevokeAllKeeps, MarkKeeps
    DEF Revocation, SaveRevoked
  <2>4. CASE Stop(r)
    BY <2>4, StopKeeps
  <2> QED BY <2>1, <2>2, <2>3, <2>4
<1> QED BY <1>1, <1>2, <1>3 DEF SessionsNext

LEMMA SInvIsSafe ==
  ASSUME SessionsAssumption, SInv
  PROVE  SessionsAreSafe
<1>1. RowsFit
  BY DEF SInv
<1>2. SessionsTypeOK
  <2>1. \A u \in Users : IsUser(users[u])
    BY <1>1, AccountsAre DEF RowsFit
  <2>2. \A r \in Requests : request[r].kind \in AllKinds \cup {"none"}
    BY DEF SInv, Sound, RequestType
  <2> QED BY <1>1, <2>1, <2>2 DEF SessionsTypeOK, SInv, RowsFit
<1>3. AccessEndsWithTheAnswer
  <2> SUFFICES ASSUME NEW r \in Requests, NEW a \in access, Finished(r),
                      a.session \in request[r].revoked, a.signed <= request[r].since
               PROVE  ~CanActivate(a)
    BY DEF AccessEndsWithTheAnswer
  <2>1. Sound(request[r]) /\ MarkFits(request[r])
    BY DEF SInv
  <2>2. a.session \in SessionIds /\ a.signed \in Nat
    BY DEF SInv
  <2>3. mark[a.session] >= request[r].since + AccessTtl
    BY <2>1 DEF MarkFits, Finished
  <2>4. /\ mark[a.session] \in Nat /\ request[r].since \in Nat /\ now \in Nat /\ AccessTtl \in Nat
    BY <1>1, <2>1, <2>2 DEF SInv, RowsFit, Sound, RequestType, SessionsAssumption
  <2> QED BY <2>2, <2>3, <2>4 DEF CanActivate
<1> QED BY <1>1, <1>2, <1>3 DEF SessionsAreSafe, SInv, RowsFit

\* Whatever logins, refreshes and revocations run at once, and wherever each of
\* them stops: a session that is ACTIVE has one ACTIVE refresh token, of two
\* refreshes with one token only one gets a new pair unless the session was
\* revoked, no token outlives its session, and once a revocation was answered
\* no access token signed before opens a request.
THEOREM SessionsStaySafe ==
  ASSUME SessionsAssumption
  PROVE  SessionsSpec => []SessionsAreSafe
<1>1. SessionsInit => SInv
  BY SessionsBegin
<1>2. SInv /\ [SessionsNext]_sessionsVars => SInv'
  BY SessionStepKeeps
<1>3. SInv => SessionsAreSafe
  BY SInvIsSafe
<1> QED BY <1>1, <1>2, <1>3, PTL DEF SessionsSpec

-------------------------------------------------------------------------------
(* Users: the inductive invariant. *)

Changing == {"update", "password", "deactivate"}

SavingType ==
  [at : {"idle", "read", "save", "done", "refused"}, op : AllAccountOps \cup {"none"},
   id : AccountIds \cup {"none"}, copy : Account \cup {NoUser}]

\* What a request may hold, whatever the rows say.
SavingSound(q) ==
  /\ q \in SavingType
  /\ q.at \in {"read", "save"} => q.id \in AccountIds
  /\ q.at = "read" => q.op \in Changing
  /\ q.at \in {"read", "save"} /\ q.op \in Changing \cup {"register"} => q.copy \in Account
  /\ q.copy \in Account => PendingFits(q.copy)

UInv ==
  /\ accounts \in [AccountIds -> Account \cup {NoUser}]
  /\ carries \subseteq Registered
  /\ DOMAIN saving = AccountRequests /\ \A r \in AccountRequests : SavingSound(saving[r])
  /\ EmailsAndDocumentsAreUnique /\ AccountInUseStays /\ PendingIsTemporary

LEMMA NoUserIsNone ==
  ASSUME UsersAssumption
  PROVE  NoUser \notin Account
  BY AccountsAre DEF UsersAssumption

LEMMA ReplyIs ==
  ASSUME NEW r \in AccountRequests, SavingSound(saving[r]), NEW at \in {"done", "refused"}, Reply(r, at),
         UsersAssumption
  PROVE  \E q : SavingSound(q) /\ saving' = [saving EXCEPT ![r] = q]
<1>1. PICK q : q = [saving[r] EXCEPT !.at = at, !.copy = NoUser]
  OBVIOUS
<1>2. q \in SavingType /\ q.at = at /\ q.copy = NoUser
  BY <1>1 DEF SavingSound, SavingType
<1>3. SavingSound(q)
  BY <1>2, NoUserIsNone DEF SavingSound
<1> QED BY <1>1, <1>3 DEF Reply

\* A request moves and no row does.
LEMMA RequestMoves ==
  ASSUME UInv, NEW r \in AccountRequests, NEW q, SavingSound(q), saving' = [saving EXCEPT ![r] = q],
         UNCHANGED <<accounts, carries, signedIn, customers>>
  PROVE  UInv'
<1>1. /\ EmailsAndDocumentsAreUnique' <=> EmailsAndDocumentsAreUnique
      /\ AccountInUseStays' <=> AccountInUseStays
      /\ PendingIsTemporary' <=> PendingIsTemporary
      /\ Registered' = Registered
  BY DEF EmailsAndDocumentsAreUnique, Live, AccountInUseStays, PendingIsTemporary, Registered
<1>2. DOMAIN saving' = AccountRequests /\ \A p \in AccountRequests : SavingSound(saving[p])'
  <2>1. \A p \in AccountRequests : saving'[p] = q \/ saving'[p] = saving[p]
    BY DEF UInv
  <2>2. \A p \in AccountRequests : SavingSound(saving'[p])
    BY <2>1 DEF UInv
  <2>3. \A p \in AccountRequests : SavingSound(saving[p])'
    BY <2>2 DEF SavingSound
  <2> QED BY <2>3 DEF UInv
<1> QED BY <1>1, <1>2 DEF UInv

\* A row is written that breaks no index.
LEMMA RowKeeps ==
  ASSUME UsersAssumption, UInv, NEW r \in AccountRequests, NEW q, SavingSound(q),
         saving' = [saving EXCEPT ![r] = q],
         NEW id \in AccountIds, NEW row \in Account, PendingFits(row), ~Breaks(id, row),
         accounts' = [accounts EXCEPT ![id] = row], carries' \subseteq carries \cup {id},
         UNCHANGED <<signedIn, customers>>
  PROVE  UInv'
<1>1. /\ accounts' \in [AccountIds -> Account \cup {NoUser}] /\ accounts'[id] = row
      /\ \A i \in AccountIds : i # id => accounts'[i] = accounts[i]
  BY DEF UInv
<1>2. row # NoUser
  BY NoUserIsNone
<1>3. Registered' = Registered \cup {id}
  BY <1>1, <1>2 DEF Registered
<1>4. carries' \subseteq Registered' /\ AccountInUseStays'
  BY <1>3 DEF UInv, AccountInUseStays
<1>5. PendingIsTemporary'
  <2>1. \A i \in Registered' : PendingFits(accounts'[i])
    BY <1>1, <1>3 DEF UInv, PendingIsTemporary
  <2> QED BY <2>1 DEF PendingIsTemporary, PendingFits
<1>6. EmailsAndDocumentsAreUnique'
  <2> SUFFICES ASSUME NEW i \in Live', NEW j \in Live', i # j
               PROVE  accounts'[i].email # accounts'[j].email /\ accounts'[i].document # accounts'[j].document
    BY DEF EmailsAndDocumentsAreUnique
  <2>1. /\ i \in AccountIds /\ j \in AccountIds
        /\ CanAuthenticate(accounts'[i]) /\ CanAuthenticate(accounts'[j])
        /\ accounts'[i] # NoUser /\ accounts'[j] # NoUser
    BY DEF Live, Registered, CanAuthenticate
  <2>2. CASE i # id /\ j # id
    <3>1. i \in Live /\ j \in Live
      BY <1>1, <2>1, <2>2 DEF Live, Registered
    <3> QED BY <1>1, <2>1, <2>2, <3>1 DEF UInv, EmailsAndDocumentsAreUnique
  <2>3. CASE i = id
    <3>1. j \in Live \ {id} /\ CanAuthenticate(row)
      BY <1>1, <2>1, <2>3 DEF Live, Registered
    <3> QED BY <1>1, <2>1, <2>3, <3>1 DEF Breaks
  <2>4. CASE j = id
    <3>1. i \in Live \ {id} /\ CanAuthenticate(row)
      BY <1>1, <2>1, <2>4 DEF Live, Registered
    <3> QED BY <1>1, <2>1, <2>4, <3>1 DEF Breaks
  <2> QED BY <2>2, <2>3, <2>4
<1>7. DOMAIN saving' = AccountRequests /\ \A p \in AccountRequests : SavingSound(saving[p])'
  <2>1. \A p \in AccountRequests : saving'[p] = q \/ saving'[p] = saving[p]
    BY DEF UInv
  <2>2. \A p \in AccountRequests : SavingSound(saving'[p])
    BY <2>1 DEF UInv
  <2>3. \A p \in AccountRequests : SavingSound(saving[p])'
    BY <2>2 DEF SavingSound
  <2> QED BY <2>3 DEF UInv
<1> QED BY <1>1, <1>4, <1>5, <1>6, <1>7 DEF UInv

LEMMA TakeIs ==
  ASSUME NEW r \in AccountRequests, NEW op \in AllAccountOps, NEW id \in AccountIds,
         NEW at \in {"read", "save", "refused"}, NEW copy \in Account \cup {NoUser}, Take(r, op, id, at, copy),
         copy \in Account => PendingFits(copy),
         at = "read" => op \in Changing,
         at # "refused" /\ op \in Changing \cup {"register"} => copy \in Account
  PROVE  \E q : SavingSound(q) /\ saving' = [saving EXCEPT ![r] = q]
<1>1. PICK q : q = [at |-> at, op |-> op, id |-> id, copy |-> copy]
  OBVIOUS
<1>2. /\ q \in SavingType /\ q.at = at /\ q.op = op /\ q.id = id /\ q.copy = copy
  BY <1>1 DEF SavingType
<1>3. SavingSound(q)
  BY <1>2 DEF SavingSound
<1> QED BY <1>1, <1>3 DEF Take

LEMMA AsksKeeps ==
  ASSUME UsersAssumption, UInv, NEW r \in AccountRequests, NEW id \in AccountIds, Asks(r, id)
  PROVE  UInv'
<1>1. ASSUME NEW email \in Emails, NEW document \in Documents, NEW staff \in BOOLEAN,
             CheckRegister(r, id, email, document, staff)
      PROVE  UInv'
  <2>1. PICK password \in IF staff THEN {Generated} ELSE Passwords \ {Generated} :
          Take(r, "register", id,
               IF Breaks(id, Register(email, document, password, staff)) THEN "refused" ELSE "save",
               Register(email, document, password, staff))
    BY <1>1 DEF CheckRegister
  <2>2. password \in Passwords /\ (staff <=> password = Generated)
    BY <2>1 DEF UsersAssumption
  <2>3. PICK row : row = Register(email, document, password, staff)
    OBVIOUS
  <2>4. row \in Account /\ PendingFits(row)
    BY <2>2, <2>3 DEF Register, Account, UserStatus, PendingFits
  <2>5. PICK at \in {"save", "refused"} : Take(r, "register", id, at, row)
    BY <2>1, <2>3
  <2>6. \E q : SavingSound(q) /\ saving' = [saving EXCEPT ![r] = q]
    BY <2>4, <2>5, TakeIs DEF AllAccountOps, Changing
  <2> QED BY <1>1, <2>6, RequestMoves DEF CheckRegister
<1>2. ASSUME NEW op, ReadAccount(r, op, id)
      PROVE  UInv'
  <2>1. PICK at, copy : /\ copy = accounts[id] /\ at = IF copy = NoUser THEN "refused" ELSE "read"
                        /\ Take(r, op, id, at, copy) /\ op \in Changing
    BY <1>2 DEF ReadAccount, Changing
  <2>2. copy \in Account \cup {NoUser} /\ (copy \in Account => PendingFits(copy))
    BY <2>1, NoUserIsNone DEF UInv, PendingIsTemporary, Registered
  <2>3. at \in {"read", "refused"} /\ (at = "read" => copy \in Account) /\ op \in AllAccountOps
    BY <2>1, <2>2 DEF Changing, AllAccountOps
  <2>4. \E q : SavingSound(q) /\ saving' = [saving EXCEPT ![r] = q]
    BY <2>1, <2>2, <2>3, TakeIs DEF Changing
  <2> QED BY <1>2, <2>4, RequestMoves DEF ReadAccount
<1>3. ASSUME NEW op, FindAccount(r, op, id)
      PROVE  UInv'
  <2>1. PICK at \in {"save", "refused"} : Take(r, op, id, at, NoUser) /\ op \in {"login", "refer"}
    BY <1>3 DEF FindAccount
  <2>2. \E q : SavingSound(q) /\ saving' = [saving EXCEPT ![r] = q]
    BY <2>1, NoUserIsNone, TakeIs DEF Changing, AllAccountOps
  <2> QED BY <1>3, <2>2, RequestMoves DEF FindAccount
<1>4. CASE CheckSessions(r, id)
  <2>1. PICK at \in {"save", "refused"} : Take(r, "discard", id, at, NoUser)
    BY <1>4 DEF CheckSessions
  <2>2. \E q : SavingSound(q) /\ saving' = [saving EXCEPT ![r] = q]
    BY <2>1, NoUserIsNone, TakeIs DEF Changing, AllAccountOps
  <2> QED BY <1>4, <2>2, RequestMoves DEF CheckSessions
<1> QED BY <1>1, <1>2, <1>3, <1>4 DEF Asks

\* A request changes the copy it read, and is about to save it.
LEMMA AdvanceKeeps ==
  ASSUME UsersAssumption, UInv, NEW r \in AccountRequests, saving[r].at = "read",
         NEW copy \in Account, PendingFits(copy), Advance(r, "save", copy),
         UNCHANGED <<accounts, carries, signedIn, customers>>
  PROVE  UInv'
<1>1. PICK q : q = [saving[r] EXCEPT !.at = "save", !.copy = copy]
  OBVIOUS
<1>2. SavingSound(saving[r])
  BY DEF UInv
<1>3. /\ q \in SavingType /\ q.at = "save" /\ q.copy = copy /\ q.id = saving[r].id
  BY <1>1, <1>2 DEF SavingSound, SavingType
<1>4. SavingSound(q)
  BY <1>2, <1>3 DEF SavingSound
<1> QED BY <1>1, <1>4, RequestMoves DEF Advance

LEMMA ReplyKeeps ==
  ASSUME UsersAssumption, UInv, NEW r \in AccountRequests, NEW at \in {"done", "refused"}, Reply(r, at),
         UNCHANGED <<accounts, carries, signedIn, customers>>
  PROVE  UInv'
  BY ReplyIs, RequestMoves DEF UInv

LEMMA CopyChangeKeeps ==
  ASSUME UsersAssumption, UInv, NEW r \in AccountRequests,
         CheckProfile(r) \/ CheckPassword(r) \/ MarkInactive(r)
  PROVE  UInv'
<1> DEFINE copy == saving[r].copy
<1>1. saving[r].at = "read" /\ UNCHANGED <<accounts, carries, signedIn, customers>>
  BY DEF CheckProfile, CheckPassword, MarkInactive
<1>2. copy \in Account /\ PendingFits(copy)
  BY <1>1 DEF UInv, SavingSound
<1>3. CASE CheckProfile(r)
  <2>1. PICK email \in Emails, document \in Documents :
          Reply(r, "refused") \/ Advance(r, "save", UpdateProfile(copy, email, document))
    <3>1. copy.email \in Emails /\ copy.document \in Documents
      BY <1>2 DEF Account
    <3> QED BY <1>3, <3>1 DEF CheckProfile
  <2>2. UpdateProfile(copy, email, document) \in Account /\ PendingFits(UpdateProfile(copy, email, document))
    BY <1>2 DEF UpdateProfile, Account, PendingFits
  <2> QED BY <1>1, <2>1, <2>2, ReplyKeeps, AdvanceKeeps
<1>4. CASE CheckPassword(r)
  <2>1. PICK new \in Passwords \ {Generated} :
          Reply(r, "refused") \/ Advance(r, "save", ChangePassword(copy, new))
    BY <1>4 DEF CheckPassword
  <2>2. ChangePassword(copy, new) \in Account /\ PendingFits(ChangePassword(copy, new))
    BY <1>2, <2>1 DEF ChangePassword, Account, PendingFits
  <2> QED BY <1>1, <2>1, <2>2, ReplyKeeps, AdvanceKeeps
<1>5. CASE MarkInactive(r)
  <2>1. Deactivate(copy) \in Account /\ PendingFits(Deactivate(copy))
    BY <1>2 DEF Deactivate, Account, UserStatus, PendingFits
  <2> QED BY <1>1, <1>5, <2>1, AdvanceKeeps DEF MarkInactive
<1> QED BY <1>3, <1>4, <1>5

LEMMA SaveAccountKeeps ==
  ASSUME UsersAssumption, UInv, NEW r \in AccountRequests, SaveRegistered(r) \/ SaveAccount(r)
  PROVE  UInv'
<1>1. saving[r].at = "save" /\ saving[r].op \in Changing \cup {"register"} /\ UNCHANGED <<signedIn, customers>>
  BY DEF SaveRegistered, SaveAccount, Changing
<1>2. PICK id, row : id = saving[r].id /\ row = saving[r].copy
  OBVIOUS
<1>3. SavingSound(saving[r]) /\ id \in AccountIds /\ row \in Account /\ PendingFits(row)
  BY <1>1, <1>2 DEF UInv, SavingSound
<1>4. CASE Breaks(id, row)
  BY <1>1, <1>2, <1>4, ReplyKeeps DEF SaveRegistered, SaveAccount
<1>5. CASE ~Breaks(id, row)
  <2>1. Reply(r, "done") /\ accounts' = [accounts EXCEPT ![id] = row] /\ carries' \subseteq carries \cup {id}
    BY <1>2, <1>5 DEF SaveRegistered, SaveAccount
  <2>2. PICK q : SavingSound(q) /\ saving' = [saving EXCEPT ![r] = q]
    BY <1>3, <2>1, ReplyIs
  <2> QED BY <1>1, <1>3, <1>5, <2>1, <2>2, RowKeeps
<1> QED BY <1>4, <1>5

LEMMA DeleteUserKeeps ==
  ASSUME UsersAssumption, UInv, NEW r \in AccountRequests, DeleteUser(r)
  PROVE  UInv'
<1>1. saving[r].at = "save" /\ UNCHANGED <<signedIn, customers>>
  BY DEF DeleteUser
<1>2. PICK id : id = saving[r].id
  OBVIOUS
<1>3. SavingSound(saving[r]) /\ id \in AccountIds
  BY <1>1, <1>2 DEF UInv, SavingSound
<1>4. CASE id \in signedIn \cup customers
  BY <1>1, <1>2, <1>4, ReplyKeeps DEF DeleteUser
<1>5. CASE id \notin signedIn \cup customers
  <2>1. Reply(r, "done") /\ accounts' = [accounts EXCEPT ![id] = NoUser] /\ carries' = carries \ {id}
    BY <1>2, <1>5 DEF DeleteUser
  <2>2. PICK q : SavingSound(q) /\ saving' = [saving EXCEPT ![r] = q]
    BY <1>3, <2>1, ReplyIs
  <2>3. /\ accounts' \in [AccountIds -> Account \cup {NoUser}] /\ accounts'[id] = NoUser
        /\ \A i \in AccountIds : i # id => accounts'[i] = accounts[i]
    BY <1>3, <2>1 DEF UInv
  <2>4. Registered' = Registered \ {id}
    BY <2>3 DEF Registered
  <2>5. carries' \subseteq Registered' /\ AccountInUseStays'
    BY <1>1, <1>5, <2>1, <2>4 DEF UInv, AccountInUseStays
  <2>6. PendingIsTemporary'
    <3>1. \A i \in Registered' : PendingFits(accounts'[i])
      BY <2>3, <2>4 DEF UInv, PendingIsTemporary, Registered
    <3> QED BY <3>1 DEF PendingIsTemporary, PendingFits
  <2>7. EmailsAndDocumentsAreUnique'
    <3>1. \A i \in Live' : i \in Live /\ accounts'[i] = accounts[i]
      BY <2>3, <2>4 DEF Live, Registered, CanAuthenticate
    <3> QED BY <3>1 DEF UInv, EmailsAndDocumentsAreUnique
  <2>8. DOMAIN saving' = AccountRequests /\ \A p \in AccountRequests : SavingSound(saving[p])'
    <3>1. \A p \in AccountRequests : saving'[p] = q \/ saving'[p] = saving[p]
      BY <2>2 DEF UInv
    <3>2. \A p \in AccountRequests : SavingSound(saving'[p])
      BY <2>2, <3>1 DEF UInv
    <3>3. \A p \in AccountRequests : SavingSound(saving[p])'
      BY <3>2 DEF SavingSound
    <3> QED BY <2>2, <3>3 DEF UInv
  <2> QED BY <2>3, <2>5, <2>6, <2>7, <2>8 DEF UInv
<1> QED BY <1>4, <1>5

LEMMA SaveReferenceKeeps ==
  ASSUME UsersAssumption, UInv, NEW r \in AccountRequests, SaveReference(r)
  PROVE  UInv'
<1>1. SavingSound(saving[r]) /\ \E at \in {"done", "refused"} : Reply(r, at)
  BY DEF UInv, SaveReference
<1>2. PICK q : SavingSound(q) /\ saving' = [saving EXCEPT ![r] = q]
  BY <1>1, ReplyIs
<1>3. /\ EmailsAndDocumentsAreUnique' <=> EmailsAndDocumentsAreUnique
      /\ PendingIsTemporary' <=> PendingIsTemporary
      /\ Registered' = Registered
      /\ UNCHANGED <<accounts, carries>>
  BY DEF EmailsAndDocumentsAreUnique, Live, PendingIsTemporary, Registered, SaveReference
<1>4. AccountInUseStays'
  <2>1. signedIn' \subseteq signedIn \cup Registered /\ customers' \subseteq customers \cup Registered
    BY DEF SaveReference
  <2> QED BY <1>3, <2>1 DEF UInv, AccountInUseStays
<1>5. DOMAIN saving' = AccountRequests /\ \A p \in AccountRequests : SavingSound(saving[p])'
  <2>1. \A p \in AccountRequests : saving'[p] = q \/ saving'[p] = saving[p]
    BY <1>2 DEF UInv
  <2>2. \A p \in AccountRequests : SavingSound(saving'[p])
    BY <1>2, <2>1 DEF UInv
  <2>3. \A p \in AccountRequests : SavingSound(saving[p])'
    BY <2>2 DEF SavingSound
  <2> QED BY <1>2, <2>3 DEF UInv
<1>6. accounts' \in [AccountIds -> Account \cup {NoUser}] /\ carries' \subseteq Registered'
  BY <1>3 DEF UInv
<1>7. EmailsAndDocumentsAreUnique' /\ PendingIsTemporary'
  BY <1>3 DEF UInv
<1> QED BY <1>4, <1>5, <1>6, <1>7 DEF UInv

LEMMA UsersBegin ==
  ASSUME UsersAssumption, UsersInit
  PROVE  UInv
<1>1. accounts \in [AccountIds -> Account \cup {NoUser}]
  BY AccountsAre DEF UsersInit, UsersAssumption
<1>2. /\ Registered = DOMAIN FirstAccounts
      /\ \A i \in Registered : accounts[i] = FirstAccounts[i]
  BY AccountsAre, NoUserIsNone DEF UsersInit, UsersAssumption, Registered
<1>3. Unasked \in SavingType /\ Unasked.at = "idle" /\ Unasked.copy = NoUser
  BY DEF Unasked, SavingType
<1>4. SavingSound(Unasked)
  BY <1>3, NoUserIsNone DEF SavingSound
<1>5. PendingIsTemporary /\ EmailsAndDocumentsAreUnique
  BY <1>2 DEF PendingIsTemporary, EmailsAndDocumentsAreUnique, Live, UsersAssumption
<1> QED BY <1>1, <1>2, <1>4, <1>5 DEF UsersInit, UInv, AccountInUseStays

LEMMA UsersStepKeeps ==
  ASSUME UsersAssumption, UInv, [UsersNext]_accountVars
  PROVE  UInv'
<1>1. CASE UNCHANGED accountVars
  <2>1. UNCHANGED <<accounts, carries, signedIn, customers, saving>>
    BY <1>1 DEF accountVars
  <2>2. /\ EmailsAndDocumentsAreUnique' <=> EmailsAndDocumentsAreUnique
        /\ AccountInUseStays' <=> AccountInUseStays
        /\ PendingIsTemporary' <=> PendingIsTemporary
        /\ Registered' = Registered
    BY <2>1 DEF EmailsAndDocumentsAreUnique, Live, AccountInUseStays, PendingIsTemporary, Registered
  <2>3. \A r \in AccountRequests : SavingSound(saving[r])' <=> SavingSound(saving[r])
    BY <2>1 DEF SavingSound
  <2> QED BY <2>1, <2>2, <2>3 DEF UInv
<1>2. CASE UsersNext
  <2>1. PICK r \in AccountRequests : GoesOn(r) \/ \E id \in AccountIds : Asks(r, id)
    BY <1>2 DEF UsersNext
  <2>2. CASE GoesOn(r)
    BY <2>2, CopyChangeKeeps, SaveAccountKeeps, DeleteUserKeeps, SaveReferenceKeeps DEF GoesOn
  <2> QED BY <2>1, <2>2, AsksKeeps
<1> QED BY <1>1, <1>2

LEMMA UInvIsSafe ==
  ASSUME UInv
  PROVE  AccountsAreSafe
<1>1. UsersTypeOK
  BY AccountsAre DEF UInv, UsersTypeOK, SavingSound, SavingType
<1> QED BY <1>1 DEF UInv, AccountsAreSafe

\* Whatever stale copies are saved over whatever rows: no two live accounts have
\* one email or one document, no account that a session or a customer points at is
\* discarded, and a password is pending exactly while it is the generated one.
THEOREM AccountsStaySafe ==
  ASSUME UsersAssumption
  PROVE  UsersSpec => []AccountsAreSafe
<1>1. UsersInit => UInv
  BY UsersBegin
<1>2. UInv /\ [UsersNext]_accountVars => UInv'
  BY UsersStepKeeps
<1>3. UInv => AccountsAreSafe
  BY UInvIsSafe
<1> QED BY <1>1, <1>2, <1>3, PTL DEF UsersSpec
===============================================================================
