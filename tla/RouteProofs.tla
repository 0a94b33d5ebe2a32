----------------------------- MODULE RouteProofs -----------------------------
(***************************************************************************)
(* Theorems about Routes and RouteAccess.  Of the router, for the table of *)
(* the API as it stands: every request comes to the route its path was     *)
(* written for.  Of the guards and the authorizers, for every set of       *)
(* people, roles and requests in flight: what a request that overtakes     *)
(* another may never do.                                                   *)
(*                                                                         *)
(* The table has 69 routes of up to five segments.  It is never unfolded:  *)
(* a fact about it is proved of each controller's part and then of their   *)
(* concatenation, part by part.                                            *)
(***************************************************************************)
EXTENDS RouteAccess, SequenceTheorems, TLAPS

-------------------------------------------------------------------------------
(* Tables of routes. *)

\* What a sequence holds.
Places(s) == {s[i] : i \in DOMAIN s}
\* A sequence of what it holds.
IsSeq(s) == s \in Seq(Places(s))

\* At this segment a route x takes the request that is written for y.
Takes(x, y, k) == x.path[k] = ":" \/ x.path[k] = y.path[k]
\* The router would give x a request that is written for y.
Meets(x, y) ==
  /\ x.verb = y.verb
  /\ Len(x.path) = Len(y.path)
  /\ Takes(x, y, 1)
  /\ Len(y.path) \in {2, 3, 4, 5} => Takes(x, y, 2)
  /\ Len(y.path) \in {3, 4, 5} => Takes(x, y, 3)
  /\ Len(y.path) \in {4, 5} => Takes(x, y, 4)
  /\ Len(y.path) = 5 => Takes(x, y, 5)

\* A route whose words are none of the values a client sends for a parameter.
Plain(x) == IsSeq(x.path) /\ 1 \in DOMAIN x.path /\ \A k \in DOMAIN x.path : x.path[k] # "an id"

\* The shape of a route: its verb, its length, and, in the next five, its segments.
Path(x, verb, n) == x.verb = verb /\ Len(x.path) = n /\ DOMAIN x.path = 1 .. n /\ IsSeq(x.path)
Path1(x, verb, a) == Path(x, verb, 1) /\ x.path[1] = a
Path2(x, verb, a, b) == Path(x, verb, 2) /\ x.path[1] = a /\ x.path[2] = b
Path3(x, verb, a, b, c) == Path(x, verb, 3) /\ x.path[1] = a /\ x.path[2] = b /\ x.path[3] = c
Path4(x, verb, a, b, c, d) ==
  Path(x, verb, 4) /\ x.path[1] = a /\ x.path[2] = b /\ x.path[3] = c /\ x.path[4] = d
Path5(x, verb, a, b, c, d, e) ==
  Path(x, verb, 5) /\ x.path[1] = a /\ x.path[2] = b /\ x.path[3] = c /\ x.path[4] = d
      /\ x.path[5] = e

\* A path of one segment is what it is written as; the four lemmas after this say it of longer
\* ones.
LEMMA Spelled1 ==
  ASSUME NEW x, NEW a, x.path = <<a>>
  PROVE  Path1(x, x.verb, a)
BY DEF Path1, Path, IsSeq, Places

\* A path of two segments.
LEMMA Spelled2 ==
  ASSUME NEW x, NEW a, NEW b, x.path = <<a, b>>
  PROVE  Path2(x, x.verb, a, b)
BY DEF Path2, Path, IsSeq, Places

\* A path of three.
LEMMA Spelled3 ==
  ASSUME NEW x, NEW a, NEW b, NEW c, x.path = <<a, b, c>>
  PROVE  Path3(x, x.verb, a, b, c)
BY DEF Path3, Path, IsSeq, Places

\* A path of four.
LEMMA Spelled4 ==
  ASSUME NEW x, NEW a, NEW b, NEW c, NEW d, x.path = <<a, b, c, d>>
  PROVE  Path4(x, x.verb, a, b, c, d)
BY DEF Path4, Path, IsSeq, Places

\* A path of five.
LEMMA Spelled5 ==
  ASSUME NEW x, NEW a, NEW b, NEW c, NEW d, NEW e, x.path = <<a, b, c, d, e>>
  PROVE  Path5(x, x.verb, a, b, c, d, e)
BY DEF Path5, Path, IsSeq, Places

\* A route of one segment that is a word of the API; the same of longer ones follows.
LEMMA Plain1 ==
  ASSUME NEW x, NEW v, NEW a, Path1(x, v, a),
         a # "an id"
  PROVE  Plain(x)
<1>1. Path1(x, v, a) OBVIOUS
<1>2. 1 \in DOMAIN x.path BY ONLY <1>1 DEF Path1, Path
<1>3. ASSUME NEW word, a # word
      PROVE  \A k \in DOMAIN x.path : x.path[k] # word
  BY ONLY <1>1, <1>3 DEF Path1, Path
<1> QED BY <1>2, <1>3 DEF Path1, Path, Plain

\* A route of two words.
LEMMA Plain2 ==
  ASSUME NEW x, NEW v, NEW a, NEW b, Path2(x, v, a, b),
         a # "an id", b # "an id"
  PROVE  Plain(x)
<1>1. Path2(x, v, a, b) OBVIOUS
<1>2. 1 \in DOMAIN x.path BY ONLY <1>1 DEF Path2, Path
<1>3. ASSUME NEW word, a # word, b # word
      PROVE  \A k \in DOMAIN x.path : x.path[k] # word
  BY ONLY <1>1, <1>3 DEF Path2, Path
<1> QED BY <1>2, <1>3 DEF Path2, Path, Plain

\* Of three.
LEMMA Plain3 ==
  ASSUME NEW x, NEW v, NEW a, NEW b, NEW c, Path3(x, v, a, b, c),
         a # "an id", b # "an id", c # "an id"
  PROVE  Plain(x)
<1>1. Path3(x, v, a, b, c) OBVIOUS
<1>2. 1 \in DOMAIN x.path BY ONLY <1>1 DEF Path3, Path
<1>3. ASSUME NEW word, a # word, b # word, c # word
      PROVE  \A k \in DOMAIN x.path : x.path[k] # word
  BY ONLY <1>1, <1>3 DEF Path3, Path
<1> QED BY <1>2, <1>3 DEF Path3, Path, Plain

\* Of four.
LEMMA Plain4 ==
  ASSUME NEW x, NEW v, NEW a, NEW b, NEW c, NEW d, Path4(x, v, a, b, c, d),
         a # "an id", b # "an id", c # "an id", d # "an id"
  PROVE  Plain(x)
<1>1. Path4(x, v, a, b, c, d) OBVIOUS
<1>2. 1 \in DOMAIN x.path BY ONLY <1>1 DEF Path4, Path
<1>3. ASSUME NEW word, a # word, b # word, c # word, d # word
      PROVE  \A k \in DOMAIN x.path : x.path[k] # word
  BY ONLY <1>1, <1>3 DEF Path4, Path
<1> QED BY <1>2, <1>3 DEF Path4, Path, Plain

\* Of five.
LEMMA Plain5 ==
  ASSUME NEW x, NEW v, NEW a, NEW b, NEW c, NEW d, NEW e, Path5(x, v, a, b, c, d, e),
         a # "an id", b # "an id", c # "an id", d # "an id", e # "an id"
  PROVE  Plain(x)
<1>1. Path5(x, v, a, b, c, d, e) OBVIOUS
<1>2. 1 \in DOMAIN x.path BY ONLY <1>1 DEF Path5, Path
<1>3. ASSUME NEW word, a # word, b # word, c # word, d # word, e # word
      PROVE  \A k \in DOMAIN x.path : x.path[k] # word
  BY ONLY <1>1, <1>3 DEF Path5, Path
<1> QED BY <1>2, <1>3 DEF Path5, Path, Plain

\* The four ways of declaring a route agree on its verb and its path.
LEMMA Routed ==
  ASSUME NEW v, NEW p, NEW n
  PROVE  /\ Requiring(v, p, n).verb = v /\ Requiring(v, p, n).path = p
         /\ SignedIn(v, p).verb = v /\ SignedIn(v, p).path = p
         /\ AllowsPendingPassword(v, p).verb = v /\ AllowsPendingPassword(v, p).path = p
         /\ Public(v, p).verb = v /\ Public(v, p).path = p
BY DEF Requiring, SignedIn, AllowsPendingPassword, Public

\* No route of a table takes a request that a later one is written for.
Clear(s) == \A i, j \in DOMAIN s : j < i => ~Meets(s[j], s[i])
\* A table that the router may try from the top.
Ordered(s) == IsSeq(s) /\ Clear(s) /\ \A x \in Places(s) : Plain(x)
\* No route of one table takes a request of another.
Cross(s, t) == \A x \in Places(s), y \in Places(t) : ~Meets(x, y)

\* The concatenation of two sequences is a sequence and holds what they hold.
LEMMA Joined ==
  ASSUME NEW s, NEW t, IsSeq(s), IsSeq(t)
  PROVE  IsSeq(s \o t) /\ Places(s \o t) = Places(s) \cup Places(t)
<1> DEFINE S == Places(s) \cup Places(t)
<1>1. s \in Seq(S) /\ t \in Seq(S) BY DEF IsSeq
<1>2. /\ s \o t \in Seq(S)
      /\ Len(s \o t) = Len(s) + Len(t)
      /\ \A i \in 1 .. Len(s) + Len(t) : (s \o t)[i] = IF i <= Len(s) THEN s[i] ELSE t[i - Len(s)]
  BY <1>1, ConcatProperties
<1>3. /\ Len(s) \in Nat /\ DOMAIN s = 1 .. Len(s)
      /\ Len(t) \in Nat /\ DOMAIN t = 1 .. Len(t)
      /\ DOMAIN (s \o t) = 1 .. Len(s) + Len(t)
  BY <1>1, <1>2
<1>4. Places(s \o t) \subseteq S
  BY <1>2, <1>3 DEF Places
<1>5. ASSUME NEW i \in DOMAIN s PROVE s[i] \in Places(s \o t)
  <2>1. (s \o t)[i] = s[i] /\ i \in DOMAIN (s \o t) BY <1>2, <1>3
  <2> QED BY <2>1 DEF Places
<1>6. ASSUME NEW i \in DOMAIN t PROVE t[i] \in Places(s \o t)
  <2>1. (s \o t)[i + Len(s)] = t[i] /\ i + Len(s) \in DOMAIN (s \o t) BY <1>2, <1>3
  <2> QED BY <2>1 DEF Places
<1>7. Places(s \o t) = S BY <1>4, <1>5, <1>6 DEF Places
<1> QED BY <1>2, <1>7 DEF IsSeq

\* Two clear tables, one after the other, are clear when the first takes nothing of the second.
LEMMA JoinedClear ==
  ASSUME NEW s, NEW t, IsSeq(s), IsSeq(t), Clear(s), Clear(t), Cross(s, t)
  PROVE  Clear(s \o t)
<1> DEFINE S == Places(s) \cup Places(t)
<1>1. s \in Seq(S) /\ t \in Seq(S) BY DEF IsSeq
<1>2. /\ s \o t \in Seq(S)
      /\ Len(s \o t) = Len(s) + Len(t)
      /\ \A i \in 1 .. Len(s) + Len(t) : (s \o t)[i] = IF i <= Len(s) THEN s[i] ELSE t[i - Len(s)]
  BY <1>1, ConcatProperties
<1>3. /\ Len(s) \in Nat /\ DOMAIN s = 1 .. Len(s)
      /\ Len(t) \in Nat /\ DOMAIN t = 1 .. Len(t)
      /\ DOMAIN (s \o t) = 1 .. Len(s) + Len(t)
  BY <1>1, <1>2
<1> SUFFICES ASSUME NEW i \in DOMAIN (s \o t), NEW j \in DOMAIN (s \o t), j < i
             PROVE  ~Meets((s \o t)[j], (s \o t)[i])
  BY DEF Clear
<1>4. CASE i <= Len(s)
  <2>1. (s \o t)[i] = s[i] /\ (s \o t)[j] = s[j] /\ i \in DOMAIN s /\ j \in DOMAIN s
    BY <1>2, <1>3, <1>4
  <2> QED BY <2>1 DEF Clear
<1>5. CASE Len(s) < j
  <2>1. (s \o t)[i] = t[i - Len(s)] /\ (s \o t)[j] = t[j - Len(s)] BY <1>2, <1>3, <1>5
  <2>2. i - Len(s) \in DOMAIN t /\ j - Len(s) \in DOMAIN t /\ j - Len(s) < i - Len(s)
    BY <1>3, <1>5
  <2> QED BY <2>1, <2>2 DEF Clear
<1>6. CASE j <= Len(s) /\ Len(s) < i
  <2>1. (s \o t)[i] = t[i - Len(s)] /\ (s \o t)[j] = s[j] BY <1>2, <1>3, <1>6
  <2>2. i - Len(s) \in DOMAIN t /\ j \in DOMAIN s BY <1>3, <1>6
  <2> QED BY <2>1, <2>2 DEF Cross, Places
<1> QED BY <1>3, <1>4, <1>5, <1>6

-------------------------------------------------------------------------------
(* Within each controller, no route is taken by an earlier one. *)

\* The health checks.
IsHealth(k, x) ==
  \/ k = 1 /\ Path2(x, "GET", "health", "live")
  \/ k = 2 /\ Path2(x, "GET", "health", "ready")

\* In order: the health checks.
LEMMA HealthOrdered ==
  Ordered(HealthRoutes) /\ \A x \in Places(HealthRoutes) : \E k \in 1 .. 2 : IsHealth(k, x)
<1>1. DOMAIN HealthRoutes = 1 .. 2 /\ IsSeq(HealthRoutes) BY DEF HealthRoutes, IsSeq, Places
<1>2. ASSUME NEW k \in 1 .. 2 PROVE IsHealth(k, HealthRoutes[k])
  BY Routed, Spelled2 DEF HealthRoutes, IsHealth
<1>3. ASSUME NEW i, NEW j, NEW x, NEW y, IsHealth(j, x), IsHealth(i, y), Meets(x, y)
      PROVE  i = j
  BY <1>3 DEF IsHealth, Meets, Takes, Path, Path2
<1>4. ASSUME NEW k, NEW x, IsHealth(k, x) PROVE Plain(x)
  BY <1>4, Plain2 DEF IsHealth
<1>5. Clear(HealthRoutes) BY <1>1, <1>2, <1>3 DEF Clear
<1> QED BY <1>1, <1>2, <1>4, <1>5 DEF Ordered, Places

\* The users: the words staff and me come before the parameter.
IsUsers(k, x) ==
  \/ k = 1 /\ Path1(x, "POST", "users")
  \/ k = 2 /\ Path2(x, "POST", "users", "staff")
  \/ k = 3 /\ Path2(x, "GET", "users", "me")
  \/ k = 4 /\ Path2(x, "PATCH", "users", "me")
  \/ k = 5 /\ Path3(x, "POST", "users", "me", "password")
  \/ k = 6 /\ Path1(x, "GET", "users")
  \/ k = 7 /\ Path2(x, "GET", "users", ":")
  \/ k = 8 /\ Path2(x, "PATCH", "users", ":")
  \/ k = 9 /\ Path2(x, "DELETE", "users", ":")

\* In order: no request of theirs is taken by an earlier route.
LEMMA UsersOrdered ==
  Ordered(UsersRoutes) /\ \A x \in Places(UsersRoutes) : \E k \in 1 .. 9 : IsUsers(k, x)
<1>1. DOMAIN UsersRoutes = 1 .. 9 /\ IsSeq(UsersRoutes) BY DEF UsersRoutes, IsSeq, Places
<1>2. ASSUME NEW k \in 1 .. 9 PROVE IsUsers(k, UsersRoutes[k])
  <2>1. Path1(UsersRoutes[1], "POST", "users")
    BY Routed, Spelled1 DEF UsersRoutes
  <2>2. Path2(UsersRoutes[2], "POST", "users", "staff")
    BY Routed, Spelled2 DEF UsersRoutes
  <2>3. Path2(UsersRoutes[3], "GET", "users", "me")
    BY Routed, Spelled2 DEF UsersRoutes
  <2>4. Path2(UsersRoutes[4], "PATCH", "users", "me")
    BY Routed, Spelled2 DEF UsersRoutes
  <2>5. Path3(UsersRoutes[5], "POST", "users", "me", "password")
    BY Routed, Spelled3 DEF UsersRoutes
  <2>6. Path1(UsersRoutes[6], "GET", "users")
    BY Routed, Spelled1 DEF UsersRoutes
  <2>7. Path2(UsersRoutes[7], "GET", "users", ":")
    BY Routed, Spelled2 DEF UsersRoutes
  <2>8. Path2(UsersRoutes[8], "PATCH", "users", ":")
    BY Routed, Spelled2 DEF UsersRoutes
  <2>9. Path2(UsersRoutes[9], "DELETE", "users", ":")
    BY Routed, Spelled2 DEF UsersRoutes
  <2> QED BY <2>1, <2>2, <2>3, <2>4, <2>5, <2>6, <2>7, <2>8, <2>9 DEF IsUsers
<1>3. ASSUME NEW i, NEW j, NEW x, NEW y, IsUsers(j, x), IsUsers(i, y), Meets(x, y)
      PROVE  i = j \/ (i = 3 /\ j = 7) \/ (i = 4 /\ j = 8)
  BY <1>3 DEF IsUsers, Meets, Takes, Path, Path1, Path2, Path3
<1>4. ASSUME NEW k, NEW x, IsUsers(k, x) PROVE Plain(x)
  BY <1>4, Plain1, Plain2, Plain3 DEF IsUsers
<1>5. Clear(UsersRoutes) BY <1>1, <1>2, <1>3 DEF Clear
<1> QED BY <1>1, <1>2, <1>4, <1>5 DEF Ordered, Places

\* Sessions and tokens.
IsAuth(k, x) ==
  \/ k = 1 /\ Path2(x, "POST", "auth", "sessions")
  \/ k = 2 /\ Path2(x, "POST", "auth", "tokens")
  \/ k = 3 /\ Path2(x, "DELETE", "auth", "sessions")
  \/ k = 4 /\ Path2(x, "GET", "auth", "sessions")
  \/ k = 5 /\ Path3(x, "DELETE", "auth", "sessions", ":")

\* In order: no request of theirs is taken by an earlier route.
LEMMA AuthOrdered ==
  Ordered(AuthRoutes) /\ \A x \in Places(AuthRoutes) : \E k \in 1 .. 5 : IsAuth(k, x)
<1>1. DOMAIN AuthRoutes = 1 .. 5 /\ IsSeq(AuthRoutes) BY DEF AuthRoutes, IsSeq, Places
<1>2. ASSUME NEW k \in 1 .. 5 PROVE IsAuth(k, AuthRoutes[k])
  BY Routed, Spelled2, Spelled3, SMTT(20) DEF AuthRoutes, IsAuth
<1>3. ASSUME NEW i, NEW j, NEW x, NEW y, IsAuth(j, x), IsAuth(i, y), Meets(x, y)
      PROVE  i = j
  BY <1>3 DEF IsAuth, Meets, Takes, Path, Path2, Path3
<1>4. ASSUME NEW k, NEW x, IsAuth(k, x) PROVE Plain(x)
  BY <1>4, Plain2, Plain3 DEF IsAuth
<1>5. Clear(AuthRoutes) BY <1>1, <1>2, <1>3 DEF Clear
<1> QED BY <1>1, <1>2, <1>4, <1>5 DEF Ordered, Places

\* The roles.
IsRoles(k, x) ==
  \/ k = 1 /\ Path1(x, "GET", "roles")
  \/ k = 2 /\ Path1(x, "POST", "roles")
  \/ k = 3 /\ Path2(x, "GET", "roles", ":")
  \/ k = 4 /\ Path2(x, "PATCH", "roles", ":")
  \/ k = 5 /\ Path2(x, "DELETE", "roles", ":")
  \/ k = 6 /\ Path3(x, "PUT", "roles", ":", "permissions")

\* In order: no request of theirs is taken by an earlier route.
LEMMA RolesOrdered ==
  Ordered(RolesRoutes) /\ \A x \in Places(RolesRoutes) : \E k \in 1 .. 6 : IsRoles(k, x)
<1>1. DOMAIN RolesRoutes = 1 .. 6 /\ IsSeq(RolesRoutes) BY DEF RolesRoutes, IsSeq, Places
<1>2. ASSUME NEW k \in 1 .. 6 PROVE IsRoles(k, RolesRoutes[k])
  BY Routed, Spelled1, Spelled2, Spelled3 DEF RolesRoutes, IsRoles
<1>3. ASSUME NEW i, NEW j, NEW x, NEW y, IsRoles(j, x), IsRoles(i, y), Meets(x, y)
      PROVE  i = j
  BY <1>3 DEF IsRoles, Meets, Takes, Path, Path1, Path2, Path3
<1>4. ASSUME NEW k, NEW x, IsRoles(k, x) PROVE Plain(x)
  BY <1>4, Plain1, Plain2, Plain3 DEF IsRoles
<1>5. Clear(RolesRoutes) BY <1>1, <1>2, <1>3 DEF Clear
<1> QED BY <1>1, <1>2, <1>4, <1>5 DEF Ordered, Places

\* The permissions.
IsPermissions(k, x) ==
  \/ k = 1 /\ Path1(x, "GET", "permissions")

\* In order: no request of theirs is taken by an earlier route.
LEMMA PermissionsOrdered ==
  Ordered(PermissionsRoutes)
      /\ \A x \in Places(PermissionsRoutes) : \E k \in 1 .. 1 : IsPermissions(k, x)
<1>1. DOMAIN PermissionsRoutes = 1 .. 1 /\ IsSeq(PermissionsRoutes)
  BY DEF PermissionsRoutes, IsSeq, Places
<1>2. ASSUME NEW k \in 1 .. 1 PROVE IsPermissions(k, PermissionsRoutes[k])
  BY Routed, Spelled1 DEF PermissionsRoutes, IsPermissions
<1>3. ASSUME NEW i, NEW j, NEW x, NEW y, IsPermissions(j, x), IsPermissions(i, y), Meets(x, y)
      PROVE  i = j
  BY <1>3 DEF IsPermissions, Meets, Takes, Path, Path1
<1>4. ASSUME NEW k, NEW x, IsPermissions(k, x) PROVE Plain(x)
  BY <1>4, Plain1 DEF IsPermissions
<1>5. Clear(PermissionsRoutes) BY <1>1, <1>2, <1>3 DEF Clear
<1> QED BY <1>1, <1>2, <1>4, <1>5 DEF Ordered, Places

\* The access of a user.
IsUserAccess(k, x) ==
  \/ k = 1 /\ Path3(x, "GET", "users", ":", "access")
  \/ k = 2 /\ Path4(x, "PUT", "users", ":", "roles", ":")
  \/ k = 3 /\ Path4(x, "DELETE", "users", ":", "roles", ":")

\* In order: no request of theirs is taken by an earlier route.
LEMMA UserAccessOrdered ==
  Ordered(UserAccessRoutes)
      /\ \A x \in Places(UserAccessRoutes) : \E k \in 1 .. 3 : IsUserAccess(k, x)
<1>1. DOMAIN UserAccessRoutes = 1 .. 3 /\ IsSeq(UserAccessRoutes)
  BY DEF UserAccessRoutes, IsSeq, Places
<1>2. ASSUME NEW k \in 1 .. 3 PROVE IsUserAccess(k, UserAccessRoutes[k])
  BY Routed, Spelled3, Spelled4 DEF UserAccessRoutes, IsUserAccess
<1>3. ASSUME NEW i, NEW j, NEW x, NEW y, IsUserAccess(j, x), IsUserAccess(i, y), Meets(x, y)
      PROVE  i = j
  BY <1>3 DEF IsUserAccess, Meets, Takes, Path, Path3, Path4
<1>4. ASSUME NEW k, NEW x, IsUserAccess(k, x) PROVE Plain(x)
  BY <1>4, Plain3, Plain4 DEF IsUserAccess
<1>5. Clear(UserAccessRoutes) BY <1>1, <1>2, <1>3 DEF Clear
<1> QED BY <1>1, <1>2, <1>4, <1>5 DEF Ordered, Places

\* The customers: me comes before the parameter.
IsCustomers(k, x) ==
  \/ k = 1 /\ Path1(x, "POST", "customers")
  \/ k = 2 /\ Path2(x, "GET", "customers", "me")
  \/ k = 3 /\ Path2(x, "PATCH", "customers", "me")
  \/ k = 4 /\ Path1(x, "GET", "customers")
  \/ k = 5 /\ Path2(x, "GET", "customers", ":")
  \/ k = 6 /\ Path2(x, "PATCH", "customers", ":")
  \/ k = 7 /\ Path2(x, "DELETE", "customers", ":")

\* In order: no request of theirs is taken by an earlier route.
LEMMA CustomersOrdered ==
  Ordered(CustomersRoutes)
      /\ \A x \in Places(CustomersRoutes) : \E k \in 1 .. 7 : IsCustomers(k, x)
<1>1. DOMAIN CustomersRoutes = 1 .. 7 /\ IsSeq(CustomersRoutes)
  BY DEF CustomersRoutes, IsSeq, Places
<1>2. ASSUME NEW k \in 1 .. 7 PROVE IsCustomers(k, CustomersRoutes[k])
  <2>1. Path1(CustomersRoutes[1], "POST", "customers")
    BY Routed, Spelled1 DEF CustomersRoutes
  <2>2. Path2(CustomersRoutes[2], "GET", "customers", "me")
    BY Routed, Spelled2 DEF CustomersRoutes
  <2>3. Path2(CustomersRoutes[3], "PATCH", "customers", "me")
    BY Routed, Spelled2 DEF CustomersRoutes
  <2>4. Path1(CustomersRoutes[4], "GET", "customers")
    BY Routed, Spelled1 DEF CustomersRoutes
  <2>5. Path2(CustomersRoutes[5], "GET", "customers", ":")
    BY Routed, Spelled2 DEF CustomersRoutes
  <2>6. Path2(CustomersRoutes[6], "PATCH", "customers", ":")
    BY Routed, Spelled2 DEF CustomersRoutes
  <2>7. Path2(CustomersRoutes[7], "DELETE", "customers", ":")
    BY Routed, Spelled2 DEF CustomersRoutes
  <2> QED BY <2>1, <2>2, <2>3, <2>4, <2>5, <2>6, <2>7 DEF IsCustomers
<1>3. ASSUME NEW i, NEW j, NEW x, NEW y, IsCustomers(j, x), IsCustomers(i, y), Meets(x, y)
      PROVE  i = j \/ (i = 2 /\ j = 5) \/ (i = 3 /\ j = 6)
  BY <1>3 DEF IsCustomers, Meets, Takes, Path, Path1, Path2
<1>4. ASSUME NEW k, NEW x, IsCustomers(k, x) PROVE Plain(x)
  BY <1>4, Plain1, Plain2 DEF IsCustomers
<1>5. Clear(CustomersRoutes) BY <1>1, <1>2, <1>3 DEF Clear
<1> QED BY <1>1, <1>2, <1>4, <1>5 DEF Ordered, Places

\* The vehicles: likewise.
IsVehicles(k, x) ==
  \/ k = 1 /\ Path1(x, "POST", "vehicles")
  \/ k = 2 /\ Path2(x, "GET", "vehicles", "me")
  \/ k = 3 /\ Path1(x, "GET", "vehicles")
  \/ k = 4 /\ Path2(x, "GET", "vehicles", ":")
  \/ k = 5 /\ Path2(x, "PATCH", "vehicles", ":")
  \/ k = 6 /\ Path2(x, "DELETE", "vehicles", ":")

\* In order: no request of theirs is taken by an earlier route.
LEMMA VehiclesOrdered ==
  Ordered(VehiclesRoutes) /\ \A x \in Places(VehiclesRoutes) : \E k \in 1 .. 6 : IsVehicles(k, x)
<1>1. DOMAIN VehiclesRoutes = 1 .. 6 /\ IsSeq(VehiclesRoutes) BY DEF VehiclesRoutes, IsSeq, Places
<1>2. ASSUME NEW k \in 1 .. 6 PROVE IsVehicles(k, VehiclesRoutes[k])
  BY Routed, Spelled1, Spelled2, SMTT(20) DEF VehiclesRoutes, IsVehicles
<1>3. ASSUME NEW i, NEW j, NEW x, NEW y, IsVehicles(j, x), IsVehicles(i, y), Meets(x, y)
      PROVE  i = j \/ (i = 2 /\ j = 4)
  BY <1>3 DEF IsVehicles, Meets, Takes, Path, Path1, Path2
<1>4. ASSUME NEW k, NEW x, IsVehicles(k, x) PROVE Plain(x)
  BY <1>4, Plain1, Plain2 DEF IsVehicles
<1>5. Clear(VehiclesRoutes) BY <1>1, <1>2, <1>3 DEF Clear
<1> QED BY <1>1, <1>2, <1>4, <1>5 DEF Ordered, Places

\* The services.
IsServices(k, x) ==
  \/ k = 1 /\ Path1(x, "POST", "services")
  \/ k = 2 /\ Path1(x, "GET", "services")
  \/ k = 3 /\ Path2(x, "GET", "services", ":")
  \/ k = 4 /\ Path2(x, "PATCH", "services", ":")
  \/ k = 5 /\ Path2(x, "DELETE", "services", ":")

\* In order: no request of theirs is taken by an earlier route.
LEMMA ServicesOrdered ==
  Ordered(ServicesRoutes) /\ \A x \in Places(ServicesRoutes) : \E k \in 1 .. 5 : IsServices(k, x)
<1>1. DOMAIN ServicesRoutes = 1 .. 5 /\ IsSeq(ServicesRoutes) BY DEF ServicesRoutes, IsSeq, Places
<1>2. ASSUME NEW k \in 1 .. 5 PROVE IsServices(k, ServicesRoutes[k])
  BY Routed, Spelled1, Spelled2 DEF ServicesRoutes, IsServices
<1>3. ASSUME NEW i, NEW j, NEW x, NEW y, IsServices(j, x), IsServices(i, y), Meets(x, y)
      PROVE  i = j
  BY <1>3 DEF IsServices, Meets, Takes, Path, Path1, Path2
<1>4. ASSUME NEW k, NEW x, IsServices(k, x) PROVE Plain(x)
  BY <1>4, Plain1, Plain2 DEF IsServices
<1>5. Clear(ServicesRoutes) BY <1>1, <1>2, <1>3 DEF Clear
<1> QED BY <1>1, <1>2, <1>4, <1>5 DEF Ordered, Places

\* The items of the inventory: shortages come before the parameter.
IsInventory(k, x) ==
  \/ k = 1 /\ Path1(x, "POST", "inventory-items")
  \/ k = 2 /\ Path1(x, "GET", "inventory-items")
  \/ k = 3 /\ Path2(x, "GET", "inventory-items", "shortages")
  \/ k = 4 /\ Path2(x, "GET", "inventory-items", ":")
  \/ k = 5 /\ Path2(x, "PATCH", "inventory-items", ":")
  \/ k = 6 /\ Path2(x, "DELETE", "inventory-items", ":")

\* In order: no request of theirs is taken by an earlier route.
LEMMA InventoryOrdered ==
  Ordered(InventoryRoutes)
      /\ \A x \in Places(InventoryRoutes) : \E k \in 1 .. 6 : IsInventory(k, x)
<1>1. DOMAIN InventoryRoutes = 1 .. 6 /\ IsSeq(InventoryRoutes)
  BY DEF InventoryRoutes, IsSeq, Places
<1>2. ASSUME NEW k \in 1 .. 6 PROVE IsInventory(k, InventoryRoutes[k])
  BY Routed, Spelled1, Spelled2 DEF InventoryRoutes, IsInventory
<1>3. ASSUME NEW i, NEW j, NEW x, NEW y, IsInventory(j, x), IsInventory(i, y), Meets(x, y)
      PROVE  i = j \/ (i = 3 /\ j = 4)
  BY <1>3 DEF IsInventory, Meets, Takes, Path, Path1, Path2
<1>4. ASSUME NEW k, NEW x, IsInventory(k, x) PROVE Plain(x)
  BY <1>4, Plain1, Plain2 DEF IsInventory
<1>5. Clear(InventoryRoutes) BY <1>1, <1>2, <1>3 DEF Clear
<1> QED BY <1>1, <1>2, <1>4, <1>5 DEF Ordered, Places

\* The stock of an item.
IsStock(k, x) ==
  \/ k = 1 /\ Path3(x, "POST", "inventory-items", ":", "replenishments")
  \/ k = 2 /\ Path3(x, "POST", "inventory-items", ":", "adjustments")
  \/ k = 3 /\ Path3(x, "GET", "inventory-items", ":", "movements")

\* In order: no request of theirs is taken by an earlier route.
LEMMA StockOrdered ==
  Ordered(StockRoutes) /\ \A x \in Places(StockRoutes) : \E k \in 1 .. 3 : IsStock(k, x)
<1>1. DOMAIN StockRoutes = 1 .. 3 /\ IsSeq(StockRoutes) BY DEF StockRoutes, IsSeq, Places
<1>2. ASSUME NEW k \in 1 .. 3 PROVE IsStock(k, StockRoutes[k])
  BY Routed, Spelled3 DEF StockRoutes, IsStock
<1>3. ASSUME NEW i, NEW j, NEW x, NEW y, IsStock(j, x), IsStock(i, y), Meets(x, y)
      PROVE  i = j
  BY <1>3 DEF IsStock, Meets, Takes, Path, Path3
<1>4. ASSUME NEW k, NEW x, IsStock(k, x) PROVE Plain(x)
  BY <1>4, Plain3 DEF IsStock
<1>5. Clear(StockRoutes) BY <1>1, <1>2, <1>3 DEF Clear
<1> QED BY <1>1, <1>2, <1>4, <1>5 DEF Ordered, Places

\* Opening and listing work orders.
IsOpening(k, x) ==
  \/ k = 1 /\ Path1(x, "POST", "work-orders")
  \/ k = 2 /\ Path1(x, "GET", "work-orders")

\* In order: no request of theirs is taken by an earlier route.
LEMMA OpeningOrdered ==
  Ordered(OpeningRoutes) /\ \A x \in Places(OpeningRoutes) : \E k \in 1 .. 2 : IsOpening(k, x)
<1>1. DOMAIN OpeningRoutes = 1 .. 2 /\ IsSeq(OpeningRoutes) BY DEF OpeningRoutes, IsSeq, Places
<1>2. ASSUME NEW k \in 1 .. 2 PROVE IsOpening(k, OpeningRoutes[k])
  BY Routed, Spelled1 DEF OpeningRoutes, IsOpening
<1>3. ASSUME NEW i, NEW j, NEW x, NEW y, IsOpening(j, x), IsOpening(i, y), Meets(x, y)
      PROVE  i = j
  BY <1>3 DEF IsOpening, Meets, Takes, Path, Path1
<1>4. ASSUME NEW k, NEW x, IsOpening(k, x) PROVE Plain(x)
  BY <1>4, Plain1 DEF IsOpening
<1>5. Clear(OpeningRoutes) BY <1>1, <1>2, <1>3 DEF Clear
<1> QED BY <1>1, <1>2, <1>4, <1>5 DEF Ordered, Places

\* A customer's own orders.
IsOwnOrder(k, x) ==
  \/ k = 1 /\ Path2(x, "GET", "work-orders", "me")
  \/ k = 2 /\ Path3(x, "GET", "work-orders", "me", ":")

\* In order: no request of theirs is taken by an earlier route.
LEMMA OwnOrderOrdered ==
  Ordered(OwnOrderRoutes) /\ \A x \in Places(OwnOrderRoutes) : \E k \in 1 .. 2 : IsOwnOrder(k, x)
<1>1. DOMAIN OwnOrderRoutes = 1 .. 2 /\ IsSeq(OwnOrderRoutes) BY DEF OwnOrderRoutes, IsSeq, Places
<1>2. ASSUME NEW k \in 1 .. 2 PROVE IsOwnOrder(k, OwnOrderRoutes[k])
  BY Routed, Spelled2, Spelled3 DEF OwnOrderRoutes, IsOwnOrder
<1>3. ASSUME NEW i, NEW j, NEW x, NEW y, IsOwnOrder(j, x), IsOwnOrder(i, y), Meets(x, y)
      PROVE  i = j
  BY <1>3 DEF IsOwnOrder, Meets, Takes, Path, Path2, Path3
<1>4. ASSUME NEW k, NEW x, IsOwnOrder(k, x) PROVE Plain(x)
  BY <1>4, Plain2, Plain3 DEF IsOwnOrder
<1>5. Clear(OwnOrderRoutes) BY <1>1, <1>2, <1>3 DEF Clear
<1> QED BY <1>1, <1>2, <1>4, <1>5 DEF Ordered, Places

\* Reading an order: the metrics come before the parameter.
IsOrderRead(k, x) ==
  \/ k = 1 /\ Path3(x, "GET", "work-orders", "metrics", "average-execution-time")
  \/ k = 2 /\ Path2(x, "GET", "work-orders", ":")
  \/ k = 3 /\ Path3(x, "GET", "work-orders", ":", "trail")

\* In order: no request of theirs is taken by an earlier route.
LEMMA OrderReadOrdered ==
  Ordered(OrderReadRoutes)
      /\ \A x \in Places(OrderReadRoutes) : \E k \in 1 .. 3 : IsOrderRead(k, x)
<1>1. DOMAIN OrderReadRoutes = 1 .. 3 /\ IsSeq(OrderReadRoutes)
  BY DEF OrderReadRoutes, IsSeq, Places
<1>2. ASSUME NEW k \in 1 .. 3 PROVE IsOrderRead(k, OrderReadRoutes[k])
  BY Routed, Spelled2, Spelled3 DEF OrderReadRoutes, IsOrderRead
<1>3. ASSUME NEW i, NEW j, NEW x, NEW y, IsOrderRead(j, x), IsOrderRead(i, y), Meets(x, y)
      PROVE  i = j
  BY <1>3 DEF IsOrderRead, Meets, Takes, Path, Path2, Path3
<1>4. ASSUME NEW k, NEW x, IsOrderRead(k, x) PROVE Plain(x)
  BY <1>4, Plain2, Plain3 DEF IsOrderRead
<1>5. Clear(OrderReadRoutes) BY <1>1, <1>2, <1>3 DEF Clear
<1> QED BY <1>1, <1>2, <1>4, <1>5 DEF Ordered, Places

\* Planning an order.
IsPlanning(k, x) ==
  \/ k = 1 /\ Path3(x, "POST", "work-orders", ":", "services")
  \/ k = 2 /\ Path3(x, "POST", "work-orders", ":", "parts")
  \/ k = 3 /\ Path4(x, "DELETE", "work-orders", ":", "items", ":")
  \/ k = 4 /\ Path3(x, "PUT", "work-orders", ":", "mechanic")

\* In order: no request of theirs is taken by an earlier route.
LEMMA PlanningOrdered ==
  Ordered(PlanningRoutes) /\ \A x \in Places(PlanningRoutes) : \E k \in 1 .. 4 : IsPlanning(k, x)
<1>1. DOMAIN PlanningRoutes = 1 .. 4 /\ IsSeq(PlanningRoutes) BY DEF PlanningRoutes, IsSeq, Places
<1>2. ASSUME NEW k \in 1 .. 4 PROVE IsPlanning(k, PlanningRoutes[k])
  BY Routed, Spelled3, Spelled4 DEF PlanningRoutes, IsPlanning
<1>3. ASSUME NEW i, NEW j, NEW x, NEW y, IsPlanning(j, x), IsPlanning(i, y), Meets(x, y)
      PROVE  i = j
  BY <1>3 DEF IsPlanning, Meets, Takes, Path, Path3, Path4
<1>4. ASSUME NEW k, NEW x, IsPlanning(k, x) PROVE Plain(x)
  BY <1>4, Plain3, Plain4 DEF IsPlanning
<1>5. Clear(PlanningRoutes) BY <1>1, <1>2, <1>3 DEF Clear
<1> QED BY <1>1, <1>2, <1>4, <1>5 DEF Ordered, Places

\* Executing it.
IsExecution(k, x) ==
  \/ k = 1 /\ Path3(x, "POST", "work-orders", ":", "diagnosis")
  \/ k = 2 /\ Path4(x, "POST", "work-orders", ":", "diagnosis", "completion")
  \/ k = 3 /\ Path4(x, "POST", "work-orders", ":", "budget", "supplementary")
  \/ k = 4 /\ Path3(x, "POST", "work-orders", ":", "withdrawals")
  \/ k = 5 /\ Path3(x, "POST", "work-orders", ":", "returns")

\* In order: no request of theirs is taken by an earlier route.
LEMMA ExecutionOrdered ==
  Ordered(ExecutionRoutes)
      /\ \A x \in Places(ExecutionRoutes) : \E k \in 1 .. 5 : IsExecution(k, x)
<1>1. DOMAIN ExecutionRoutes = 1 .. 5 /\ IsSeq(ExecutionRoutes)
  BY DEF ExecutionRoutes, IsSeq, Places
<1>2. ASSUME NEW k \in 1 .. 5 PROVE IsExecution(k, ExecutionRoutes[k])
  BY Routed, Spelled3, Spelled4 DEF ExecutionRoutes, IsExecution
<1>3. ASSUME NEW i, NEW j, NEW x, NEW y, IsExecution(j, x), IsExecution(i, y), Meets(x, y)
      PROVE  i = j
  BY <1>3 DEF IsExecution, Meets, Takes, Path, Path3, Path4
<1>4. ASSUME NEW k, NEW x, IsExecution(k, x) PROVE Plain(x)
  BY <1>4, Plain3, Plain4 DEF IsExecution
<1>5. Clear(ExecutionRoutes) BY <1>1, <1>2, <1>3 DEF Clear
<1> QED BY <1>1, <1>2, <1>4, <1>5 DEF Ordered, Places

\* Deciding on its budgets.
IsDecision(k, x) ==
  \/ k = 1 /\ Path4(x, "POST", "work-orders", ":", "budget", "approval")
  \/ k = 2 /\ Path4(x, "POST", "work-orders", ":", "budget", "rejection")
  \/ k = 3 /\ Path5(x, "POST", "work-orders", ":", "budgets", ":", "approval")
  \/ k = 4 /\ Path5(x, "POST", "work-orders", ":", "budgets", ":", "rejection")

\* In order: no request of theirs is taken by an earlier route.
LEMMA DecisionOrdered ==
  Ordered(DecisionRoutes) /\ \A x \in Places(DecisionRoutes) : \E k \in 1 .. 4 : IsDecision(k, x)
<1>1. DOMAIN DecisionRoutes = 1 .. 4 /\ IsSeq(DecisionRoutes) BY DEF DecisionRoutes, IsSeq, Places
<1>2. ASSUME NEW k \in 1 .. 4 PROVE IsDecision(k, DecisionRoutes[k])
  BY Routed, Spelled4, Spelled5 DEF DecisionRoutes, IsDecision
<1>3. ASSUME NEW i, NEW j, NEW x, NEW y, IsDecision(j, x), IsDecision(i, y), Meets(x, y)
      PROVE  i = j
  BY <1>3 DEF IsDecision, Meets, Takes, Path, Path4, Path5
<1>4. ASSUME NEW k, NEW x, IsDecision(k, x) PROVE Plain(x)
  BY <1>4, Plain4, Plain5 DEF IsDecision
<1>5. Clear(DecisionRoutes) BY <1>1, <1>2, <1>3 DEF Clear
<1> QED BY <1>1, <1>2, <1>4, <1>5 DEF Ordered, Places

\* Closing it.
IsClosing(k, x) ==
  \/ k = 1 /\ Path3(x, "POST", "work-orders", ":", "completion")
  \/ k = 2 /\ Path3(x, "POST", "work-orders", ":", "delivery")
  \/ k = 3 /\ Path3(x, "POST", "work-orders", ":", "cancellation")
  \/ k = 4 /\ Path3(x, "POST", "work-orders", ":", "discount")

\* In order: no request of theirs is taken by an earlier route.
LEMMA ClosingOrdered ==
  Ordered(ClosingRoutes) /\ \A x \in Places(ClosingRoutes) : \E k \in 1 .. 4 : IsClosing(k, x)
<1>1. DOMAIN ClosingRoutes = 1 .. 4 /\ IsSeq(ClosingRoutes) BY DEF ClosingRoutes, IsSeq, Places
<1>2. ASSUME NEW k \in 1 .. 4 PROVE IsClosing(k, ClosingRoutes[k])
  BY Routed, Spelled3 DEF ClosingRoutes, IsClosing
<1>3. ASSUME NEW i, NEW j, NEW x, NEW y, IsClosing(j, x), IsClosing(i, y), Meets(x, y)
      PROVE  i = j
  BY <1>3 DEF IsClosing, Meets, Takes, Path, Path3
<1>4. ASSUME NEW k, NEW x, IsClosing(k, x) PROVE Plain(x)
  BY <1>4, Plain3 DEF IsClosing
<1>5. Clear(ClosingRoutes) BY <1>1, <1>2, <1>3 DEF Clear
<1> QED BY <1>1, <1>2, <1>4, <1>5 DEF Ordered, Places

-------------------------------------------------------------------------------
(* Between the controllers. *)

\* A table extended by another one that nothing before it takes from.
LEMMA Extended ==
  ASSUME NEW s, NEW t, Ordered(s), Ordered(t), Cross(s, t)
  PROVE  Ordered(s \o t) /\ Places(s \o t) = Places(s) \cup Places(t)
<1>1. IsSeq(s) /\ IsSeq(t) /\ Clear(s) /\ Clear(t) BY DEF Ordered
<1>2. IsSeq(s \o t) /\ Places(s \o t) = Places(s) \cup Places(t) BY <1>1, Joined
<1>3. Clear(s \o t) BY <1>1, JoinedClear
<1> QED BY <1>2, <1>3 DEF Ordered

\* The first words of the paths of a table.
Led(s, words) == \A x \in Places(s) : x.path[1] \in words

\* Tables under different first words have nothing to do with each other.
LEMMA LedApart ==
  ASSUME NEW s, NEW t, NEW V, NEW W, Led(s, V), Led(t, W), V \cap W = {}, ":" \notin V
  PROVE  Cross(s, t)
BY DEF Led, Cross, Meets, Takes

\* The first words of the controllers.
LEMMA LedBy ==
  /\ Led(HealthRoutes, {"health"}) /\ Led(UsersRoutes, {"users"}) /\ Led(AuthRoutes, {"auth"})
  /\ Led(RolesRoutes, {"roles"}) /\ Led(PermissionsRoutes, {"permissions"})
  /\ Led(UserAccessRoutes, {"users"}) /\ Led(CustomersRoutes, {"customers"})
  /\ Led(VehiclesRoutes, {"vehicles"}) /\ Led(ServicesRoutes, {"services"})
  /\ Led(InventoryRoutes, {"inventory-items"}) /\ Led(StockRoutes, {"inventory-items"})
<1>1. Led(HealthRoutes, {"health"}) BY HealthOrdered DEF Led, IsHealth, Path2
<1>2. Led(UsersRoutes, {"users"}) BY UsersOrdered DEF Led, IsUsers, Path1, Path2, Path3
<1>3. Led(AuthRoutes, {"auth"}) BY AuthOrdered DEF Led, IsAuth, Path2, Path3
<1>4. Led(RolesRoutes, {"roles"}) BY RolesOrdered DEF Led, IsRoles, Path1, Path2, Path3
<1>5. Led(PermissionsRoutes, {"permissions"}) BY PermissionsOrdered DEF Led, IsPermissions, Path1
<1>6. Led(UserAccessRoutes, {"users"})
  BY UserAccessOrdered DEF Led, IsUserAccess, Path3, Path4
<1>7. Led(CustomersRoutes, {"customers"}) BY CustomersOrdered DEF Led, IsCustomers, Path1, Path2
<1>8. Led(VehiclesRoutes, {"vehicles"}) BY VehiclesOrdered DEF Led, IsVehicles, Path1, Path2
<1>9. Led(ServicesRoutes, {"services"}) BY ServicesOrdered DEF Led, IsServices, Path1, Path2
<1>10. Led(InventoryRoutes, {"inventory-items"})
  BY InventoryOrdered DEF Led, IsInventory, Path1, Path2
<1>11. Led(StockRoutes, {"inventory-items"}) BY StockOrdered DEF Led, IsStock, Path3
<1> QED BY <1>1, <1>2, <1>3, <1>4, <1>5, <1>6, <1>7, <1>8, <1>9, <1>10, <1>11

\* The first words of two tables, one after the other.
LEMMA LedTogether ==
  ASSUME NEW s, NEW t, NEW V, NEW W, Led(s, V), Led(t, W), Ordered(s), Ordered(t), Cross(s, t)
  PROVE  Led(s \o t, V \cup W)
BY Extended DEF Led

\* The identity module: only the users and the access of users share a first word.
LEMMA IdentityOrdered ==
  /\ Ordered(IdentityRoutes) /\ Led(IdentityRoutes, {"users", "auth", "roles", "permissions"})
  /\ Places(UsersRoutes) \cup Places(AuthRoutes) \subseteq Places(IdentityRoutes)
<1> DEFINE S1 == UsersRoutes \o AuthRoutes
           S2 == S1 \o RolesRoutes
           S3 == S2 \o PermissionsRoutes
<1>1. Cross(UsersRoutes, AuthRoutes) BY LedBy, LedApart
<1>2. /\ Ordered(S1) /\ Places(S1) = Places(UsersRoutes) \cup Places(AuthRoutes)
      /\ Led(S1, {"users", "auth"})
  BY <1>1, UsersOrdered, AuthOrdered, Extended, LedBy DEF Led
<1> HIDE DEF S1
<1>3. Cross(S1, RolesRoutes) BY <1>2, LedBy, LedApart
<1>4. /\ Ordered(S2) /\ Places(S2) = Places(S1) \cup Places(RolesRoutes)
      /\ Led(S2, {"users", "auth", "roles"})
  BY <1>2, <1>3, RolesOrdered, Extended, LedBy DEF Led
<1> HIDE DEF S2
<1>5. Cross(S2, PermissionsRoutes) BY <1>4, LedBy, LedApart
<1>6. /\ Ordered(S3) /\ Places(S3) = Places(S2) \cup Places(PermissionsRoutes)
      /\ Led(S3, {"users", "auth", "roles", "permissions"})
  BY <1>4, <1>5, PermissionsOrdered, Extended, LedBy DEF Led
<1> HIDE DEF S3
<1>7. Cross(S3, UserAccessRoutes)
  <2> SUFFICES ASSUME NEW x \in Places(S3), NEW y \in Places(UserAccessRoutes) PROVE ~Meets(x, y)
    BY DEF Cross
  <2>1. CASE x \in Places(UsersRoutes)
    <3>1. ASSUME NEW i, NEW j, IsUsers(i, x), IsUserAccess(j, y) PROVE ~Meets(x, y)
      BY <3>1 DEF IsUsers, IsUserAccess, Meets, Takes, Path, Path1, Path2, Path3, Path4
    <3> QED BY <2>1, <3>1, UsersOrdered, UserAccessOrdered
  <2>2. CASE x \notin Places(UsersRoutes)
    <3>1. x.path[1] \in {"auth", "roles", "permissions"}
      BY <1>2, <1>4, <1>6, <2>2, LedBy DEF Led
    <3>2. y.path[1] = "users" BY LedBy DEF Led
    <3> QED BY <3>1, <3>2 DEF Meets, Takes
  <2> QED BY <2>1, <2>2
<1>8. IdentityRoutes = S3 \o UserAccessRoutes BY DEF IdentityRoutes, S1, S2, S3
<1>9. Ordered(S3 \o UserAccessRoutes)
    /\ Places(S3 \o UserAccessRoutes) = Places(S3) \cup Places(UserAccessRoutes)
  BY <1>6, <1>7, UserAccessOrdered, Extended
<1>10. Led(S3 \o UserAccessRoutes, {"users", "auth", "roles", "permissions"})
  BY <1>6, <1>9, LedBy DEF Led
<1> QED BY <1>2, <1>4, <1>6, <1>8, <1>9, <1>10

\* The work orders: the seven groups of their controller, each after all before it.
LEMMA WorkOrdersOrdered ==
  /\ Ordered(WorkOrdersRoutes) /\ Led(WorkOrdersRoutes, {"work-orders"})
  /\ Places(WorkOrdersRoutes) =
       Places(OpeningRoutes) \cup Places(OwnOrderRoutes) \cup Places(OrderReadRoutes)
         \cup Places(PlanningRoutes) \cup Places(ExecutionRoutes) \cup Places(DecisionRoutes)
         \cup Places(ClosingRoutes)
<1> DEFINE S1 == OpeningRoutes
           S2 == S1 \o OwnOrderRoutes
           S3 == S2 \o OrderReadRoutes
           S4 == S3 \o PlanningRoutes
           S5 == S4 \o ExecutionRoutes
           S6 == S5 \o DecisionRoutes
           S7 == S6 \o ClosingRoutes
<1>1. Ordered(S1) /\ Places(S1) = Places(OpeningRoutes) BY OpeningOrdered
<1> HIDE DEF S1
<1>2. Cross(S1, OwnOrderRoutes)
  <2>1. ASSUME NEW x, NEW y, NEW i, NEW j, IsOwnOrder(j, y),
               IsOpening(i, x)
        PROVE  ~Meets(x, y)
    BY <2>1
       DEF IsOpening, IsOwnOrder, Meets, Takes, Path, Path1, Path2, Path3
  <2> QED
    BY <1>1, <2>1, OpeningOrdered, OwnOrderOrdered DEF Cross
<1>3. /\ Ordered(S2)
      /\ Places(S2) = Places(OpeningRoutes) \cup Places(OwnOrderRoutes)
  BY <1>1, <1>2, OwnOrderOrdered, Extended
<1> HIDE DEF S2
<1>4. Cross(S2, OrderReadRoutes)
  <2>1. ASSUME NEW x, NEW y, NEW i, NEW j, IsOrderRead(j, y),
               IsOpening(i, x) \/ IsOwnOrder(i, x)
        PROVE  ~Meets(x, y)
    BY <2>1
       DEF IsOpening, IsOwnOrder, IsOrderRead, Meets, Takes, Path, Path1, Path2, Path3
  <2> QED
    BY <1>3, <2>1, OpeningOrdered, OwnOrderOrdered, OrderReadOrdered DEF Cross
<1>5. /\ Ordered(S3)
      /\ Places(S3) = Places(OpeningRoutes) \cup Places(OwnOrderRoutes)
            \cup Places(OrderReadRoutes)
  BY <1>3, <1>4, OrderReadOrdered, Extended
<1> HIDE DEF S3
<1>6. Cross(S3, PlanningRoutes)
  <2>1. ASSUME NEW x, NEW y, NEW i, NEW j, IsPlanning(j, y),
               IsOpening(i, x) \/ IsOwnOrder(i, x) \/ IsOrderRead(i, x)
        PROVE  ~Meets(x, y)
    BY <2>1
       DEF IsOpening, IsOwnOrder, IsOrderRead, IsPlanning, Meets, Takes, Path, Path1, Path2,
           Path3, Path4
  <2> QED
    BY <1>5, <2>1, OpeningOrdered, OwnOrderOrdered, OrderReadOrdered, PlanningOrdered DEF Cross
<1>7. /\ Ordered(S4)
      /\ Places(S4) = Places(OpeningRoutes) \cup Places(OwnOrderRoutes)
            \cup Places(OrderReadRoutes)
           \cup Places(PlanningRoutes)
  BY <1>5, <1>6, PlanningOrdered, Extended
<1> HIDE DEF S4
<1>8. Cross(S4, ExecutionRoutes)
  <2>1. ASSUME NEW x, NEW y, NEW i, NEW j, IsExecution(j, y),
               IsOpening(i, x) \/ IsOwnOrder(i, x) \/ IsOrderRead(i, x) \/ IsPlanning(i, x)
        PROVE  ~Meets(x, y)
    BY <2>1
       DEF IsOpening, IsOwnOrder, IsOrderRead, IsPlanning, IsExecution, Meets, Takes, Path,
           Path1, Path2, Path3, Path4
  <2> QED
    BY <1>7, <2>1, OpeningOrdered, OwnOrderOrdered, OrderReadOrdered, PlanningOrdered,
        ExecutionOrdered DEF Cross
<1>9. /\ Ordered(S5)
      /\ Places(S5) = Places(OpeningRoutes) \cup Places(OwnOrderRoutes)
            \cup Places(OrderReadRoutes)
           \cup Places(PlanningRoutes) \cup Places(ExecutionRoutes)
  BY <1>7, <1>8, ExecutionOrdered, Extended
<1> HIDE DEF S5
<1>10. Cross(S5, DecisionRoutes)
  <2>1. ASSUME NEW x, NEW y, NEW i, NEW j, IsDecision(j, y),
               IsOpening(i, x) \/ IsOwnOrder(i, x) \/ IsOrderRead(i, x) \/ IsPlanning(i, x)
                   \/ IsExecution(i, x)
        PROVE  ~Meets(x, y)
    BY <2>1
       DEF IsOpening, IsOwnOrder, IsOrderRead, IsPlanning, IsExecution, IsDecision, Meets,
           Takes, Path, Path1, Path2, Path3, Path4, Path5
  <2> QED
    BY <1>9, <2>1, OpeningOrdered, OwnOrderOrdered, OrderReadOrdered, PlanningOrdered,
        ExecutionOrdered, DecisionOrdered DEF Cross
<1>11. /\ Ordered(S6)
      /\ Places(S6) = Places(OpeningRoutes) \cup Places(OwnOrderRoutes)
            \cup Places(OrderReadRoutes)
           \cup Places(PlanningRoutes) \cup Places(ExecutionRoutes) \cup Places(DecisionRoutes)
  BY <1>9, <1>10, DecisionOrdered, Extended
<1> HIDE DEF S6
<1>12. Cross(S6, ClosingRoutes)
  <2>1. ASSUME NEW x, NEW y, NEW i, NEW j, IsClosing(j, y),
               IsOpening(i, x) \/ IsOwnOrder(i, x) \/ IsOrderRead(i, x) \/ IsPlanning(i, x)
                   \/ IsExecution(i, x) \/ IsDecision(i, x)
        PROVE  ~Meets(x, y)
    BY <2>1
       DEF IsOpening, IsOwnOrder, IsOrderRead, IsPlanning, IsExecution, IsDecision, IsClosing,
           Meets, Takes, Path, Path1, Path2, Path3, Path4, Path5
  <2> QED
    BY <1>11, <2>1, OpeningOrdered, OwnOrderOrdered, OrderReadOrdered, PlanningOrdered,
        ExecutionOrdered, DecisionOrdered, ClosingOrdered DEF Cross
<1>13. /\ Ordered(S7)
      /\ Places(S7) = Places(OpeningRoutes) \cup Places(OwnOrderRoutes)
            \cup Places(OrderReadRoutes)
           \cup Places(PlanningRoutes) \cup Places(ExecutionRoutes) \cup Places(DecisionRoutes)
           \cup Places(ClosingRoutes)
  BY <1>11, <1>12, ClosingOrdered, Extended
<1> HIDE DEF S7
<1>14. S7 = WorkOrdersRoutes BY DEF WorkOrdersRoutes, S1, S2, S3, S4, S5, S6, S7
<1>15. ASSUME NEW x, NEW i,
              \/ IsOpening(i, x) \/ IsOwnOrder(i, x) \/ IsOrderRead(i, x) \/ IsPlanning(i, x)
              \/ IsExecution(i, x) \/ IsDecision(i, x) \/ IsClosing(i, x)
      PROVE  x.path[1] = "work-orders"
  BY <1>15 DEF IsOpening, IsOwnOrder, IsOrderRead, IsPlanning, IsExecution, IsDecision, IsClosing,
                 Path1, Path2, Path3, Path4, Path5
<1>16. Led(S7, {"work-orders"})
  BY <1>13, <1>15, OpeningOrdered, OwnOrderOrdered, OrderReadOrdered, PlanningOrdered,
      ExecutionOrdered, DecisionOrdered, ClosingOrdered DEF Led
<1> QED BY <1>13, <1>14, <1>16

\* The whole table, module by module in the order AppModule imports them.
LEMMA AllOrdered ==
  Ordered(AllRoutes) /\ Places(WorkOrdersRoutes) \subseteq Places(AllRoutes)
    /\ Places(UsersRoutes) \cup Places(AuthRoutes) \subseteq Places(AllRoutes)
<1> DEFINE S1 == HealthRoutes
           S2 == S1 \o IdentityRoutes
           S3 == S2 \o CustomersRoutes
           S4 == S3 \o VehiclesRoutes
           S5 == S4 \o ServicesRoutes
           S6 == S5 \o InventoryRoutes
           S7 == S6 \o StockRoutes
           S8 == S7 \o WorkOrdersRoutes
           W1 == {"health"}
           W2 == W1 \cup {"users", "auth", "roles", "permissions"}
           W3 == W2 \cup {"customers"}
           W4 == W3 \cup {"vehicles"}
           W5 == W4 \cup {"services"}
           W6 == W5 \cup {"inventory-items"}
<1>1. Ordered(S1) /\ Led(S1, W1) BY HealthOrdered, LedBy
<1> HIDE DEF S1
<1>2. Cross(S1, IdentityRoutes) BY <1>1, IdentityOrdered, LedApart
<1>3. Ordered(S2) /\ Led(S2, W2) /\ Places(IdentityRoutes) \subseteq Places(S2)
  BY <1>1, <1>2, IdentityOrdered, Extended, LedTogether
<1> HIDE DEF S2
<1>4. Cross(S2, CustomersRoutes) BY <1>3, LedBy, LedApart
<1>5. Ordered(S3) /\ Led(S3, W3) /\ Places(IdentityRoutes) \subseteq Places(S3)
  BY <1>3, <1>4, CustomersOrdered, LedBy, Extended, LedTogether
<1> HIDE DEF S3
<1>6. Cross(S3, VehiclesRoutes) BY <1>5, LedBy, LedApart
<1>7. Ordered(S4) /\ Led(S4, W4) /\ Places(IdentityRoutes) \subseteq Places(S4)
  BY <1>5, <1>6, VehiclesOrdered, LedBy, Extended, LedTogether
<1> HIDE DEF S4
<1>8. Cross(S4, ServicesRoutes) BY <1>7, LedBy, LedApart
<1>9. Ordered(S5) /\ Led(S5, W5) /\ Places(IdentityRoutes) \subseteq Places(S5)
  BY <1>7, <1>8, ServicesOrdered, LedBy, Extended, LedTogether
<1> HIDE DEF S5
<1>10. Cross(S5, InventoryRoutes) BY <1>9, LedBy, LedApart
<1>11. Ordered(S6) /\ Led(S6, W6) /\ Places(S6) = Places(S5) \cup Places(InventoryRoutes)
  BY <1>9, <1>10, InventoryOrdered, LedBy, Extended, LedTogether
<1> HIDE DEF S6
<1>12. Cross(S6, StockRoutes)
  <2>1. ASSUME NEW i, NEW j, NEW x, NEW y, IsInventory(i, x), IsStock(j, y) PROVE ~Meets(x, y)
    BY <2>1 DEF IsInventory, IsStock, Meets, Path, Path1, Path2, Path3
  <2>2. Cross(S5, StockRoutes) BY <1>9, LedBy, LedApart
  <2> QED BY <1>11, <2>1, <2>2, InventoryOrdered, StockOrdered DEF Cross
<1>13. Ordered(S7) /\ Led(S7, W6) /\ Places(IdentityRoutes) \subseteq Places(S7)
  BY <1>9, <1>11, <1>12, StockOrdered, LedBy, Extended DEF Led
<1> HIDE DEF S7
<1>14. Cross(S7, WorkOrdersRoutes) BY <1>13, WorkOrdersOrdered, LedApart
<1>15. /\ Ordered(S8) /\ Places(WorkOrdersRoutes) \subseteq Places(S8)
       /\ Places(IdentityRoutes) \subseteq Places(S8)
  BY <1>13, <1>14, WorkOrdersOrdered, Extended
<1>16. AllRoutes = S8 BY DEF AllRoutes, S1, S2, S3, S4, S5, S6, S7, S8
<1> QED BY <1>15, <1>16, IdentityOrdered

-------------------------------------------------------------------------------
(* The router. *)

\* The places of a sequence.
LEMMA SeqDomain ==
  ASSUME NEW s, IsSeq(s)
  PROVE  DOMAIN s = 1 .. Len(s) /\ Len(s) \in Nat
BY DEF IsSeq

\* The path a client sends has the segments of the route, a value for each parameter.
LEMMA SentPath ==
  ASSUME NEW s, IsSeq(s)
  PROVE  /\ DOMAIN Sent(s) = DOMAIN s /\ Len(Sent(s)) = Len(s)
         /\ \A k \in DOMAIN s : Sent(s)[k] = IF s[k] = ":" THEN "an id" ELSE s[k]
<1>1. DOMAIN s = 1 .. Len(s) /\ Len(s) \in Nat BY SeqDomain
<1>2. Sent(s) = [i \in 1 .. Len(s) |-> Sent(s)[i]] BY <1>1 DEF Sent
<1>3. \A k \in DOMAIN s : Sent(s)[k] = IF s[k] = ":" THEN "an id" ELSE s[k] BY DEF Sent
<1> HIDE DEF Sent
<1>4. Sent(s) \in Seq({Sent(s)[i] : i \in 1 .. Len(s)}) BY <1>1, <1>2
<1>5. Len(Sent(s)) = Len(s) BY <1>1, <1>2, <1>4
<1>6. DOMAIN Sent(s) = DOMAIN s BY <1>1, <1>2
<1> QED BY <1>3, <1>5, <1>6

\* The router gives a request to no route but one that meets its own.
LEMMA FitMeets ==
  ASSUME NEW x, NEW y, Plain(x), Plain(y),
         Fits(x, y.verb, Sent(y.path))
  PROVE  Meets(x, y)
<1>1. IsSeq(y.path) BY DEF Plain
<1>2. x.verb = y.verb /\ Len(x.path) = Len(y.path)
  BY <1>1, SentPath DEF Fits
<1>3. DOMAIN x.path = DOMAIN y.path BY <1>1, <1>2, SeqDomain DEF Plain
<1>4. ASSUME NEW k \in DOMAIN y.path PROVE Takes(x, y, k)
  <2>1. x.path[k] \in {":", Sent(y.path)[k]} BY <1>1, SentPath DEF Fits
  <2>2. x.path[k] # "an id" BY <1>3 DEF Plain
  <2>3. Sent(y.path)[k] \in {"an id", y.path[k]} BY <1>1, SentPath
  <2> QED BY <2>1, <2>2, <2>3 DEF Takes
<1>5. PICK n \in Nat : n = Len(y.path) /\ DOMAIN y.path = 1 .. n BY <1>1, SeqDomain
<1>6. /\ n \in {2, 3, 4, 5} => 2 \in 1 .. n
      /\ n \in {3, 4, 5} => 3 \in 1 .. n
      /\ n \in {4, 5} => 4 \in 1 .. n
      /\ n = 5 => 5 \in 1 .. n
  OBVIOUS
<1>7. \A k \in 1 .. n : Takes(x, y, k) BY <1>4, <1>5
<1>8. 1 \in 1 .. n BY <1>5 DEF Plain
<1> QED BY <1>2, <1>5, <1>6, <1>7, <1>8 DEF Meets

\* What the router relies on, of the whole table.
LEMMA RoutesAreOrdered ==
  /\ IsSeq(AllRoutes) /\ RouteIds = 1 .. Len(AllRoutes) /\ Len(AllRoutes) \in Nat
  /\ \A i \in RouteIds : AllRoutes[i] \in Places(AllRoutes)
  /\ \A i \in RouteIds : Plain(AllRoutes[i])
  /\ \A i, j \in RouteIds : j < i => ~Meets(AllRoutes[j], AllRoutes[i])
BY AllOrdered, SeqDomain DEF Ordered, Clear, Places, RouteIds

\* Every request comes to the route its path was written for, though parameters and words stand
\* at the same place of a path (users/me and users/:userId, work-orders/me and work-
\* orders/:number): the table tries the words first.  Express resolves by the order in which
\* AppModule, the modules and the controllers declare their routes.
THEOREM RequestsFindTheirRoute ==
  ASSUME NEW i \in RouteIds
  PROVE  Resolved(AllRoutes[i].verb, Sent(AllRoutes[i].path)) = i
<1> DEFINE y == AllRoutes[i]
           fitting == Fitting(y.verb, Sent(y.path))
<1>1. IsSeq(y.path) BY RoutesAreOrdered DEF Plain
<1>2. i \in fitting
  <2>1. \A k \in DOMAIN y.path : y.path[k] \in {":", Sent(y.path)[k]} BY <1>1, SentPath
  <2> QED BY <1>1, <2>1, SentPath DEF Fitting, Fits
<1>3. ASSUME NEW j \in fitting PROVE i <= j
  <2>1. j \in RouteIds /\ Meets(AllRoutes[j], y) BY RoutesAreOrdered, FitMeets DEF Fitting
  <2> QED BY <2>1, RoutesAreOrdered
<1>4. \A j \in fitting : (\A k \in fitting : j <= k) => j = i
  <2> SUFFICES ASSUME NEW j \in fitting, \A k \in fitting : j <= k PROVE j = i OBVIOUS
  <2>1. j <= i /\ i <= j BY <1>2, <1>3
  <2>2. i \in Nat /\ j \in Nat BY RoutesAreOrdered DEF Fitting
  <2> QED BY <2>1, <2>2
<1> QED BY <1>2, <1>3, <1>4 DEF Resolved

\* A verb and a path name one route only.
LEMMA NamedIs ==
  ASSUME NEW r \in Places(AllRoutes)
  PROVE  /\ Named(r.verb, r.path) \in RouteIds
         /\ AllRoutes[Named(r.verb, r.path)] = r
<1>1. PICK i \in RouteIds : AllRoutes[i] = r BY DEF Places, RouteIds
<1> DEFINE c == Named(r.verb, r.path)
<1>2. c \in RouteIds /\ AllRoutes[c].verb = r.verb /\ AllRoutes[c].path = r.path
  BY <1>1 DEF Named
<1> HIDE DEF c
<1>3. Meets(AllRoutes[c], AllRoutes[i]) /\ Meets(AllRoutes[i], AllRoutes[c])
  BY <1>1, <1>2 DEF Meets, Takes
<1>4. c \in Nat /\ i \in Nat BY <1>2, RoutesAreOrdered
<1>5. ~(c < i) /\ ~(i < c) BY <1>2, <1>3, RoutesAreOrdered
<1>6. c = i BY <1>4, <1>5
<1> QED BY <1>1, <1>6 DEF c

-------------------------------------------------------------------------------
(* The routes a request for an order is meant for. *)

\* Two words before nothing,
LEMMA Appended0 ==
  ASSUME NEW a, NEW b
  PROVE  <<a, b>> \o << >> = <<a, b>>
OBVIOUS

\* before one segment,
LEMMA Appended1 ==
  ASSUME NEW a, NEW b, NEW c
  PROVE  <<a, b>> \o <<c>> = <<a, b, c>>
<1> DEFINE S == {a, b, c}
<1>1. ASSUME NEW t \in Seq(S), NEW u \in Seq(S), Len(u) = Len(t) + 2, u[1] = a, u[2] = b,
             \A k \in 1 .. Len(t) : u[k + 2] = t[k]
      PROVE  <<a, b>> \o t = u
  <2> DEFINE w == <<a, b>> \o t
  <2>1. <<a, b>> \in Seq(S) /\ Len(<<a, b>>) = 2 /\ <<a, b>>[1] = a /\ <<a, b>>[2] = b OBVIOUS
  <2>2. /\ w \in Seq(S) /\ Len(w) = 2 + Len(t)
        /\ \A i \in 1 .. 2 + Len(t) : w[i] = IF i <= 2 THEN <<a, b>>[i] ELSE t[i - 2]
    BY <2>1, ConcatProperties
  <2> HIDE DEF w
  <2>3. ASSUME NEW i \in 1 .. Len(u) PROVE w[i] = u[i]
    <3>1. CASE i \in {1, 2} BY <1>1, <2>1, <2>2, <3>1
    <3>2. CASE i \notin {1, 2}
      <4>1. i - 2 \in 1 .. Len(t) /\ ~(i <= 2) /\ i \in 1 .. 2 + Len(t) BY <1>1, <3>2
      <4>2. u[i - 2 + 2] = t[i - 2] BY <1>1, <4>1
      <4> QED BY <2>2, <4>1, <4>2
    <3> QED BY <3>1, <3>2
  <2>4. w = u BY <1>1, <2>2, <2>3, SeqEqual
  <2> QED BY <2>4 DEF w
<1>2. /\ <<c>> \in Seq(S) /\ <<a, b, c>> \in Seq(S)
      /\ Len(<<a, b, c>>) = Len(<<c>>) + 2
  OBVIOUS
<1>3. \A k \in 1 .. Len(<<c>>) : <<a, b, c>>[k + 2] = <<c>>[k] OBVIOUS
<1>4. <<a, b, c>>[1] = a /\ <<a, b, c>>[2] = b OBVIOUS
<1> QED BY <1>1, <1>2, <1>3, <1>4

\* before two,
LEMMA Appended2 ==
  ASSUME NEW a, NEW b, NEW c, NEW d
  PROVE  <<a, b>> \o <<c, d>> = <<a, b, c, d>>
<1> DEFINE S == {a, b, c, d}
<1>1. ASSUME NEW t \in Seq(S), NEW u \in Seq(S), Len(u) = Len(t) + 2, u[1] = a, u[2] = b,
             \A k \in 1 .. Len(t) : u[k + 2] = t[k]
      PROVE  <<a, b>> \o t = u
  <2> DEFINE w == <<a, b>> \o t
  <2>1. <<a, b>> \in Seq(S) /\ Len(<<a, b>>) = 2 /\ <<a, b>>[1] = a /\ <<a, b>>[2] = b OBVIOUS
  <2>2. /\ w \in Seq(S) /\ Len(w) = 2 + Len(t)
        /\ \A i \in 1 .. 2 + Len(t) : w[i] = IF i <= 2 THEN <<a, b>>[i] ELSE t[i - 2]
    BY <2>1, ConcatProperties
  <2> HIDE DEF w
  <2>3. ASSUME NEW i \in 1 .. Len(u) PROVE w[i] = u[i]
    <3>1. CASE i \in {1, 2} BY <1>1, <2>1, <2>2, <3>1
    <3>2. CASE i \notin {1, 2}
      <4>1. i - 2 \in 1 .. Len(t) /\ ~(i <= 2) /\ i \in 1 .. 2 + Len(t) BY <1>1, <3>2
      <4>2. u[i - 2 + 2] = t[i - 2] BY <1>1, <4>1
      <4> QED BY <2>2, <4>1, <4>2
    <3> QED BY <3>1, <3>2
  <2>4. w = u BY <1>1, <2>2, <2>3, SeqEqual
  <2> QED BY <2>4 DEF w
<1>2. /\ <<c, d>> \in Seq(S) /\ <<a, b, c, d>> \in Seq(S)
      /\ Len(<<a, b, c, d>>) = Len(<<c, d>>) + 2
  OBVIOUS
<1>3. \A k \in 1 .. Len(<<c, d>>) : <<a, b, c, d>>[k + 2] = <<c, d>>[k] OBVIOUS
<1>4. <<a, b, c, d>>[1] = a /\ <<a, b, c, d>>[2] = b OBVIOUS
<1> QED BY <1>1, <1>2, <1>3, <1>4

\* and before three.
LEMMA Appended3 ==
  ASSUME NEW a, NEW b, NEW c, NEW d, NEW e
  PROVE  <<a, b>> \o <<c, d, e>> = <<a, b, c, d, e>>
<1> DEFINE S == {a, b, c, d, e}
<1>1. ASSUME NEW t \in Seq(S), NEW u \in Seq(S), Len(u) = Len(t) + 2, u[1] = a, u[2] = b,
             \A k \in 1 .. Len(t) : u[k + 2] = t[k]
      PROVE  <<a, b>> \o t = u
  <2> DEFINE w == <<a, b>> \o t
  <2>1. <<a, b>> \in Seq(S) /\ Len(<<a, b>>) = 2 /\ <<a, b>>[1] = a /\ <<a, b>>[2] = b OBVIOUS
  <2>2. /\ w \in Seq(S) /\ Len(w) = 2 + Len(t)
        /\ \A i \in 1 .. 2 + Len(t) : w[i] = IF i <= 2 THEN <<a, b>>[i] ELSE t[i - 2]
    BY <2>1, ConcatProperties
  <2> HIDE DEF w
  <2>3. ASSUME NEW i \in 1 .. Len(u) PROVE w[i] = u[i]
    <3>1. CASE i \in {1, 2} BY <1>1, <2>1, <2>2, <3>1
    <3>2. CASE i \notin {1, 2}
      <4>1. i - 2 \in 1 .. Len(t) /\ ~(i <= 2) /\ i \in 1 .. 2 + Len(t) BY <1>1, <3>2
      <4>2. u[i - 2 + 2] = t[i - 2] BY <1>1, <4>1
      <4> QED BY <2>2, <4>1, <4>2
    <3> QED BY <3>1, <3>2
  <2>4. w = u BY <1>1, <2>2, <2>3, SeqEqual
  <2> QED BY <2>4 DEF w
<1>2. /\ <<c, d, e>> \in Seq(S) /\ <<a, b, c, d, e>> \in Seq(S)
      /\ Len(<<a, b, c, d, e>>) = Len(<<c, d, e>>) + 2
  OBVIOUS
<1>3. \A k \in 1 .. Len(<<c, d, e>>) : <<a, b, c, d, e>>[k + 2] = <<c, d, e>>[k] OBVIOUS
<1>4. <<a, b, c, d, e>>[1] = a /\ <<a, b, c, d, e>>[2] = b OBVIOUS
<1> QED BY <1>1, <1>2, <1>3, <1>4

\* The route with this number.
Stands(i, r) == i \in RouteIds /\ AllRoutes[i] = r

\* A route of the work orders controller is found by its verb and its path.
LEMMA OrdersStand ==
  ASSUME NEW r,
         \/ r \in Places(OwnOrderRoutes) \/ r \in Places(OrderReadRoutes)
         \/ r \in Places(PlanningRoutes) \/ r \in Places(ExecutionRoutes)
         \/ r \in Places(DecisionRoutes) \/ r \in Places(ClosingRoutes)
  PROVE  Stands(Named(r.verb, r.path), r)
BY WorkOrdersOrdered, AllOrdered, NamedIs DEF Stands

\* On names a route of three segments,
LEMMA OnIs1 ==
  ASSUME NEW r, NEW v, NEW c, r.verb = v, r.path = <<"work-orders", ":", c>>,
         Stands(Named(r.verb, r.path), r)
  PROVE  Stands(On(v, <<c>>), r)
BY Appended1 DEF On

\* of four,
LEMMA OnIs2 ==
  ASSUME NEW r, NEW v, NEW c, NEW d, r.verb = v, r.path = <<"work-orders", ":", c, d>>,
         Stands(Named(r.verb, r.path), r)
  PROVE  Stands(On(v, <<c, d>>), r)
<1>1. <<"work-orders", ":">> \o <<c, d>> = r.path BY Appended2
<1> QED BY <1>1 DEF On

\* and of five.
LEMMA OnIs3 ==
  ASSUME NEW r, NEW v, NEW c, NEW d, NEW e, r.verb = v, r.path = <<"work-orders", ":", c, d, e>>,
         Stands(Named(r.verb, r.path), r)
  PROVE  Stands(On(v, <<c, d, e>>), r)
<1>1. <<"work-orders", ":">> \o <<c, d, e>> = r.path BY Appended3
<1> QED BY <1>1 DEF On

\* Each group of the controller, by its place in the group.
LEMMA PlanningStand ==
  ASSUME NEW k \in DOMAIN PlanningRoutes
  PROVE  Stands(Named(PlanningRoutes[k].verb, PlanningRoutes[k].path), PlanningRoutes[k])
BY OrdersStand DEF Places

\* The routes of the execution,
LEMMA ExecutionStand ==
  ASSUME NEW k \in DOMAIN ExecutionRoutes
  PROVE  Stands(Named(ExecutionRoutes[k].verb, ExecutionRoutes[k].path), ExecutionRoutes[k])
BY OrdersStand DEF Places

\* of the decisions,
LEMMA DecisionStand ==
  ASSUME NEW k \in DOMAIN DecisionRoutes
  PROVE  Stands(Named(DecisionRoutes[k].verb, DecisionRoutes[k].path), DecisionRoutes[k])
BY OrdersStand DEF Places

\* and of the closing.
LEMMA ClosingStand ==
  ASSUME NEW k \in DOMAIN ClosingRoutes
  PROVE  Stands(Named(ClosingRoutes[k].verb, ClosingRoutes[k].path), ClosingRoutes[k])
BY OrdersStand DEF Places

\* The commands of the use cases are the routes of the controller that they are named for.
LEMMA CommandsStand ==
  /\ Stands(AssignMechanic,
            Requiring("PUT", <<"work-orders", ":", "mechanic">>, "work-orders:manage"))
  /\ Stands(StartDiagnosis,
            Requiring("POST", <<"work-orders", ":", "diagnosis">>, "work-orders:execute"))
  /\ Stands(CompleteDiagnosis,
            Requiring("POST", <<"work-orders", ":", "diagnosis", "completion">>,
                "work-orders:execute"))
  /\ Stands(Supplement,
            Requiring("POST", <<"work-orders", ":", "budget", "supplementary">>,
                "work-orders:execute"))
  /\ Stands(Withdraw,
            Requiring("POST", <<"work-orders", ":", "withdrawals">>, "work-orders:execute"))
  /\ Stands(Return, Requiring("POST", <<"work-orders", ":", "returns">>, "work-orders:execute"))
  /\ Stands(Complete, Requiring("POST", <<"work-orders", ":", "completion">>, "work-orders:read"))
  /\ Stands(Deliver, Requiring("POST", <<"work-orders", ":", "delivery">>, "work-orders:manage"))
  /\ Stands(Cancel,
            Requiring("POST", <<"work-orders", ":", "cancellation">>, "work-orders:cancel"))
  /\ Stands(Discount,
            Requiring("POST", <<"work-orders", ":", "discount">>, "work-orders:discount"))
  /\ Stands(On("POST", <<"budget", "approval">>),
            SignedIn("POST", <<"work-orders", ":", "budget", "approval">>))
  /\ Stands(On("POST", <<"budget", "rejection">>),
            SignedIn("POST", <<"work-orders", ":", "budget", "rejection">>))
  /\ Stands(On("POST", <<"budgets", ":", "approval">>),
            SignedIn("POST", <<"work-orders", ":", "budgets", ":", "approval">>))
  /\ Stands(On("POST", <<"budgets", ":", "rejection">>),
            SignedIn("POST", <<"work-orders", ":", "budgets", ":", "rejection">>))
  /\ Stands(On("POST", <<"services">>),
            Requiring("POST", <<"work-orders", ":", "services">>, "work-orders:manage"))
  /\ Stands(On("POST", <<"parts">>),
            Requiring("POST", <<"work-orders", ":", "parts">>, "work-orders:manage"))
  /\ Stands(On("DELETE", <<"items", ":">>),
            Requiring("DELETE", <<"work-orders", ":", "items", ":">>, "work-orders:manage"))
<1>1. Stands(AssignMechanic,
             Requiring("PUT", <<"work-orders", ":", "mechanic">>, "work-orders:manage"))
  <2>1. PlanningRoutes[4] = Requiring("PUT", <<"work-orders", ":", "mechanic">>,
      "work-orders:manage") /\ 4 \in DOMAIN PlanningRoutes BY DEF PlanningRoutes
  <2> QED BY <2>1, PlanningStand, Routed, OnIs1 DEF AssignMechanic
<1>2. Stands(StartDiagnosis,
             Requiring("POST", <<"work-orders", ":", "diagnosis">>, "work-orders:execute"))
  <2>1. ExecutionRoutes[1] = Requiring("POST", <<"work-orders", ":", "diagnosis">>,
      "work-orders:execute") /\ 1 \in DOMAIN ExecutionRoutes BY DEF ExecutionRoutes
  <2> QED BY <2>1, ExecutionStand, Routed, OnIs1 DEF StartDiagnosis
<1>3. Stands(CompleteDiagnosis,
             Requiring("POST", <<"work-orders", ":", "diagnosis", "completion">>,
                 "work-orders:execute"))
  <2>1. ExecutionRoutes[2] = Requiring("POST", <<"work-orders", ":", "diagnosis",
      "completion">>, "work-orders:execute") /\ 2 \in DOMAIN ExecutionRoutes
    BY DEF ExecutionRoutes
  <2> QED BY <2>1, ExecutionStand, Routed, OnIs2 DEF CompleteDiagnosis
<1>4. Stands(Supplement,
             Requiring("POST", <<"work-orders", ":", "budget", "supplementary">>,
                 "work-orders:execute"))
  <2>1. ExecutionRoutes[3] = Requiring("POST", <<"work-orders", ":", "budget",
      "supplementary">>, "work-orders:execute") /\ 3 \in DOMAIN ExecutionRoutes
    BY DEF ExecutionRoutes
  <2> QED BY <2>1, ExecutionStand, Routed, OnIs2 DEF Supplement
<1>5. Stands(Withdraw,
             Requiring("POST", <<"work-orders", ":", "withdrawals">>, "work-orders:execute"))
  <2>1. ExecutionRoutes[4] = Requiring("POST", <<"work-orders", ":", "withdrawals">>,
      "work-orders:execute") /\ 4 \in DOMAIN ExecutionRoutes BY DEF ExecutionRoutes
  <2> QED BY <2>1, ExecutionStand, Routed, OnIs1 DEF Withdraw
<1>6. Stands(Return, Requiring("POST", <<"work-orders", ":", "returns">>, "work-orders:execute"))
  <2>1. ExecutionRoutes[5] = Requiring("POST", <<"work-orders", ":", "returns">>,
      "work-orders:execute") /\ 5 \in DOMAIN ExecutionRoutes BY DEF ExecutionRoutes
  <2> QED BY <2>1, ExecutionStand, Routed, OnIs1 DEF Return
<1>7. Stands(Complete,
             Requiring("POST", <<"work-orders", ":", "completion">>, "work-orders:read"))
  <2>1. ClosingRoutes[1] = Requiring("POST", <<"work-orders", ":", "completion">>,
      "work-orders:read") /\ 1 \in DOMAIN ClosingRoutes BY DEF ClosingRoutes
  <2> QED BY <2>1, ClosingStand, Routed, OnIs1 DEF Complete
<1>8. Stands(Deliver, Requiring("POST", <<"work-orders", ":", "delivery">>, "work-orders:manage"))
  <2>1. ClosingRoutes[2] = Requiring("POST", <<"work-orders", ":", "delivery">>,
      "work-orders:manage") /\ 2 \in DOMAIN ClosingRoutes BY DEF ClosingRoutes
  <2> QED BY <2>1, ClosingStand, Routed, OnIs1 DEF Deliver
<1>9. Stands(Cancel,
             Requiring("POST", <<"work-orders", ":", "cancellation">>, "work-orders:cancel"))
  <2>1. ClosingRoutes[3] = Requiring("POST", <<"work-orders", ":", "cancellation">>,
      "work-orders:cancel") /\ 3 \in DOMAIN ClosingRoutes BY DEF ClosingRoutes
  <2> QED BY <2>1, ClosingStand, Routed, OnIs1 DEF Cancel
<1>10. Stands(Discount,
              Requiring("POST", <<"work-orders", ":", "discount">>, "work-orders:discount"))
  <2>1. ClosingRoutes[4] = Requiring("POST", <<"work-orders", ":", "discount">>,
      "work-orders:discount") /\ 4 \in DOMAIN ClosingRoutes BY DEF ClosingRoutes
  <2> QED BY <2>1, ClosingStand, Routed, OnIs1 DEF Discount
<1>11. Stands(On("POST", <<"budget", "approval">>),
              SignedIn("POST", <<"work-orders", ":", "budget", "approval">>))
  <2>1. DecisionRoutes[1] = SignedIn("POST", <<"work-orders", ":", "budget", "approval">>)
      /\ 1 \in DOMAIN DecisionRoutes BY DEF DecisionRoutes
  <2> QED BY <2>1, DecisionStand, Routed, OnIs2
<1>12. Stands(On("POST", <<"budget", "rejection">>),
              SignedIn("POST", <<"work-orders", ":", "budget", "rejection">>))
  <2>1. DecisionRoutes[2] = SignedIn("POST", <<"work-orders", ":", "budget", "rejection">>)
      /\ 2 \in DOMAIN DecisionRoutes BY DEF DecisionRoutes
  <2> QED BY <2>1, DecisionStand, Routed, OnIs2
<1>13. Stands(On("POST", <<"budgets", ":", "approval">>),
              SignedIn("POST", <<"work-orders", ":", "budgets", ":", "approval">>))
  <2>1. DecisionRoutes[3] = SignedIn("POST", <<"work-orders", ":", "budgets", ":",
      "approval">>) /\ 3 \in DOMAIN DecisionRoutes BY DEF DecisionRoutes
  <2> QED BY <2>1, DecisionStand, Routed, OnIs3
<1>14. Stands(On("POST", <<"budgets", ":", "rejection">>),
              SignedIn("POST", <<"work-orders", ":", "budgets", ":", "rejection">>))
  <2>1. DecisionRoutes[4] = SignedIn("POST", <<"work-orders", ":", "budgets", ":",
      "rejection">>) /\ 4 \in DOMAIN DecisionRoutes BY DEF DecisionRoutes
  <2> QED BY <2>1, DecisionStand, Routed, OnIs3
<1>15. Stands(On("POST", <<"services">>),
              Requiring("POST", <<"work-orders", ":", "services">>, "work-orders:manage"))
  <2>1. PlanningRoutes[1] = Requiring("POST", <<"work-orders", ":", "services">>,
      "work-orders:manage") /\ 1 \in DOMAIN PlanningRoutes BY DEF PlanningRoutes
  <2> QED BY <2>1, PlanningStand, Routed, OnIs1
<1>16. Stands(On("POST", <<"parts">>),
              Requiring("POST", <<"work-orders", ":", "parts">>, "work-orders:manage"))
  <2>1. PlanningRoutes[2] = Requiring("POST", <<"work-orders", ":", "parts">>,
      "work-orders:manage") /\ 2 \in DOMAIN PlanningRoutes BY DEF PlanningRoutes
  <2> QED BY <2>1, PlanningStand, Routed, OnIs1
<1>17. Stands(On("DELETE", <<"items", ":">>),
              Requiring("DELETE", <<"work-orders", ":", "items", ":">>, "work-orders:manage"))
  <2>1. PlanningRoutes[3] = Requiring("DELETE", <<"work-orders", ":", "items", ":">>,
      "work-orders:manage") /\ 3 \in DOMAIN PlanningRoutes BY DEF PlanningRoutes
  <2> QED BY <2>1, PlanningStand, Routed, OnIs2
<1> QED
  BY <1>1, <1>2, <1>3, <1>4, <1>5, <1>6, <1>7, <1>8, <1>9, <1>10, <1>11, <1>12, <1>13, <1>14,
      <1>15, <1>16, <1>17

\* The reads are.
LEMMA ReadsStand ==
  /\ Stands(On("GET", << >>), Requiring("GET", <<"work-orders", ":">>, "work-orders:read"))
  /\ Stands(On("GET", <<"trail">>),
            Requiring("GET", <<"work-orders", ":", "trail">>, "audit:read"))
  /\ Stands(OwnRead, Requiring("GET", <<"work-orders", "me", ":">>, "work-orders:read-own"))
<1>1. /\ OrderReadRoutes[2] = Requiring("GET", <<"work-orders", ":">>, "work-orders:read")
      /\ OrderReadRoutes[3] = Requiring("GET", <<"work-orders", ":", "trail">>, "audit:read")
      /\ 2 \in DOMAIN OrderReadRoutes /\ 3 \in DOMAIN OrderReadRoutes
  BY DEF OrderReadRoutes
<1>2. /\ OwnOrderRoutes[2] = Requiring("GET", <<"work-orders", "me", ":">>,
         "work-orders:read-own")
      /\ 2 \in DOMAIN OwnOrderRoutes
  BY DEF OwnOrderRoutes
<1>3. /\ OrderReadRoutes[2] \in Places(OrderReadRoutes)
         /\ OrderReadRoutes[3] \in Places(OrderReadRoutes)
      /\ OwnOrderRoutes[2] \in Places(OwnOrderRoutes)
  BY <1>1, <1>2 DEF Places
<1>4. Stands(On("GET", << >>), OrderReadRoutes[2])
  <2>1. <<"work-orders", ":">> \o << >> = OrderReadRoutes[2].path BY <1>1, Appended0, Routed
  <2> QED BY <1>1, <1>3, <2>1, Routed, OrdersStand DEF On
<1>5. Stands(On("GET", <<"trail">>), OrderReadRoutes[3])
  BY <1>1, <1>3, Routed, OrdersStand, OnIs1
<1>6. Stands(OwnRead, OwnOrderRoutes[2]) BY <1>2, <1>3, Routed, OrdersStand DEF OwnRead
<1> QED BY <1>1, <1>2, <1>4, <1>5, <1>6

\* And the password and the logout.
LEMMA AccountRoutesStand ==
  /\ Stands(PasswordRoute, AllowsPendingPassword("POST", <<"users", "me", "password">>))
  /\ Stands(LogoutRoute, AllowsPendingPassword("DELETE", <<"auth", "sessions">>))
<1>1. UsersRoutes[5] = AllowsPendingPassword("POST", <<"users", "me", "password">>)
    /\ 5 \in DOMAIN UsersRoutes
  BY DEF UsersRoutes
<1>2. AuthRoutes[3] = AllowsPendingPassword("DELETE", <<"auth", "sessions">>)
    /\ 3 \in DOMAIN AuthRoutes
  BY DEF AuthRoutes
<1>3. UsersRoutes[5] \in Places(AllRoutes) /\ AuthRoutes[3] \in Places(AllRoutes)
  BY <1>1, <1>2, AllOrdered DEF Places
<1> QED BY <1>1, <1>2, <1>3, Routed, NamedIs DEF Stands, PasswordRoute, LogoutRoute

\* What a route asks of the access and of the token.
Grants(r, needs) == r.needs = needs /\ r.token = "own password"

\* What each way of declaring a route asks for.
LEMMA Grant ==
  ASSUME NEW v, NEW p, NEW n
  PROVE  /\ Grants(Requiring(v, p, n), {n}) /\ Grants(SignedIn(v, p), {})
         /\ AllowsPendingPassword(v, p).token = "any password"
BY DEF Requiring, SignedIn, AllowsPendingPassword, Grants

\* The permissions of the routes for an order.  None of them is open to a temporary password.
LEMMA CommandsNeed ==
  /\ \A i \in OrderRoutes : i \in RouteIds /\ AllRoutes[i].token = "own password"
  /\ AllRoutes[AssignMechanic].needs = {"work-orders:manage"}
  /\ AllRoutes[StartDiagnosis].needs = {"work-orders:execute"}
  /\ AllRoutes[CompleteDiagnosis].needs = {"work-orders:execute"}
  /\ AllRoutes[Supplement].needs = {"work-orders:execute"}
  /\ AllRoutes[Withdraw].needs = {"work-orders:execute"}
  /\ AllRoutes[Return].needs = {"work-orders:execute"}
  /\ AllRoutes[Complete].needs = {"work-orders:read"}
  /\ AllRoutes[Deliver].needs = {"work-orders:manage"}
  /\ AllRoutes[Cancel].needs = {"work-orders:cancel"}
  /\ AllRoutes[Discount].needs = {"work-orders:discount"}
  /\ \A i \in Edits : AllRoutes[i].needs = {"work-orders:manage"}
  /\ \A i \in Approvals \cup Rejections : AllRoutes[i].needs = {}
  /\ \A i \in Reads : AllRoutes[i].needs \in {{"work-orders:read"}, {"audit:read"}}
  /\ AllRoutes[OwnRead].needs = {"work-orders:read-own"}
<1>1. /\ Grants(AllRoutes[AssignMechanic], {"work-orders:manage"}) /\ AssignMechanic \in RouteIds
      /\ Grants(AllRoutes[StartDiagnosis], {"work-orders:execute"}) /\ StartDiagnosis \in RouteIds
      /\ Grants(AllRoutes[CompleteDiagnosis], {"work-orders:execute"})
         /\ CompleteDiagnosis \in RouteIds
      /\ Grants(AllRoutes[Supplement], {"work-orders:execute"}) /\ Supplement \in RouteIds
      /\ Grants(AllRoutes[Withdraw], {"work-orders:execute"}) /\ Withdraw \in RouteIds
      /\ Grants(AllRoutes[Return], {"work-orders:execute"}) /\ Return \in RouteIds
  BY CommandsStand, Grant DEF Stands
<1>2. /\ Grants(AllRoutes[Complete], {"work-orders:read"}) /\ Complete \in RouteIds
      /\ Grants(AllRoutes[Deliver], {"work-orders:manage"}) /\ Deliver \in RouteIds
      /\ Grants(AllRoutes[Cancel], {"work-orders:cancel"}) /\ Cancel \in RouteIds
      /\ Grants(AllRoutes[Discount], {"work-orders:discount"}) /\ Discount \in RouteIds
  BY CommandsStand, Grant DEF Stands
<1>3. \A i \in Approvals \cup Rejections : Grants(AllRoutes[i], {}) /\ i \in RouteIds
  <2> DEFINE Open(i) == Grants(AllRoutes[i], {}) /\ i \in RouteIds
  <2>1. /\ Open(On("POST", <<"budget", "approval">>))
        /\ Open(On("POST", <<"budget", "rejection">>))
        /\ Open(On("POST", <<"budgets", ":", "approval">>))
        /\ Open(On("POST", <<"budgets", ":", "rejection">>))
    BY CommandsStand, Grant DEF Stands
  <2> HIDE DEF Open
  <2>2. \A i \in Approvals \cup Rejections : Open(i)
    BY ONLY <2>1, Zenon DEF Approvals, Rejections
  <2> QED BY <2>2 DEF Open
<1>4. \A i \in Edits : Grants(AllRoutes[i], {"work-orders:manage"}) /\ i \in RouteIds
  <2> DEFINE Managed(i) == Grants(AllRoutes[i], {"work-orders:manage"}) /\ i \in RouteIds
  <2>1. /\ Managed(On("POST", <<"services">>)) /\ Managed(On("POST", <<"parts">>))
        /\ Managed(On("DELETE", <<"items", ":">>))
    BY CommandsStand, Grant DEF Stands
  <2> HIDE DEF Managed
  <2>2. \A i \in Edits : Managed(i) BY ONLY <2>1, Zenon DEF Edits
  <2> QED BY <2>2 DEF Managed
<1>5. \A i \in Reads : /\ i \in RouteIds
                       /\ \/ Grants(AllRoutes[i], {"work-orders:read"})
                          \/ Grants(AllRoutes[i], {"audit:read"})
  BY ReadsStand, Grant DEF Stands, Reads
<1>6. Grants(AllRoutes[OwnRead], {"work-orders:read-own"}) /\ OwnRead \in RouteIds
  BY ReadsStand, Grant DEF Stands
<1>7. ASSUME NEW i \in OrderRoutes PROVE i \in RouteIds /\ AllRoutes[i].token = "own password"
  <2>1. CASE i \in {AssignMechanic, StartDiagnosis, CompleteDiagnosis, Supplement, Withdraw,
      Return}
    BY <1>1, <2>1 DEF Grants
  <2>2. CASE i \in {Complete, Deliver, Cancel, Discount} BY <1>2, <2>2 DEF Grants
  <2>3. CASE i \in Approvals \cup Rejections BY <1>3, <2>3 DEF Grants
  <2>4. CASE i \in Edits BY <1>4, <2>4 DEF Grants
  <2>5. CASE i \in Reads \cup {OwnRead} BY <1>5, <1>6, <2>5 DEF Grants
  <2> QED BY <2>1, <2>2, <2>3, <2>4, <2>5 DEF OrderRoutes, Commands
<1> QED BY <1>1, <1>2, <1>3, <1>4, <1>5, <1>6, <1>7 DEF Grants

-------------------------------------------------------------------------------
(* The inductive invariant. *)

\* The values of the fields.
Status == CancelableStates \cup {"COMPLETED", "DELIVERED", "CANCELED"}
Stage == {"idle", "sent", "identified", "admitted", "loaded", "authorized", "answered"}
Denials == {"unauthorized", "password change required", "forbidden", "not found"}
Answered == Denials \cup {"none", "ok", "refused", "link outdated", "completion forbidden",
                          "cancellation forbidden", "not a mechanic"}
SomeoneOrNone == Persons \cup {NoOne}

OrderType ==
  [status : Status, mechanic : SomeoneOrNone, withdrawn : BOOLEAN, round : {0, 1, 2},
   closer : SomeoneOrNone, answering : SomeoneOrNone, loss : BOOLEAN]
CallType ==
  [at : Stage, by : SomeoneOrNone, claim : {"none", "must change", "own"}, means : RouteIds,
   route : RouteIds, link : BOOLEAN, target : SomeoneOrNone, copy : OrderType,
   fresh : BOOLEAN, answer : Answered]

\* What a request has passed when the command of its route may run.
Approved(q, can) ==
  /\ q.route = Cancel => MayCancel(q.copy, can)
  /\ q.route = Complete => MayComplete(q.copy, q.by, can)
  /\ q.route \in Approvals \cup Rejections => MayDecide(q.by, can)
  /\ q.route \notin Reads \cup {OwnRead}

\* What is known of a request, by how far it has come: pd are the people with a temporary
\* password, hd what each has been given so far, od the order.
CallFine(q, pd, hd, od) ==
  /\ q \in CallType
  /\ q.route = q.means
  /\ q.at # "idle" => q.by \in Persons
  /\ q.at \in {"identified", "admitted", "loaded", "authorized"} /\ q.by \in pd =>
       AllRoutes[q.route].token # "own password"
  /\ q.at \in {"admitted", "loaded", "authorized"} => AllRoutes[q.route].needs \subseteq hd[q.by]
  /\ q.at \in {"loaded", "authorized"} => q.route \in OrderRoutes
  /\ q.fresh => q.copy = od
  /\ q.at = "authorized" => Approved(q, hd[q.by])
  /\ q.at = "answered" /\ q.route \in OrderRoutes /\ q.by # Owner
     /\ hd[q.by] \subseteq CustomerGrants =>
       q.answer \in Denials

\* Who closed the order, and what they had been given for it.
OrderFine(od, hd) ==
  /\ od \in OrderType
  /\ od.status \in {"COMPLETED", "DELIVERED", "CANCELED"} => od.closer \in Persons
  /\ od.status = "CANCELED" /\ od.loss => "work-orders:cancel-in-execution" \in hd[od.closer]
  /\ od.status \in {"COMPLETED", "DELIVERED"} =>
       od.closer = od.answering \/ "work-orders:manage" \in hd[od.closer]

\* The people: their roles, and what a token of theirs can say.
PeopleFine(ro, pd, cl, hd) ==
  /\ ro \in [Persons -> SUBSET SystemRole] /\ hd \in [Persons -> SUBSET PermissionsOf(SystemRole)]
  /\ pd \subseteq Persons /\ cl \in [Persons -> SUBSET {"must change", "own"}]
  /\ \A p \in Persons : PermissionsOf(ro[p]) \subseteq hd[p]
  /\ \A p \in pd : cl[p] \subseteq {"must change"}

CallsFine(ca, pd, hd, od) ==
  /\ ca = [r \in Calls |-> ca[r]]
  /\ \A r \in Calls : CallFine(ca[r], pd, hd, od)

RoutesInv ==
  /\ PeopleFine(rolesOf, pending, claims, held)
  /\ OrderFine(order, held)
  /\ CallsFine(call, pending, held, order)

-------------------------------------------------------------------------------
(* What is known of a request. *)

\* What reaches an order route without a permission of the staff: a decision on a budget
\* and the customer's own view of the order.
LEMMA StrangersRoutes ==
  ASSUME NEW i \in OrderRoutes, AllRoutes[i].needs \subseteq CustomerGrants
  PROVE  i \in Approvals \cup Rejections \cup {OwnRead}
<1> SUFFICES ASSUME i \notin Approvals \cup Rejections \cup {OwnRead} PROVE FALSE OBVIOUS
<1>1. AllRoutes[i].needs \in {{"work-orders:manage"}, {"work-orders:execute"},
    {"work-orders:read"},
                             {"work-orders:cancel"}, {"work-orders:discount"}, {"audit:read"}}
  BY CommandsNeed DEF OrderRoutes, Commands
<1> QED BY <1>1 DEF CustomerGrants

\* Grants only ever grow with the roles.
LEMMA GrantsGrow ==
  ASSUME NEW A \in SUBSET SystemRole, NEW B \in SUBSET A
  PROVE  PermissionsOf(B) \subseteq PermissionsOf(A)
BY DEF PermissionsOf

\* A request keeps what is known of it while it waits: passwords are only made one's own,
\* grants are only added, and a save of the order marks its copy as stale.
LEMMA CallStays ==
  ASSUME NEW q, NEW pd, NEW hd, NEW od, CallFine(q, pd, hd, od),
         NEW pd2 \in SUBSET pd, NEW hd2, NEW od2,
         \A p \in Persons : hd[p] \subseteq hd2[p],
         od2 = od \/ ~q.fresh
  PROVE  CallFine(q, pd2, hd2, od2)
<1>1. q.at # "idle" => hd[q.by] \subseteq hd2[q.by] BY DEF CallFine
<1>2. q.at = "authorized" => Approved(q, hd2[q.by])
  BY <1>1 DEF CallFine, Approved, MayCancel, MayComplete, MayDecide
<1> QED BY <1>1, <1>2 DEF CallFine

\* Of a stale copy nothing is known that the request itself does not say.
LEMMA StaleFine ==
  ASSUME NEW q, NEW s, NEW pd, NEW hd, NEW od, NEW od2, CallFine(q, pd, hd, od),
         s \in CallType, s.fresh = FALSE, s.at = q.at, s.by = q.by, s.route = q.route,
         s.means = q.means, s.copy = q.copy, s.answer = q.answer
  PROVE  CallFine(s, pd, hd, od2)
<1>1. s.at = "authorized" => Approved(s, hd[s.by]) BY DEF CallFine, Approved
<1>2. s.at \in {"identified", "admitted", "loaded", "authorized"} /\ s.by \in pd =>
        AllRoutes[s.route].token # "own password"
  BY DEF CallFine
<1>3. s.at = "answered" /\ s.route \in OrderRoutes /\ s.by # Owner
    /\ hd[s.by] \subseteq CustomerGrants =>
        s.answer \in Denials
  BY DEF CallFine
<1> QED BY <1>1, <1>2, <1>3 DEF CallFine

\* A request marked as stale.
LEMMA CallIsStale ==
  ASSUME NEW q, NEW pd, NEW hd, NEW od, CallFine(q, pd, hd, od), NEW od2
  PROVE  CallFine([q EXCEPT !.fresh = FALSE], pd, hd, od2)
<1> DEFINE s == [q EXCEPT !.fresh = FALSE]
<1>1. /\ s \in CallType /\ s.fresh = FALSE /\ s.at = q.at /\ s.by = q.by /\ s.route = q.route
      /\ s.means = q.means /\ s.copy = q.copy /\ s.answer = q.answer
  BY DEF CallFine, CallType
<1> HIDE DEF s
<1>2. CallFine(s, pd, hd, od2) BY <1>1, StaleFine
<1> QED BY <1>2 DEF s

\* A request at rest, and one that was answered.
LEMMA NoCallFine ==
  ASSUME RouteAccessAssumption, NEW pd, NEW hd, NEW od
  PROVE  CallFine(NoCall, pd, hd, od) /\ NoCall \in CallType
<1>1. 1 \in RouteIds
  <2>1. OwnRead \in RouteIds BY CommandsNeed DEF OrderRoutes
  <2> QED BY <2>1, RoutesAreOrdered
<1>2. NewOrder("RECEIVED") \in OrderType
  BY DEF NewOrder, OrderType, SomeoneOrNone, Status, CancelableStates
<1>3. NoCall \in CallType
  BY <1>1, <1>2 DEF NoCall, CallType, SomeoneOrNone, Stage, Answered
<1> QED BY <1>3 DEF NoCall, CallFine

\* A request that was answered keeps who asked and for what.
AnsweredCall(q, answer) ==
  [NoCall EXCEPT !.at = "answered", !.by = q.by, !.means = q.means, !.route = q.route,
                 !.answer = answer]

\* An answer tells a stranger nothing, or it is not for a stranger.
LEMMA AnsweredFine ==
  ASSUME RouteAccessAssumption, NEW q, NEW pd, NEW hd, NEW od, CallFine(q, pd, hd, od),
         q.at # "idle", NEW answer \in Answered,
         NEW pd2, NEW hd2, NEW od2,
         \/ answer \in Denials
         \/ q.route \notin OrderRoutes \/ q.by = Owner \/ ~(hd2[q.by] \subseteq CustomerGrants)
  PROVE  CallFine(AnsweredCall(q, answer), pd2, hd2, od2)
<1> DEFINE s == AnsweredCall(q, answer)
<1>1. NoCall \in CallType /\ NoCall.fresh = FALSE BY NoCallFine DEF NoCall
<1>2. /\ s \in CallType /\ ~s.fresh /\ s.at = "answered" /\ s.by = q.by /\ s.route = q.route
      /\ s.means = q.means /\ s.answer = answer
  BY <1>1 DEF CallFine, CallType, AnsweredCall, Stage
<1> HIDE DEF s
<1>3. CallFine(s, pd2, hd2, od2) BY <1>2 DEF CallFine
<1> QED BY <1>3 DEF s

\* One request moves, the others wait.
LEMMA OneCallMoves ==
  ASSUME NEW ca, NEW pd, NEW hd, NEW od, CallsFine(ca, pd, hd, od),
         NEW r \in Calls, NEW q, CallFine(q, pd, hd, od)
  PROVE  CallsFine([ca EXCEPT ![r] = q], pd, hd, od)
BY DEF CallsFine

\* A step that moves one request and nothing else.
LEMMA OnlyCallMoves ==
  ASSUME RoutesInv, UNCHANGED <<rolesOf, pending, claims, order, held>>,
         CallsFine(call', pending, held, order)
  PROVE  RoutesInv'
BY DEF RoutesInv

\* A request goes on when the next stage may be told what it is told.
LEMMA GoOnKeeps ==
  ASSUME RoutesInv, UNCHANGED <<rolesOf, pending, claims, order, held>>,
         NEW r \in Calls, NEW from, NEW to, GoOn(r, from, to),
         CallFine([call[r] EXCEPT !.at = to], pending, held, order)
  PROVE  RoutesInv'
<1>1. call' = [call EXCEPT ![r] = [call[r] EXCEPT !.at = to]] BY DEF GoOn
<1>2. CallsFine(call', pending, held, order) BY <1>1, OneCallMoves DEF RoutesInv
<1> QED BY <1>2, OnlyCallMoves

\* A request is answered.
LEMMA AnswerKeeps ==
  ASSUME RouteAccessAssumption, RoutesInv, UNCHANGED <<rolesOf, pending, claims, order, held>>,
         NEW r \in Calls, NEW from \in Stage \ {"idle"}, NEW answer \in Answered,
         Answer(r, from, answer),
         \/ answer \in Denials
         \/ call[r].route \notin OrderRoutes \/ call[r].by = Owner
         \/ ~(held[call[r].by] \subseteq CustomerGrants)
  PROVE  RoutesInv'
<1>1. call' = [call EXCEPT ![r] = AnsweredCall(call[r], answer)] /\ call[r].at = from
  BY DEF Answer, AnsweredCall
<1>2. CallFine(call[r], pending, held, order) /\ call[r].at # "idle"
  BY <1>1 DEF RoutesInv, CallsFine
<1>3. CallFine(AnsweredCall(call[r], answer), pending, held, order) BY <1>2, AnsweredFine
<1>4. CallsFine(call', pending, held, order) BY <1>1, <1>3, OneCallMoves DEF RoutesInv
<1> QED BY <1>4, OnlyCallMoves

\* A request one stage further on, when what the next stage is told of it holds.
LEMMA FurtherOn ==
  ASSUME NEW q, NEW pd, NEW hd, NEW od, CallFine(q, pd, hd, od), q.at # "idle",
         NEW to \in {"identified", "admitted", "authorized"},
         q.by \in pd => AllRoutes[q.route].token # "own password",
         to # "identified" => AllRoutes[q.route].needs \subseteq hd[q.by],
         to = "authorized" => q.route \in OrderRoutes /\ Approved(q, hd[q.by])
  PROVE  CallFine([q EXCEPT !.at = to], pd, hd, od)
<1> DEFINE s == [q EXCEPT !.at = to]
<1>1. /\ s \in CallType /\ s.fresh = q.fresh /\ s.at = to /\ s.by = q.by /\ s.route = q.route
      /\ s.means = q.means /\ s.copy = q.copy
  BY DEF CallFine, CallType, Stage
<1>2. q.by \in Persons /\ q.route = q.means /\ (q.fresh => q.copy = od) BY DEF CallFine
<1> HIDE DEF s
<1>3. to = "authorized" => Approved(s, hd[s.by]) BY <1>1 DEF Approved
<1>4. CallFine(s, pd, hd, od) BY <1>1, <1>2, <1>3 DEF CallFine
<1> QED BY <1>4 DEF s

\* A sign-in gives a token that says what the account says.
LEMMA SignInKeeps ==
  ASSUME RoutesInv, NEW p \in Persons, SignIn(p)
  PROVE  RoutesInv'
<1>1. PeopleFine(rolesOf, pending, claims', held) BY DEF RoutesInv, PeopleFine, SignIn
<1> QED BY <1>1 DEF SignIn, RoutesInv

\* A request is sent, to the route it means: the router was proved to find it.
LEMMA SendKeeps ==
  ASSUME RouteAccessAssumption, RoutesInv, NEW r \in Calls, NEW p \in Persons, Send(r, p)
  PROVE  RoutesInv'
<1>1. PICK i \in Asked, claim \in claims[p] \cup {"none"}, link \in BOOLEAN, target \in Persons :
        /\ link => "budgets" \in {AllRoutes[i].path[k] : k \in DOMAIN AllRoutes[i].path}
        /\ AllRoutes[i].path # <<"work-orders", ":", "mechanic">> => target = p
        /\ call' = [call EXCEPT ![r] =
             [NoCall EXCEPT !.at = "sent", !.by = p, !.claim = claim, !.means = i, !.link = link,
                            !.target = target,
                            !.route = Resolved(AllRoutes[i].verb, Sent(AllRoutes[i].path))]]
  BY DEF Send
<1>2. i \in RouteIds /\ Resolved(AllRoutes[i].verb, Sent(AllRoutes[i].path)) = i
  BY RequestsFindTheirRoute DEF RouteAccessAssumption
<1> DEFINE q == [NoCall EXCEPT !.at = "sent", !.by = p, !.claim = claim, !.means = i,
    !.link = link,
                               !.target = target, !.route = i]
<1>3. claim \in {"none", "must change", "own"} BY DEF RoutesInv, PeopleFine
<1>4. NoCall \in CallType /\ ~NoCall.fresh BY NoCallFine DEF NoCall
<1>5. /\ q \in CallType /\ ~q.fresh /\ q.at = "sent" /\ q.by = p /\ q.route = i /\ q.means = i
  BY <1>2, <1>3, <1>4 DEF CallType, SomeoneOrNone, Stage
<1>6. call' = [call EXCEPT ![r] = q] BY <1>1, <1>2
<1> HIDE DEF q
<1>7. CallFine(q, pending, held, order) BY <1>5 DEF CallFine
<1>8. CallsFine(call', pending, held, order) BY <1>6, <1>7, OneCallMoves DEF RoutesInv
<1> QED BY <1>8, OnlyCallMoves DEF Send

-------------------------------------------------------------------------------
(* The guards and the use cases keep the invariant. *)

\* A temporary password gets no further than the routes that allow it: whoever has one now has no
\* token of an earlier or later password.
LEMMA AuthenticateKeeps ==
  ASSUME RouteAccessAssumption, RoutesInv, NEW r \in Calls, Authenticate(r)
  PROVE  RoutesInv'
<1> DEFINE q == call[r]
<1>1. CallFine(q, pending, held, order) BY DEF RoutesInv, CallsFine
<1>2. q.at = "sent" /\ UNCHANGED <<rolesOf, pending, claims, order, held>> BY DEF Authenticate
<1>3. q.by \in Persons /\ q.route \in RouteIds BY <1>1, <1>2 DEF CallFine, CallType
<1>4. ASSUME GoOn(r, "sent", "identified"), Route(r).token # "own password" \/ q.by \notin pending
      PROVE  RoutesInv'
  <2>1. CallFine([q EXCEPT !.at = "identified"], pending, held, order)
    BY <1>1, <1>2, <1>4, FurtherOn DEF Route
  <2> QED BY <1>2, <1>4, <2>1, GoOnKeeps
<1>5. CASE Route(r).token = "none" /\ GoOn(r, "sent", "identified")
  BY <1>4, <1>5
<1>6. CASE q.claim \in claims[q.by] /\ PasswordAllows(r) /\ GoOn(r, "sent", "identified")
  <2>1. q.by \in pending => Route(r).token # "own password"
    BY <1>6 DEF RoutesInv, PeopleFine, PasswordAllows
  <2> QED BY <1>4, <1>6, <2>1
<1>7. CASE Answer(r, "sent", "unauthorized") \/ Answer(r, "sent", "password change required")
  BY <1>2, <1>7, AnswerKeeps DEF Stage, Denials, Answered
<1> QED BY <1>5, <1>6, <1>7 DEF Authenticate

\* The permissions of the route were among those given when they were asked for.
LEMMA AdmitKeeps ==
  ASSUME RouteAccessAssumption, RoutesInv, NEW r \in Calls, Admit(r)
  PROVE  RoutesInv'
<1> DEFINE q == call[r]
<1>1. CallFine(q, pending, held, order) BY DEF RoutesInv, CallsFine
<1>2. q.at = "identified" /\ UNCHANGED <<rolesOf, pending, claims, order, held>> BY DEF Admit
<1>3. CASE Route(r).needs \subseteq EffectivePermissions(q.by) /\ GoOn(r, "identified",
    "admitted")
  <2>1. q.by \in Persons BY <1>1, <1>2 DEF CallFine
  <2>2. AllRoutes[q.route].needs \subseteq held[q.by]
    BY <1>3, <2>1 DEF RoutesInv, PeopleFine, EffectivePermissions, Route
  <2>3. q.by \in pending => AllRoutes[q.route].token # "own password" BY <1>1, <1>2 DEF CallFine
  <2>4. CallFine([q EXCEPT !.at = "admitted"], pending, held, order)
    BY <1>1, <1>2, <2>2, <2>3, FurtherOn
  <2> QED BY <1>2, <1>3, <2>4, GoOnKeeps
<1>4. CASE Answer(r, "identified", "forbidden")
  BY <1>2, <1>4, AnswerKeeps DEF Stage, Denials, Answered
<1> QED BY <1>3, <1>4 DEF Admit

\* A request loads the order as it is, and is fresh until somebody saves.
LEMMA LoadKeeps ==
  ASSUME RoutesInv, NEW r \in Calls, Load(r)
  PROVE  RoutesInv'
<1> DEFINE q == call[r]
           s == [q EXCEPT !.at = "loaded", !.copy = order, !.fresh = TRUE]
<1>1. CallFine(q, pending, held, order) /\ order \in OrderType
  BY DEF RoutesInv, CallsFine, OrderFine
<1>2. /\ q.at = "admitted" /\ q.route \in OrderRoutes /\ call' = [call EXCEPT ![r] = s]
      /\ UNCHANGED <<rolesOf, pending, claims, order, held>>
  BY DEF Load
<1>3. /\ s \in CallType /\ s.at = "loaded" /\ s.copy = order /\ s.by = q.by /\ s.route = q.route
      /\ s.means = q.means
  BY <1>1 DEF CallFine, CallType, Stage
<1> HIDE DEF s
<1>4. CallFine(s, pending, held, order)
  <2> HIDE DEF q
  <2> QED BY <1>1, <1>2, <1>3 DEF CallFine
<1>5. CallsFine(call', pending, held, order) BY <1>2, <1>4, OneCallMoves DEF RoutesInv
<1> QED BY <1>2, <1>5, OnlyCallMoves

\* Whoever was never staff has, past the guards, only a budget to decide on or the own view.
LEMMA StrangersArrive ==
  ASSUME NEW q, NEW pd, NEW hd, NEW od, CallFine(q, pd, hd, od),
         q.at \in {"loaded", "authorized"}, hd[q.by] \subseteq CustomerGrants
  PROVE  q.route \in Approvals \cup Rejections \cup {OwnRead}
<1>1. q.route \in OrderRoutes /\ AllRoutes[q.route].needs \subseteq CustomerGrants BY DEF CallFine
<1> QED BY <1>1, StrangersRoutes

\* The checks of the use cases are of different routes.
LEMMA ChecksApart ==
  /\ \A i \in {Complete, Cancel, AssignMechanic,
     OwnRead} \cup Reads : i \notin Approvals \cup Rejections
  /\ \A i \in {Complete, Cancel, AssignMechanic} \cup Reads : i # OwnRead
<1>1. ASSUME NEW i \in {Complete, Cancel, AssignMechanic} \cup Reads
      PROVE  \E n \in {"work-orders:read", "work-orders:cancel", "work-orders:manage",
          "audit:read"} :
               AllRoutes[i].needs = {n}
  BY CommandsNeed
<1>2. AllRoutes[OwnRead].needs = {"work-orders:read-own"} BY CommandsNeed
<1>3. \A i \in Approvals \cup Rejections : AllRoutes[i].needs = {} BY CommandsNeed
<1> QED BY <1>1, <1>2, <1>3

\* The authorizers decide on the order loaded and on the access they read now.
LEMMA AuthorizeKeeps ==
  ASSUME RouteAccessAssumption, RoutesInv, NEW r \in Calls, Authorize(r)
  PROVE  RoutesInv'
<1> DEFINE q == call[r]
           can == EffectivePermissions(q.by)
<1>1. CallFine(q, pending, held, order) BY DEF RoutesInv, CallsFine
<1>2. q.at = "loaded" /\ UNCHANGED <<rolesOf, pending, claims, order, held>> BY DEF Authorize
<1>3. q.by \in Persons /\ can \subseteq held[q.by]
  BY <1>1, <1>2 DEF CallFine, RoutesInv, PeopleFine, EffectivePermissions
<1>4. \/ q.by = Owner \/ ~(held[q.by] \subseteq CustomerGrants)
      \/ q.route \in Approvals \cup Rejections \cup {OwnRead}
  BY <1>1, <1>2, StrangersArrive
<1>5. ~MayDecide(q.by, can) => q.by # Owner BY DEF MayDecide
<1>6. MayDecide(q.by, can) => q.by = Owner \/ ~(held[q.by] \subseteq CustomerGrants)
  BY <1>3 DEF MayDecide, CustomerGrants
<1> HIDE DEF can
<1>7. \/ Answer(r, "loaded", "not found")
      \/ MayDecide(q.by, can) /\ Answer(r, "loaded", "link outdated")
      \/ /\ q.route \notin Approvals \cup Rejections \/ MayDecide(q.by, can)
         /\ q.route # OwnRead \/ q.by = Owner
         /\ \/ Answer(r, "loaded", "completion forbidden")
            \/ Answer(r, "loaded", "cancellation forbidden")
            \/ Answer(r, "loaded", "not a mechanic") \/ Answer(r, "loaded", "ok")
            \/ /\ GoOn(r, "loaded", "authorized")
               /\ q.route = Cancel => MayCancel(q.copy, can)
               /\ q.route = Complete => MayComplete(q.copy, q.by, can)
               /\ q.route \notin Reads \cup {OwnRead}
  <2>1. ByLink \subseteq Approvals \cup Rejections BY DEF ByLink, Approvals, Rejections
  <2>2. CASE q.route \in Approvals \cup Rejections
    <3>1. q.route \notin {Complete, Cancel, AssignMechanic, OwnRead} \cup Reads
      BY <2>2, ChecksApart
    <3> QED BY <2>2, <3>1 DEF Authorize, can
  <2>3. CASE q.route \notin Approvals \cup Rejections
    <3>1. q.route \in {Complete, Cancel, AssignMechanic} \cup Reads => q.route # OwnRead
      BY ChecksApart
    <3> QED BY <2>1, <2>3, <3>1 DEF Authorize, can
  <2> QED BY <2>2, <2>3
<1>8. CASE Answer(r, "loaded", "not found")
  BY <1>2, <1>8, AnswerKeeps DEF Stage, Denials, Answered
<1>9. CASE MayDecide(q.by, can) /\ Answer(r, "loaded", "link outdated")
  BY <1>2, <1>6, <1>9, AnswerKeeps DEF Stage, Answered, can
<1>10. ASSUME q.route \notin Approvals \cup Rejections \/ MayDecide(q.by, can),
              q.route # OwnRead \/ q.by = Owner,
              NEW a \in {"completion forbidden", "cancellation forbidden", "not a mechanic",
                  "ok"},
              Answer(r, "loaded", a)
       PROVE  RoutesInv'
  <2>1. q.by = Owner \/ ~(held[q.by] \subseteq CustomerGrants) BY <1>4, <1>6, <1>10 DEF can
  <2>2. a \in Answered BY DEF Answered
  <2>3. "loaded" \in Stage \ {"idle"} BY DEF Stage
  <2> QED BY <1>2, <1>10, <2>1, <2>2, <2>3, AnswerKeeps
<1>11. CASE /\ q.route \notin Approvals \cup Rejections \/ MayDecide(q.by, can)
            /\ GoOn(r, "loaded", "authorized")
            /\ q.route = Cancel => MayCancel(q.copy, can)
            /\ q.route = Complete => MayComplete(q.copy, q.by, can)
            /\ q.route \notin Reads \cup {OwnRead}
  <2>1. Approved(q, held[q.by])
    BY <1>3, <1>11 DEF Approved, MayCancel, MayComplete, MayDecide
  <2>2. /\ q.by \in pending => AllRoutes[q.route].token # "own password"
        /\ AllRoutes[q.route].needs \subseteq held[q.by] /\ q.route \in OrderRoutes
    BY <1>1, <1>2 DEF CallFine
  <2>3. CallFine([q EXCEPT !.at = "authorized"], pending, held, order)
    BY <1>1, <1>2, <2>1, <2>2, FurtherOn
  <2> QED BY <1>2, <1>11, <2>3, GoOnKeeps
<1> QED BY <1>7, <1>8, <1>9, <1>10, <1>11

\* What a command may leave of an order: its closing is not for the command to record, and
\* only a completion, a cancellation and a delivery close it.
LEMMA EffectsKeep ==
  ASSUME NEW i, NEW o \in OrderType, NEW by \in SomeoneOrNone, NEW t \in SomeoneOrNone,
         NEW v \in Effects(i, o, by, t)
  PROVE  /\ v \in OrderType
         /\ v.closer = o.closer /\ v.answering = o.answering /\ v.loss = o.loss
         /\ v.status = "COMPLETED" => v.status = o.status \/ i = Complete
         /\ v.status = "CANCELED" => v.status = o.status \/ i = Cancel
         /\ v.status = "DELIVERED" => o.status \in {"COMPLETED", "DELIVERED"}
<1>1. \/ v = o
      \/ v = [o EXCEPT !.mechanic = t]
      \/ v = [o EXCEPT !.status = "IN_DIAGNOSIS", !.mechanic = IF @ = NoOne THEN by ELSE @]
      \/ \E k \in {1, 2} : v = [o EXCEPT !.status = "AWAITING_APPROVAL", !.round = k]
      \/ \E status \in {"IN_DIAGNOSIS", "IN_EXECUTION"} : v = [o EXCEPT !.status = status]
      \/ \E left \in BOOLEAN : v = [o EXCEPT !.withdrawn = left]
      \/ i = Complete /\ v = [o EXCEPT !.status = "COMPLETED"]
      \/ i = Cancel /\ v = [o EXCEPT !.status = "CANCELED"]
      \/ o.status = "COMPLETED" /\ v = [o EXCEPT !.status = "DELIVERED"]
  <2>1. \/ v = o
        \/ v = [o EXCEPT !.mechanic = t]
        \/ v = [o EXCEPT !.status = "IN_DIAGNOSIS", !.mechanic = IF @ = NoOne THEN by ELSE @]
        \/ v = [o EXCEPT !.status = "AWAITING_APPROVAL", !.round = 1]
        \/ v = [o EXCEPT !.status = "AWAITING_APPROVAL", !.round = 2]
        \/ v = [o EXCEPT !.status = "IN_EXECUTION"] \/ v = [o EXCEPT !.status = "IN_DIAGNOSIS"]
        \/ v \in {[o EXCEPT !.withdrawn = left] : left \in BOOLEAN}
           \/ v = [o EXCEPT !.withdrawn = TRUE]
        \/ i = Complete /\ v = [o EXCEPT !.status = "COMPLETED"]
        \/ i = Cancel /\ v = [o EXCEPT !.status = "CANCELED"]
        \/ o.status = "COMPLETED" /\ v = [o EXCEPT !.status = "DELIVERED"]
    BY DEF Effects
  <2> QED BY <2>1
<1>2. CASE v = o BY <1>2 DEF OrderType
<1>3. CASE v = [o EXCEPT !.mechanic = t] BY <1>3 DEF OrderType
<1>4. CASE v = [o EXCEPT !.status = "IN_DIAGNOSIS", !.mechanic = IF @ = NoOne THEN by ELSE @]
  BY <1>4 DEF OrderType, SomeoneOrNone, Status, CancelableStates
<1>5. CASE \E k \in {1, 2} : v = [o EXCEPT !.status = "AWAITING_APPROVAL", !.round = k]
  BY <1>5 DEF OrderType, Status, CancelableStates
<1>6. CASE \E status \in {"IN_DIAGNOSIS", "IN_EXECUTION"} : v = [o EXCEPT !.status = status]
  BY <1>6 DEF OrderType, Status, CancelableStates
<1>7. CASE \E left \in BOOLEAN : v = [o EXCEPT !.withdrawn = left] BY <1>7 DEF OrderType
<1>8. CASE i = Complete /\ v = [o EXCEPT !.status = "COMPLETED"]
  BY <1>8 DEF OrderType, Status, CancelableStates
<1>9. CASE i = Cancel /\ v = [o EXCEPT !.status = "CANCELED"]
  BY <1>9 DEF OrderType, Status, CancelableStates
<1>10. CASE o.status = "COMPLETED" /\ v = [o EXCEPT !.status = "DELIVERED"]
  BY <1>10 DEF OrderType, Status, CancelableStates
<1> QED BY <1>1, <1>2, <1>3, <1>4, <1>5, <1>6, <1>7, <1>8, <1>9, <1>10

\* A completion or a cancellation that is saved was authorised on the order it is saved over.
LEMMA ClosingFine ==
  ASSUME NEW q, OrderFine(order, held), CallFine(q, pending, held, order), q.at = "authorized",
      q.fresh,
         NEW v \in Effects(q.route, q.copy, q.by, q.target)
  PROVE  OrderFine(Closing(v, q.by), held)
<1>1. /\ q.copy = order /\ q.by \in Persons /\ Approved(q, held[q.by])
      /\ q.by \in SomeoneOrNone /\ q.target \in SomeoneOrNone /\ order \in OrderType
  BY DEF CallFine, CallType, OrderFine
<1>2. /\ v \in OrderType
      /\ v.closer = order.closer /\ v.answering = order.answering /\ v.loss = order.loss
      /\ v.status = "COMPLETED" => v.status = order.status \/ q.route = Complete
      /\ v.status = "CANCELED" => v.status = order.status \/ q.route = Cancel
      /\ v.status = "DELIVERED" => order.status \in {"COMPLETED", "DELIVERED"}
  BY <1>1, EffectsKeep
<1>3. CASE v.status \in {"COMPLETED", "CANCELED"} /\ v.status # order.status
  <2> DEFINE w == [v EXCEPT !.closer = q.by, !.answering = order.mechanic,
      !.loss = order.withdrawn]
  <2>1. Closing(v, q.by) = w BY <1>3 DEF Closing
  <2>2. /\ w \in OrderType /\ w.closer = q.by /\ w.answering = order.mechanic
        /\ w.loss = order.withdrawn /\ w.status = v.status
    BY <1>1, <1>2 DEF OrderType
  <2> HIDE DEF w
  <2>3. w.status = "CANCELED" /\ w.loss => "work-orders:cancel-in-execution" \in held[w.closer]
    BY <1>1, <1>2, <1>3, <2>2 DEF Approved, MayCancel
  <2>4. w.status \in {"COMPLETED", "DELIVERED"} =>
          w.closer = w.answering \/ "work-orders:manage" \in held[w.closer]
    BY <1>1, <1>2, <1>3, <2>2 DEF Approved, MayComplete
  <2>5. OrderFine(w, held) BY <1>1, <2>2, <2>3, <2>4 DEF OrderFine
  <2> QED BY <2>1, <2>5
<1>4. CASE ~(v.status \in {"COMPLETED", "CANCELED"} /\ v.status # order.status)
  <2>1. Closing(v, q.by) = v BY <1>4 DEF Closing
  <2> QED BY <1>2, <1>4, <2>1 DEF OrderFine
<1> QED BY <1>3, <1>4

\* A save, after which every other copy is stale.
LEMMA SaveOrderKeeps ==
  ASSUME RouteAccessAssumption, RoutesInv, NEW r \in Calls, SaveOrder(r)
  PROVE  RoutesInv'
<1> DEFINE q == call[r]
           after == Effects(q.route, q.copy, q.by, q.target)
<1>1. CallFine(q, pending, held, order) /\ OrderFine(order, held) BY DEF RoutesInv, CallsFine
<1>2. q.at = "authorized" /\ UNCHANGED <<rolesOf, pending, claims, held>> BY DEF SaveOrder
<1>3. q.by = Owner \/ ~(held[q.by] \subseteq CustomerGrants)
  <2>1. SUFFICES ASSUME held[q.by] \subseteq CustomerGrants PROVE q.by = Owner OBVIOUS
  <2>2. q.route \in Approvals \cup Rejections \cup {OwnRead} BY <1>1, <1>2, <2>1, StrangersArrive
  <2>3. q.route # OwnRead /\ MayDecide(q.by, held[q.by])
    BY <1>1, <1>2, <2>2 DEF CallFine, Approved
  <2> QED BY <2>1, <2>3 DEF MayDecide, CustomerGrants
<1>4. CASE after = {} \/ ~q.fresh
  <2>1. Answer(r, "authorized", "refused") /\ UNCHANGED order BY <1>4 DEF SaveOrder
  <2>2. "authorized" \in Stage \ {"idle"} /\ "refused" \in Answered BY DEF Stage, Answered
  <2> QED BY <1>2, <1>3, <2>1, <2>2, AnswerKeeps
<1>5. CASE ~(after = {} \/ ~q.fresh)
  <2>1. /\ order' \in {Closing(v, q.by) : v \in after}
        /\ call' = [s \in Calls |-> IF s = r THEN AnsweredCall(q, "ok")
                                    ELSE [call[s] EXCEPT !.fresh = FALSE]]
    BY <1>5 DEF SaveOrder, AnsweredCall
  <2>2. OrderFine(order', held)
    <3>1. PICK v \in after : order' = Closing(v, q.by) BY <2>1
    <3>2. q.fresh BY <1>1, <1>5 DEF CallFine, CallType
    <3>3. OrderFine(Closing(v, q.by), held) BY <1>1, <1>2, <3>2, ClosingFine
    <3> QED BY <3>1, <3>3
  <2>3. CallFine(AnsweredCall(q, "ok"), pending, held, order')
    BY <1>1, <1>2, <1>3, AnsweredFine DEF Answered
  <2>4. ASSUME NEW s \in Calls
    PROVE CallFine([call[s] EXCEPT !.fresh = FALSE], pending, held, order')
    BY CallIsStale DEF RoutesInv, CallsFine
  <2>5. CallsFine(call', pending, held, order')
    <3>1. ASSUME NEW s \in Calls PROVE CallFine(call'[s], pending, held, order')
      <4>1. CASE s = r BY <2>1, <2>3, <4>1
      <4>2. CASE s # r
        <5>1. call'[s] = [call[s] EXCEPT !.fresh = FALSE] BY <2>1, <4>2
        <5> QED BY <2>4, <5>1
      <4> QED BY <4>1, <4>2
    <3> QED BY <2>1, <3>1 DEF CallsFine
  <2> QED BY <1>2, <2>2, <2>5 DEF RoutesInv
<1> QED BY <1>4, <1>5

\* A changed password ends the sessions of the temporary one.
LEMMA OwnAccountKeeps ==
  ASSUME RouteAccessAssumption, RoutesInv, NEW r \in Calls, OwnAccount(r)
  PROVE  RoutesInv'
<1> DEFINE q == call[r]
<1>1. CallFine(q, pending, held, order) BY DEF RoutesInv, CallsFine
<1>2. /\ q.at = "admitted" /\ q.route \in {PasswordRoute, LogoutRoute}
      /\ pending' = IF q.route = PasswordRoute THEN pending \ {q.by} ELSE pending
      /\ claims' = [claims EXCEPT ![q.by] = {}]
      /\ Answer(r, "admitted", "ok")
      /\ UNCHANGED <<rolesOf, order, held>>
  BY DEF OwnAccount
<1>3. pending' \subseteq pending BY <1>2
<1>4. PeopleFine(rolesOf, pending', claims', held) BY <1>2, <1>3 DEF RoutesInv, PeopleFine
<1>5. q.route \notin OrderRoutes
  <2>1. \A i \in OrderRoutes : AllRoutes[i].token = "own password" BY CommandsNeed
  <2>2. \A i \in {PasswordRoute, LogoutRoute} : AllRoutes[i].token = "any password"
    BY AccountRoutesStand, Grant DEF Stands
  <2> QED BY <1>2, <2>1, <2>2
<1>6. call' = [call EXCEPT ![r] = AnsweredCall(q, "ok")] BY <1>2 DEF Answer, AnsweredCall
<1>7. CallFine(AnsweredCall(q, "ok"), pending', held, order)
  BY <1>1, <1>2, <1>5, AnsweredFine DEF Answered
<1>8. CallsFine(call, pending', held, order)
  BY <1>3, CallStays DEF RoutesInv, CallsFine
<1>9. CallsFine(call', pending', held, order) BY <1>6, <1>7, <1>8, OneCallMoves
<1> QED BY <1>2, <1>4, <1>9 DEF RoutesInv

\* The other routes look at no order.
LEMMA ElsewhereKeeps ==
  ASSUME RouteAccessAssumption, RoutesInv, NEW r \in Calls, Elsewhere(r)
  PROVE  RoutesInv'
<1>1. call[r].route \notin OrderRoutes BY DEF Elsewhere
<1>2. Answer(r, "admitted", "ok") /\ UNCHANGED <<rolesOf, pending, claims, order, held>>
  BY DEF Elsewhere
<1>3. "admitted" \in Stage \ {"idle"} /\ "ok" \in Answered BY DEF Stage, Answered
<1> QED BY <1>1, <1>2, <1>3, AnswerKeeps

\* A client reads its answer.
LEMMA ReceiveKeeps ==
  ASSUME RouteAccessAssumption, RoutesInv, NEW r \in Calls, Receive(r)
  PROVE  RoutesInv'
<1>1. CallsFine(call', pending, held, order)
  BY NoCallFine, OneCallMoves DEF RoutesInv, Receive
<1> QED BY <1>1, OnlyCallMoves DEF Receive

\* Roles come and go; what was given once stays given.
LEMMA ChangeRolesKeeps ==
  ASSUME RoutesInv, NEW p \in Persons, ChangeRoles(p)
  PROVE  RoutesInv'
<1>1. PICK role \in {"SERVICE_ADVISOR", "MECHANIC"} :
        /\ rolesOf' = [rolesOf EXCEPT ![p] = IF role \in @ THEN @ \ {role} ELSE @ \cup {role}]
        /\ held' = [held EXCEPT ![p] = @ \cup PermissionsOf(rolesOf'[p])]
  BY DEF ChangeRoles
<1>2. UNCHANGED <<pending, claims, order, call>> BY DEF ChangeRoles
<1>3. rolesOf' \in [Persons -> SUBSET SystemRole]
  BY <1>1 DEF RoutesInv, PeopleFine, SystemRole
<1>4. /\ held' \in [Persons -> SUBSET PermissionsOf(SystemRole)]
      /\ \A x \in Persons : held[x] \subseteq held'[x]
      /\ \A x \in Persons : PermissionsOf(rolesOf'[x]) \subseteq held'[x]
  <2>1. PermissionsOf(rolesOf'[p]) \subseteq PermissionsOf(SystemRole) BY <1>3, GrantsGrow
  <2>2. \A x \in Persons \ {p} : rolesOf'[x] = rolesOf[x] BY <1>1 DEF RoutesInv, PeopleFine
  <2> QED BY <1>1, <2>1, <2>2 DEF RoutesInv, PeopleFine
<1>5. PeopleFine(rolesOf', pending, claims, held') BY <1>3, <1>4 DEF RoutesInv, PeopleFine
<1>6. OrderFine(order, held') BY <1>4 DEF RoutesInv, OrderFine
<1>7. CallsFine(call, pending, held', order) BY <1>4, CallStays DEF RoutesInv, CallsFine
<1> QED BY <1>2, <1>5, <1>6, <1>7 DEF RoutesInv

-------------------------------------------------------------------------------
(* The theorems. *)

\* The seeded roles and the order at the start.
LEMMA RoutesStartFine ==
  ASSUME RouteAccessAssumption, RoutesInit
  PROVE  RoutesInv
<1>1. PeopleFine(rolesOf, pending, claims, held)
  <2>1. \A p \in Persons : SeedRoles[p] \in SystemRole
      /\ PermissionsOf({SeedRoles[p]}) = RoleGrants[SeedRoles[p]]
    BY DEF RouteAccessAssumption, PermissionsOf
  <2>2. \A p \in Persons : rolesOf[p] = {SeedRoles[p]} /\ held[p] = RoleGrants[SeedRoles[p]]
    BY DEF RoutesInit
  <2>3. rolesOf \in [Persons -> SUBSET SystemRole] BY <2>1 DEF RoutesInit
  <2>4. held \in [Persons -> SUBSET PermissionsOf(SystemRole)]
    BY <2>1, <2>2 DEF RoutesInit, PermissionsOf
  <2>5. pending \subseteq Persons /\ claims \in [Persons -> SUBSET {"must change", "own"}]
        /\ \A p \in pending : claims[p] \subseteq {"must change"}
    BY DEF RoutesInit, RouteAccessAssumption
  <2> QED BY <2>1, <2>2, <2>3, <2>4, <2>5 DEF PeopleFine
<1>2. OrderFine(order, held)
  BY DEF RoutesInit, RouteAccessAssumption, NewOrder, OrderFine, OrderType, SomeoneOrNone, Status,
         CancelableStates
<1>3. CallsFine(call, pending, held, order) BY NoCallFine DEF RoutesInit, CallsFine
<1> QED BY <1>1, <1>2, <1>3 DEF RoutesInv

\* Every step keeps the invariant.
LEMMA RoutesStepFine ==
  ASSUME RouteAccessAssumption, RoutesInv, [RoutesNext]_routeVars
  PROVE  RoutesInv'
<1>1. Askers \subseteq Persons /\ Movers \subseteq Persons BY DEF RouteAccessAssumption
<1>2. CASE Sending BY <1>1, <1>2, SendKeeps DEF Sending
<1>3. ASSUME NEW p \in Askers, SignIn(p) PROVE RoutesInv' BY <1>1, <1>3, SignInKeeps
<1>4. ASSUME NEW p \in Movers, ChangeRoles(p) PROVE RoutesInv' BY <1>1, <1>4, ChangeRolesKeeps
<1>5. ASSUME NEW r \in Calls, Authenticate(r) \/ Admit(r) \/ Handle(r) \/ Receive(r)
  PROVE RoutesInv'
  BY <1>5, AuthenticateKeeps, AdmitKeeps, LoadKeeps, AuthorizeKeeps, SaveOrderKeeps,
      OwnAccountKeeps,
     ElsewhereKeeps, ReceiveKeeps DEF Handle
<1>6. CASE UNCHANGED routeVars BY <1>6 DEF routeVars, RoutesInv
<1> QED BY <1>2, <1>3, <1>4, <1>5, <1>6 DEF RoutesNext, Serving

\* The paths of the two decisions, and the verbs of an assignment and a delivery.
LEMMA DecisionsApart ==
  /\ \A i \in Rejections : i # On("POST", <<"budget", "approval">>)
  /\ Deliver # AssignMechanic
<1>1. \A v, p : SignedIn(v, p).path = p BY Routed
<1>2. AllRoutes[On("POST", <<"budget", "approval">>)].path = <<"work-orders", ":", "budget",
    "approval">>
  BY CommandsStand, <1>1 DEF Stands
<1>3. \A i \in Rejections : \/ AllRoutes[i].path = <<"work-orders", ":", "budget", "rejection">>
                            \/ AllRoutes[i].path = <<"work-orders", ":", "budgets", ":",
                               "rejection">>
  BY CommandsStand, <1>1 DEF Stands, Rejections
<1>4. \A i \in Rejections : i # On("POST", <<"budget", "approval">>) BY <1>2, <1>3
<1>5. AllRoutes[Deliver].verb = "POST" /\ AllRoutes[AssignMechanic].verb = "PUT"
  BY CommandsStand, Routed DEF Stands
<1> QED BY <1>4, <1>5

\* The steps of the execution are a mechanic's, and no other commands.
LEMMA ExecutionIsForMechanics ==
  ASSUME NEW i \in {StartDiagnosis, CompleteDiagnosis, Supplement, Withdraw, Return}
  PROVE  i \notin {AssignMechanic, Cancel} \cup Edits /\ MayAsk("MECHANIC", i)
<1>1. AllRoutes[i].needs = {"work-orders:execute"} BY CommandsNeed
<1>2. \A k \in {AssignMechanic} \cup Edits : AllRoutes[k].needs = {"work-orders:manage"}
  BY CommandsNeed
<1>3. AllRoutes[Cancel].needs = {"work-orders:cancel"} BY CommandsNeed
<1>4. \A k \in Approvals \cup Rejections : AllRoutes[k].needs = {} BY CommandsNeed
<1>5. i \notin {AssignMechanic, Cancel} \cup Edits BY <1>1, <1>2, <1>3
<1>6. i \notin Approvals \cup Rejections BY <1>1, <1>4
<1>7. AllRoutes[i].needs \subseteq RoleGrants["MECHANIC"] BY <1>1 DEF RoleGrants, MechanicGrants
<1> QED BY <1>5, <1>6, <1>7 DEF MayAsk

\* A visit goes on: from every stage, a step that a customer, an advisor or a mechanic may ask
\* for.
LEMMA VisitsGoOn ==
  ASSUME RouteAccessAssumption, order \in OrderType
  PROVE  VisitsGoOnWithoutAdministrators
<1> SUFFICES ASSUME order.status \notin {"DELIVERED", "CANCELED"}
             PROVE  \E role \in {"CUSTOMER", "SERVICE_ADVISOR", "MECHANIC"} :
                      \E i \in Forward(order) : MayAsk(role, i)
  BY DEF VisitsGoOnWithoutAdministrators
<1> DEFINE approval == On("POST", <<"budget", "approval">>)
<1>1. ASSUME NEW i \in Commands, NEW v \in Effects(i, order, Owner, Owner),
             v.status \notin {order.status, "CANCELED"}
      PROVE  i \in Forward(order)
  BY <1>1 DEF Forward
<1>2. CASE order.status = "RECEIVED"
  <2>1. StartDiagnosis \notin {AssignMechanic, Cancel} \cup Edits BY ExecutionIsForMechanics
  <2> DEFINE v == [order EXCEPT !.status = "IN_DIAGNOSIS",
      !.mechanic = IF @ = NoOne THEN Owner ELSE @]
  <2>2. v \in Effects(StartDiagnosis, order, Owner, Owner)
    BY <1>2, <2>1 DEF Effects, CancelableStates
  <2>3. v.status = "IN_DIAGNOSIS" BY DEF OrderType
  <2>4. StartDiagnosis \in Forward(order) BY <1>1, <1>2, <2>2, <2>3 DEF Commands
  <2>5. MayAsk("MECHANIC", StartDiagnosis) BY ExecutionIsForMechanics
  <2> QED BY <2>4, <2>5
<1>3. CASE order.status = "IN_DIAGNOSIS"
  <2>1. CompleteDiagnosis \notin {AssignMechanic, Cancel} \cup Edits BY ExecutionIsForMechanics
  <2> DEFINE v == [order EXCEPT !.status = "AWAITING_APPROVAL", !.round = 1]
  <2>2. v \in Effects(CompleteDiagnosis, order, Owner, Owner)
    BY <1>3, <2>1 DEF Effects, CancelableStates
  <2>3. v.status = "AWAITING_APPROVAL" BY DEF OrderType
  <2>4. CompleteDiagnosis \in Forward(order) BY <1>1, <1>3, <2>2, <2>3 DEF Commands
  <2>5. MayAsk("MECHANIC", CompleteDiagnosis) BY ExecutionIsForMechanics
  <2> QED BY <2>4, <2>5
<1>4. CASE order.status = "AWAITING_APPROVAL"
  <2>1. approval \in Approvals /\ approval \notin {AssignMechanic, Cancel} \cup Rejections
    BY CommandsNeed, DecisionsApart DEF Approvals
  <2> DEFINE v == [order EXCEPT !.status = "IN_EXECUTION"]
  <2>2. v \in Effects(approval, order, Owner, Owner)
    BY <1>4, <2>1 DEF Effects, CancelableStates
  <2>3. v.status = "IN_EXECUTION" BY DEF OrderType
  <2>4. approval \in Forward(order) BY <1>1, <1>4, <2>1, <2>2, <2>3 DEF Commands
  <2>5. AllRoutes[approval].needs = {} /\ AllRoutes[Complete].needs = {"work-orders:read"}
    BY <2>1, CommandsNeed
  <2>6. MayAsk("CUSTOMER", approval) BY <2>5 DEF MayAsk
  <2> QED BY <2>4, <2>6
<1>5. CASE order.status = "IN_EXECUTION"
  <2>1. Complete \notin {AssignMechanic, Supplement, Withdraw, Return, Cancel,
      Discount} \cup Edits
    <3>1. AllRoutes[Complete].needs = {"work-orders:read"} BY CommandsNeed
    <3>2. \A i \in {Supplement, Withdraw, Return} : AllRoutes[i].needs = {"work-orders:execute"}
      BY CommandsNeed
    <3>3. \A i \in {AssignMechanic} \cup Edits : AllRoutes[i].needs = {"work-orders:manage"}
      BY CommandsNeed
    <3>4. /\ AllRoutes[Cancel].needs = {"work-orders:cancel"}
          /\ AllRoutes[Discount].needs = {"work-orders:discount"}
      BY CommandsNeed
    <3> QED BY <3>1, <3>2, <3>3, <3>4
  <2> DEFINE v == [order EXCEPT !.status = "COMPLETED"]
  <2>2. v \in Effects(Complete, order, Owner, Owner)
    BY <1>5, <2>1 DEF Effects, CancelableStates
  <2>3. v.status = "COMPLETED" BY DEF OrderType
  <2>4. Complete \in Forward(order) BY <1>1, <1>5, <2>2, <2>3 DEF Commands
  <2>5. MayAsk("MECHANIC", Complete)
    BY CommandsNeed DEF MayAsk, RoleGrants, MechanicGrants
  <2> QED BY <2>4, <2>5
<1>6. CASE order.status = "COMPLETED"
  <2>1. Deliver \notin {AssignMechanic, Discount} BY CommandsNeed, DecisionsApart
  <2> DEFINE v == [order EXCEPT !.status = "DELIVERED"]
  <2>2. v \in Effects(Deliver, order, Owner, Owner)
    BY <1>6, <2>1 DEF Effects, CancelableStates
  <2>3. v.status = "DELIVERED" BY DEF OrderType
  <2>4. Deliver \in Forward(order) BY <1>1, <1>6, <2>2, <2>3 DEF Commands
  <2>5. MayAsk("SERVICE_ADVISOR", Deliver)
    BY CommandsNeed DEF MayAsk, RoleGrants, AdvisorGrants
  <2> QED BY <2>4, <2>5
<1>7. order.status \in {"RECEIVED", "IN_DIAGNOSIS", "AWAITING_APPROVAL", "IN_EXECUTION",
    "COMPLETED"}
  BY DEF OrderType, Status, CancelableStates
<1> QED BY <1>2, <1>3, <1>4, <1>5, <1>6, <1>7

\* In every reachable state of a client that sends any requests to the API, while roles are
\* granted and taken away, accounts are created and passwords changed: no request is answered by
\* a route other than its own; whoever may not see an order learns nothing of it; planned parts
\* and services are lost, and a work order completed, only by whom the guards and the authorizers
\* allow; nobody works on a generated password; and the visit can go on without an administrator.
THEOREM RoutesAreSafe ==
  ASSUME RouteAccessAssumption
  PROVE  RoutesSpec => []RoutesAreGuarded
<1>1. RoutesInv => RoutesAreGuarded
  <2> SUFFICES ASSUME RoutesInv PROVE RoutesAreGuarded OBVIOUS
  <2>1. \A r \in Calls : CallFine(call[r], pending, held, order) BY DEF RoutesInv, CallsFine
  <2>2. PeopleFine(rolesOf, pending, claims, held) /\ OrderFine(order, held) BY DEF RoutesInv
  <2>3. RoutesTypeOK
    BY <2>1, <2>2
        DEF RoutesTypeOK, CallFine, CallType, OrderFine, OrderType, PeopleFine, SomeoneOrNone
  <2>4. NoRouteIsShadowed BY <2>1 DEF NoRouteIsShadowed, CallFine
  <2>5. StrangersLearnNothing BY <2>1 DEF StrangersLearnNothing, CallFine, EverStaff, Denials
  <2>6. LossesAreAuthorised /\ CompletedByItsMechanicOrAManager
    BY <2>2 DEF OrderFine, LossesAreAuthorised, CompletedByItsMechanicOrAManager
  <2>7. NoWorkBeforeTheOwnPassword
    BY <2>1 DEF NoWorkBeforeTheOwnPassword, CallFine, Route
  <2>8. VisitsGoOnWithoutAdministrators BY <2>2, VisitsGoOn DEF OrderFine
  <2> QED BY <2>3, <2>4, <2>5, <2>6, <2>7, <2>8 DEF RoutesAreGuarded
<1>2. RoutesInit => RoutesInv BY RoutesStartFine
<1>3. RoutesInv /\ [RoutesNext]_routeVars => RoutesInv' BY RoutesStepFine
<1> QED BY <1>1, <1>2, <1>3, PTL DEF RoutesSpec
==============================================================================
