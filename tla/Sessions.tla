------------------------------- MODULE Sessions -------------------------------
(***************************************************************************)
(* Logins, refreshes and revocations of the sessions of some users, as     *)
(* requests that run at once.  A request is a chain of awaits, and between *)
(* two of them the rows it has read go stale: save writes every column of  *)
(* the copy back, with no version to guard it, and only the index that     *)
(* allows a session one ACTIVE token can refuse it.  Access tokens are     *)
(* never looked up: they live until they expire, unless their session is   *)
(* marked in Redis, and the mark is written after the rows have changed.   *)
(*                                                                         *)
(* One transaction is one action.  The two rows findByRefreshTokenHash     *)
(* reads one after the other are read at once.                             *)
(***************************************************************************)
EXTENDS UserAggregate, FiniteSets

CONSTANTS
  Users, SessionIds, Tokens,
  NoSession,   \* a request that holds no session
  Requests,    \* requests that may be in flight at once
  Kinds,       \* what they may be, of AllKinds
  Opened,      \* the account every user starts with
  AccessTtl,   \* ACCESS_TOKEN_TTL_SECONDS, in ticks
  RefreshTtl,  \* REFRESH_TOKEN_TTL_SECONDS
  AbsoluteTtl, \* SESSION_ABSOLUTE_TTL_SECONDS
  MaxTime,     \* bound: the last tick of the clock
  Staff,       \* whether somebody with the permissions acts on other users
  MayStop      \* whether the process may stop between two steps of a request

AllKinds == {"login", "refresh", "revoke", "logout", "deactivate", "change password"}

RefreshTokenStatus == {"ACTIVE", "ROTATED", "REVOKED"}
SessionStatus == {"ACTIVE", "REVOKED"}

\* The sessions a request can hold with these tokens of theirs.
CopiesWith(ts) ==
  [id : SessionIds, user : Users, status : SessionStatus, end : Nat,
   tokens : [ts -> [status : RefreshTokenStatus, expires : Nat]]]

\* What an instance must make of the constants.
SessionsAssumption ==
  /\ Kinds \subseteq AllKinds
  /\ {AccessTtl, RefreshTtl, AbsoluteTtl} \subseteq Nat \ {0} /\ MaxTime \in Nat
  /\ Staff \in BOOLEAN /\ MayStop \in BOOLEAN
  /\ IsUser(Opened)
  /\ IsFiniteSet(Tokens) /\ \A ts \in SUBSET Tokens : NoSession \notin CopiesWith(ts)

-------------------------------------------------------------------------------
(***************************************************************************)
(* The aggregate: a session and its refresh tokens as a value.  The        *)
(* repository seldom loads them all: by a refresh token it loads that      *)
(* token alone, by id the ACTIVE ones.  tokens is a function from the      *)
(* tokens loaded, or issued since, to what the session knows of each.      *)
(***************************************************************************)

Earliest(a, b) == IF a <= b THEN a ELSE b

\* A new refresh token lives for its own lifetime, within the session's.
Issue(time, end) == [status |-> "ACTIVE", expires |-> Earliest(time + RefreshTtl, end)]

Start(id, user, token, time) ==
  LET end == time + AbsoluteTtl IN
  [id |-> id, user |-> user, status |-> "ACTIVE", end |-> end,
   tokens |-> [t \in {token} |-> Issue(time, end)]]

IsActiveAt(s, time) == s.status = "ACTIVE" /\ time < s.end

\* Only an ACTIVE token is revoked: a ROTATED one stays ROTATED.
RevokeToken(t) == IF t.status = "ACTIVE" THEN [t EXCEPT !.status = "REVOKED"] ELSE t

Revoke(s) ==
  IF s.status = "REVOKED" THEN s
  ELSE [s EXCEPT !.status = "REVOKED",
                 !.tokens = [t \in DOMAIN s.tokens |-> RevokeToken(s.tokens[t])]]

\* The checks of rotateRefreshToken in their order; presented is a loaded token.
Refusal(s, presented, time) ==
  IF ~IsActiveAt(s, time) THEN "not active"
  ELSE IF s.tokens[presented].status # "ACTIVE" THEN "reuse"
  ELSE IF time >= s.tokens[presented].expires THEN "invalid"
  ELSE "none"

Exchange(s, presented, new, time) ==
  [t \in DOMAIN s.tokens \cup {new} |->
     IF t = new THEN Issue(time, s.end)
     ELSE IF t = presented THEN [s.tokens[t] EXCEPT !.status = "ROTATED"] ELSE s.tokens[t]]

\* The session after rotateRefreshToken, which also changes it when it refuses a reuse.
Rotate(s, presented, new, time) ==
  CASE Refusal(s, presented, time) = "reuse" -> Revoke(s)
    [] Refusal(s, presented, time) = "none" ->
         [s EXCEPT !.tokens = Exchange(s, presented, new, time)]
    [] OTHER -> s

-------------------------------------------------------------------------------
VARIABLES
  now,        \* the clock
  users,      \* the rows of users
  sessions,   \* the rows of sessions
  tokens,     \* the rows of refresh_tokens
  mark,       \* Redis: until when a session is marked as revoked, 0 for no mark
  access,     \* the access tokens signed so far
  request     \* where each request is and what it holds

rows == <<users, sessions, tokens>>
sessionsVars == <<now, rows, mark, access, request>>

NoRow == [user |-> "none", status |-> "NONE", end |-> 0]
NoToken == [session |-> NoSession, status |-> "NONE", expires |-> 0]
Idle == [kind |-> "none", at |-> "idle", user |-> "none", account |-> Opened,
         copy |-> NoSession, presented |-> "none", revoked |-> {}, since |-> 0]

SessionsInit ==
  /\ now = 0
  /\ users = [u \in Users |-> Opened]
  /\ sessions = [s \in SessionIds |-> NoRow]
  /\ tokens = [t \in Tokens |-> NoToken]
  /\ mark = [s \in SessionIds |-> 0]
  /\ access = {}
  /\ request = [r \in Requests |-> Idle]

\* A request that now holds these.
Holding(old, fields) == [f \in DOMAIN old |-> IF f \in DOMAIN fields THEN fields[f] ELSE old[f]]

\* A new request of an enabled kind begins.
Begin(r, kind, state) ==
  /\ kind \in Kinds
  /\ request[r].at = "idle"
  /\ request' = [request EXCEPT ![r] = Holding(Holding(Idle, [kind |-> kind]), state)]

\* A request goes on with what it now holds.
Goto(r, from, state) ==
  /\ request[r].at = from
  /\ request' = [request EXCEPT ![r] = Holding(@, state)]

-------------------------------------------------------------------------------
(* The guards of a request that carries an access token. *)

\* JwtAuthGuard: the token has not expired and its session is not marked.
CanActivate(a) == now < a.signed + AccessTtl /\ now >= mark[a.session]

\* PendingPasswordGuard: only some routes take a token that must change its password.
MayUse(a, allowsPendingPassword) ==
  CanActivate(a) /\ (a.mustChangePassword => allowsPendingPassword)

-------------------------------------------------------------------------------
(* The repository. *)

Held == {r \in Requests : request[r].copy # NoSession}
FreshTokens ==
  {t \in Tokens : tokens[t] = NoToken /\ \A r \in Held : t \notin DOMAIN request[r].copy.tokens}
FreshSessions ==
  {s \in SessionIds : sessions[s] = NoRow /\ \A r \in Held : request[r].copy.id # s}

\* A generated id, which one of the fresh ones it is means nothing.
GeneratedId(fresh) == IF fresh = {} THEN {} ELSE {CHOOSE id \in fresh : TRUE}

\* The aggregate of a row and of some of its tokens.
Loaded(s, ts) ==
  [id |-> s, user |-> sessions[s].user, status |-> sessions[s].status, end |-> sessions[s].end,
   tokens |-> [t \in ts |-> [status |-> tokens[t].status, expires |-> tokens[t].expires]]]

ActiveTokens(s) == {t \in Tokens : tokens[t].session = s /\ tokens[t].status = "ACTIVE"}

\* The token rows once the copy is written over them.
SavedTokens(copy) ==
  [t \in Tokens |->
     IF t \in DOMAIN copy.tokens
       THEN [session |-> copy.id, status |-> copy.tokens[t].status,
             expires |-> copy.tokens[t].expires]
       ELSE tokens[t]]

\* The superseded rows are written first, so only the outcome can break the index.
BreaksIndex(copy) ==
  Cardinality({t \in Tokens : /\ SavedTokens(copy)[t].session = copy.id
                              /\ SavedTokens(copy)[t].status = "ACTIVE"}) > 1

\* save: the session row and the rows of the tokens of the copy, or a refusal.
Saved(copy) ==
  /\ sessions' = [sessions EXCEPT ![copy.id] =
                    [user |-> copy.user, status |-> copy.status, end |-> copy.end]]
  /\ tokens' = SavedTokens(copy)
  /\ UNCHANGED users

Save(r, from, state, refused) ==
  LET copy == request[r].copy IN
  /\ request[r].at = from
  /\ UNCHANGED <<now, mark, access>>
  /\ IF BreaksIndex(copy)
       THEN Goto(r, from, [at |-> refused]) /\ UNCHANGED rows
       ELSE Goto(r, from, state) /\ Saved(copy)

-------------------------------------------------------------------------------
(* Login: AuthenticateUserUseCase. *)

VerifyCredentials(r, u, password) ==
  /\ Verifies(users[u], password)
  /\ Begin(r, "login", [at |-> "verified", user |-> u])
  /\ UNCHANGED <<now, rows, mark, access>>

\* GetUserById, which finds no deleted row, and then the session in memory.
StartSession(r) ==
  LET u == request[r].user IN
  /\ request[r].at = "verified"
  /\ IF CanAuthenticate(users[u])
       THEN \E s \in GeneratedId(FreshSessions), t \in GeneratedId(FreshTokens) :
              Goto(r, "verified",
                   [at |-> "started", account |-> users[u], copy |-> Start(s, u, t, now)])
       ELSE Goto(r, "verified", [at |-> "refused"])
  /\ UNCHANGED <<now, rows, mark, access>>

SaveStarted(r) == Save(r, "started", [at |-> "known"], "refused")

Sign(r) ==
  /\ Goto(r, "known", [at |-> "done"])
  /\ access' = access \cup {[user |-> request[r].user, session |-> request[r].copy.id,
                             mustChangePassword |-> request[r].account.mustChangePassword,
                             signed |-> now]}
  /\ UNCHANGED <<now, rows, mark>>

-------------------------------------------------------------------------------
(* Refresh: RefreshSessionUseCase. *)

\* findByRefreshTokenHash, then rotateRefreshToken on the copy.
PresentToken(r, t) ==
  LET found == Loaded(tokens[t].session, {t})
      refusal == Refusal(found, t, now) IN
  /\ tokens[t] # NoToken
  /\ \E new \in GeneratedId(FreshTokens) :
       Begin(r, "refresh",
         [at |-> CASE refusal = "none" -> "rotated" [] refusal = "reuse" -> "reuse"
                   [] OTHER -> "refused",
          user |-> found.user, copy |-> Rotate(found, t, new, now), presented |-> t,
          since |-> now])
  /\ UNCHANGED <<now, rows, mark, access>>

SaveRotated(r) == Save(r, "rotated", [at |-> "saved"], "refused")

\* The user is read after the save; a deleted one fails the refresh.
ReadUser(r) ==
  LET u == request[r].user IN
  /\ request[r].at = "saved"
  /\ Goto(r, "saved", IF CanAuthenticate(users[u]) THEN [at |-> "known", account |-> users[u]]
                                                   ELSE [at |-> "refused"])
  /\ UNCHANGED <<now, rows, mark, access>>

SaveReuse(r) ==
  Save(r, "reuse", [at |-> "marking", revoked |-> {request[r].copy.id}], "refused")

-------------------------------------------------------------------------------
(* Revocations. *)

\* RevokeSession, by the owner or by somebody with sessions:revoke-any: findById
\* loads the row and its ACTIVE tokens.
FindSession(r, s) ==
  /\ sessions[s] # NoRow
  /\ \/ \E a \in access : a.user = sessions[s].user /\ MayUse(a, FALSE)
     \/ Staff
  /\ Begin(r, "revoke", [at |-> "revoking", user |-> sessions[s].user,
                         copy |-> Revoke(Loaded(s, ActiveTokens(s)))])
  /\ UNCHANGED <<now, rows, mark, access>>

SaveRevoked(r) ==
  Save(r, "revoking", [at |-> "marking", revoked |-> {request[r].copy.id}], "refused")

Logout(r, u) ==
  /\ \E a \in access : a.user = u /\ MayUse(a, TRUE)
  /\ Begin(r, "logout", [at |-> "revoking all", user |-> u])
  /\ UNCHANGED <<now, rows, mark, access>>

ActiveSessions(u) == {s \in SessionIds : sessions[s].user = u /\ sessions[s].status = "ACTIVE"}

\* revokeAllActiveByUserId, one transaction over the rows as they are.
RevokeAllActiveByUserId(r) ==
  LET out == ActiveSessions(request[r].user) IN
  /\ Goto(r, "revoking all", [at |-> IF out = {} THEN "done" ELSE "marking", revoked |-> out])
  /\ sessions' = [s \in SessionIds |->
                    IF s \in out THEN [sessions[s] EXCEPT !.status = "REVOKED"] ELSE sessions[s]]
  /\ tokens' = [t \in Tokens |->
                  IF tokens[t].session \in out THEN RevokeToken(tokens[t]) ELSE tokens[t]]
  /\ UNCHANGED <<now, users, mark, access>>

\* Mutation: a session that is already marked keeps its mark.
MarkOnce(r) ==
  /\ Goto(r, "marking", [at |-> IF request[r].kind = "refresh" THEN "refused" ELSE "done",
                         since |-> now])
  /\ mark' = [s \in SessionIds |->
                IF s \in request[r].revoked /\ mark[s] = 0 THEN now + AccessTtl ELSE mark[s]]
  /\ UNCHANGED <<now, rows, access>>

\* The marks live as long as an access token signed at this moment would.
Mark(r) ==
  /\ Goto(r, "marking", [at |-> IF request[r].kind = "refresh" THEN "refused" ELSE "done",
                         since |-> now])
  /\ mark' = [s \in SessionIds |->
                IF s \in request[r].revoked THEN now + AccessTtl ELSE mark[s]]
  /\ UNCHANGED <<now, rows, access>>

-------------------------------------------------------------------------------
(* What ends every session of a user. *)

\* DeactivateUser, by staff: the row is read whole, changed and written whole.
ReadToDeactivate(r, u) ==
  /\ Staff
  /\ Begin(r, "deactivate", [at |-> "writing user", user |-> u, account |-> Deactivate(users[u])])
  /\ UNCHANGED <<now, rows, mark, access>>

\* ChangePassword: the current password is verified against the row read.
ReadToChangePassword(r, u, current, new) ==
  /\ \E a \in access : a.user = u /\ MayUse(a, TRUE)
  /\ users[u].password = current
  /\ Begin(r, "change password",
           [at |-> "writing user", user |-> u, account |-> ChangePassword(users[u], new)])
  /\ UNCHANGED <<now, rows, mark, access>>

SaveUser(r) ==
  /\ Goto(r, "writing user", [at |-> "revoking all"])
  /\ users' = [users EXCEPT ![request[r].user] = request[r].account]
  /\ UNCHANGED <<now, sessions, tokens, mark, access>>

-------------------------------------------------------------------------------
Ended == {"idle", "done", "refused", "stopped"}

\* The process stops, or a call fails, between two steps: nothing takes over.
Stop(r) ==
  /\ MayStop
  /\ request[r].at \notin Ended
  /\ request' = [request EXCEPT ![r].at = "stopped"]
  /\ UNCHANGED <<now, rows, mark, access>>

Tick ==
  /\ now < MaxTime
  /\ now' = now + 1
  /\ UNCHANGED <<rows, mark, access, request>>

Login(r) ==
  \/ \E u \in Users, p \in Passwords : VerifyCredentials(r, u, p)
  \/ StartSession(r) \/ SaveStarted(r) \/ Sign(r)

Refresh(r) ==
  \/ \E t \in Tokens : PresentToken(r, t)
  \/ SaveRotated(r) \/ ReadUser(r) \/ SaveReuse(r)

Revocation(r) ==
  \/ \E s \in SessionIds : FindSession(r, s)
  \/ \E u \in Users : Logout(r, u) \/ ReadToDeactivate(r, u)
  \/ \E u \in Users, p, q \in Passwords : ReadToChangePassword(r, u, p, q)
  \/ SaveRevoked(r) \/ SaveUser(r) \/ RevokeAllActiveByUserId(r) \/ Mark(r)

SessionsNext == Tick \/ \E r \in Requests : Login(r) \/ Refresh(r) \/ Revocation(r) \/ Stop(r)

SessionsSpec == SessionsInit /\ [][SessionsNext]_sessionsVars

-------------------------------------------------------------------------------
(* Properties. *)

\* The types of the rows and of what the requests hold.
SessionsTypeOK ==
  /\ now \in 0 .. MaxTime
  /\ \A u \in Users : IsUser(users[u])
  /\ \A s \in SessionIds : sessions[s] = NoRow
       \/ sessions[s] \in [user : Users, status : SessionStatus, end : Nat]
  /\ \A t \in Tokens : tokens[t] = NoToken
       \/ tokens[t] \in [session : SessionIds, status : RefreshTokenStatus, expires : Nat]
  /\ mark \in [SessionIds -> Nat]
  /\ access \subseteq [user : Users, session : SessionIds, mustChangePassword : BOOLEAN,
                       signed : Nat]
  /\ \A r \in Requests : request[r].kind \in AllKinds \cup {"none"}

\* A session that is ACTIVE always has exactly one ACTIVE refresh token, and
\* that token belongs to it alone: no order of stale saves, revocations and
\* stopped requests leaves a session signed in that nobody can refresh, or
\* splits it into two lines of tokens.
ActiveSessionHasOneToken ==
  \A s \in SessionIds : sessions[s].status = "ACTIVE" => Cardinality(ActiveTokens(s)) = 1

Exchanged(r) == request[r].kind = "refresh" /\ request[r].at \in {"saved", "known", "done"}

\* Of two refreshes that present the same token at the same time only one gets
\* a new pair, unless the session was revoked and saved back in between: the
\* index refuses the second, although both read the token ACTIVE.
OneExchangePerToken ==
  \A r1, r2 \in Requests :
    r1 # r2 /\ Exchanged(r1) /\ Exchanged(r2) /\ request[r1].presented = request[r2].presented
      => \E r \in Requests : request[r1].copy.id \in request[r].revoked

Finished(r) == request[r].at = "done" /\ request[r].revoked # {}

\* Once a logout, a revocation, a deactivation or a password change has been
\* answered, no access token signed until then opens a request on a session it
\* revoked, for as long as that token would have lived.
AccessEndsWithTheAnswer ==
  \A r \in Requests, a \in access :
    Finished(r) /\ a.session \in request[r].revoked /\ a.signed <= request[r].since
      => ~CanActivate(a)

\* A session past its absolute end cannot be refreshed however recently it was
\* used: no refresh token outlives its session.
NoTokenOutlivesSession ==
  \A t \in Tokens : tokens[t] # NoToken => tokens[t].expires <= sessions[tokens[t].session].end

\* No order of logins, refreshes, revocations and stops leaves a session in
\* two lines of tokens, gives two new pairs for one token, lets a token outlive
\* its session, or lets an access token in after the revocation was answered.
SessionsAreSafe ==
  /\ SessionsTypeOK
  /\ ActiveSessionHasOneToken
  /\ OneExchangePerToken
  /\ AccessEndsWithTheAnswer
  /\ NoTokenOutlivesSession
===============================================================================
