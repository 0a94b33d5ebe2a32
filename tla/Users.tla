-------------------------------- MODULE Users --------------------------------
(***************************************************************************)
(* Accounts under concurrent requests.  A request reads a row, decides on  *)
(* the copy and saves every column of it: register, update, change the     *)
(* password, deactivate.  Discarding an opened account deletes the row     *)
(* unless a session or a customer points at it.  The database keeps the    *)
(* two partial unique indexes and the foreign keys.                        *)
(***************************************************************************)
EXTENDS UserAggregate, FiniteSets

CONSTANTS
  AccountIds,
  FirstAccounts,    \* accounts at the start: a function from some AccountIds to their rows
  Generated,        \* the password the system generates for a staff account
  Keep,             \* a field an update does not carry
  NoUser,           \* no row
  AccountRequests,  \* requests that may be in flight at once
  AccountOps        \* what they may do, of AllAccountOps

AllAccountOps == {"register", "update", "password", "deactivate", "discard", "login", "refer"}

\* A password is pending exactly while it is the generated one.
PendingFits(u) == u.mustChangePassword <=> u.password = Generated

\* What an instance must make of the constants: the accounts at the start are as
\* registrations leave them.
UsersAssumption ==
  /\ AccountOps \subseteq AllAccountOps /\ Generated \in Passwords /\ ~IsUser(NoUser)
  /\ DOMAIN FirstAccounts \subseteq AccountIds
  /\ \A i \in DOMAIN FirstAccounts : IsUser(FirstAccounts[i]) /\ PendingFits(FirstAccounts[i])
  /\ \A i, j \in DOMAIN FirstAccounts :
       /\ CanAuthenticate(FirstAccounts[i]) /\ CanAuthenticate(FirstAccounts[j])
       /\ \/ FirstAccounts[i].email = FirstAccounts[j].email
          \/ FirstAccounts[i].document = FirstAccounts[j].document
       => i = j

VARIABLES
  accounts,   \* the rows of users
  carries,    \* the accounts with a row of user_roles for CUSTOMER
  signedIn,   \* the accounts a row of sessions points at
  customers,  \* the accounts a row of customers points at
  saving      \* where each request is and the copy it holds

accountVars == <<accounts, carries, signedIn, customers, saving>>

Unasked == [at |-> "idle", op |-> "none", id |-> "none", copy |-> NoUser]

UsersInit ==
  /\ accounts = [i \in AccountIds |->
                   IF i \in DOMAIN FirstAccounts THEN FirstAccounts[i] ELSE NoUser]
  /\ carries = DOMAIN FirstAccounts
  /\ signedIn = {} /\ customers = {}
  /\ saving = [r \in AccountRequests |-> Unasked]

Registered == {i \in AccountIds : accounts[i] # NoUser}
Live == {i \in Registered : CanAuthenticate(accounts[i])}

\* The partial unique indexes: a row against the other live rows.
Breaks(id, row) ==
  /\ CanAuthenticate(row)
  /\ \E i \in Live \ {id} : accounts[i].email = row.email \/ accounts[i].document = row.document

Take(r, op, id, at, copy) ==
  /\ saving[r].at = "idle"
  /\ op \in AccountOps
  /\ saving' = [saving EXCEPT ![r] = [at |-> at, op |-> op, id |-> id, copy |-> copy]]

Reply(r, at) == saving' = [saving EXCEPT ![r] = [@ EXCEPT !.at = at, !.copy = NoUser]]

Advance(r, at, copy) == saving' = [saving EXCEPT ![r] = [@ EXCEPT !.at = at, !.copy = copy]]

-------------------------------------------------------------------------------
(* Registration: RegisterUserUseCase. *)

CheckRegister(r, id, email, document, staff) ==
  /\ accounts[id] = NoUser /\ \A q \in AccountRequests : saving[q].id # id
  /\ \E password \in IF staff THEN {Generated} ELSE Passwords \ {Generated} :
       LET row == Register(email, document, password, staff) IN
       Take(r, "register", id, IF Breaks(id, row) THEN "refused" ELSE "save", row)
  /\ UNCHANGED <<accounts, carries, signedIn, customers>>

\* One transaction: the row and its role, or neither.
SaveRegistered(r) ==
  LET req == saving[r] IN
  /\ req.at = "save" /\ req.op = "register"
  /\ UNCHANGED <<signedIn, customers>>
  /\ IF Breaks(req.id, req.copy)
       THEN Reply(r, "refused") /\ UNCHANGED <<accounts, carries>>
       ELSE /\ Reply(r, "done")
            /\ accounts' = [accounts EXCEPT ![req.id] = req.copy]
            /\ carries' = carries \cup {req.id}

-------------------------------------------------------------------------------
(* Read, change the copy, save every column of it. *)

\* findById answers a deactivated account like any other.
ReadAccount(r, op, id) ==
  /\ op \in {"update", "password", "deactivate"}
  /\ Take(r, op, id, IF accounts[id] = NoUser THEN "refused" ELSE "read", accounts[id])
  /\ UNCHANGED <<accounts, carries, signedIn, customers>>

\* The email and the document are looked up among the live rows of others.
CheckProfile(r) ==
  LET req == saving[r] IN
  /\ req.at = "read" /\ req.op = "update"
  /\ \E email \in Emails \cup {Keep}, document \in Documents \cup {Keep} :
       LET taken == \E i \in Live \ {req.id} :
                      accounts[i].email = email \/ accounts[i].document = document
       IN IF taken THEN Reply(r, "refused")
          ELSE Advance(r, "save", UpdateProfile(req.copy,
                 IF email = Keep THEN req.copy.email ELSE email,
                 IF document = Keep THEN req.copy.document ELSE document))
  /\ UNCHANGED <<accounts, carries, signedIn, customers>>

CheckPassword(r) ==
  LET req == saving[r] IN
  /\ req.at = "read" /\ req.op = "password"
  /\ \E current \in Passwords, new \in Passwords \ {Generated} :
       IF req.copy.password # current THEN Reply(r, "refused")
       ELSE Advance(r, "save", ChangePassword(req.copy, new))
  /\ UNCHANGED <<accounts, carries, signedIn, customers>>

MarkInactive(r) ==
  LET req == saving[r] IN
  /\ req.at = "read" /\ req.op = "deactivate"
  /\ Advance(r, "save", Deactivate(req.copy))
  /\ UNCHANGED <<accounts, carries, signedIn, customers>>

\* save: the row is found again by its id and overwritten, or inserted when it
\* is gone; only the indexes stand in the way.
SaveAccount(r) ==
  LET req == saving[r] IN
  /\ req.at = "save" /\ req.op \in {"update", "password", "deactivate"}
  /\ UNCHANGED <<carries, signedIn, customers>>
  /\ IF Breaks(req.id, req.copy)
       THEN Reply(r, "refused") /\ UNCHANGED accounts
       ELSE Reply(r, "done") /\ accounts' = [accounts EXCEPT ![req.id] = req.copy]

-------------------------------------------------------------------------------
(* Discarding an opened account, and what makes an account in use. *)

CheckSessions(r, id) ==
  /\ Take(r, "discard", id, IF id \in signedIn THEN "refused" ELSE "save", NoUser)
  /\ UNCHANGED <<accounts, carries, signedIn, customers>>

\* Mutation: the delete takes whatever points at the row along.
DeleteInUse(r) ==
  LET req == saving[r] IN
  /\ req.at = "save" /\ req.op = "discard"
  /\ Reply(r, "done")
  /\ accounts' = [accounts EXCEPT ![req.id] = NoUser] /\ carries' = carries \ {req.id}
  /\ UNCHANGED <<signedIn, customers>>

\* The role goes with the row; a session or a customer refuses the delete.
DeleteUser(r) ==
  LET req == saving[r] IN
  /\ req.at = "save" /\ req.op = "discard"
  /\ UNCHANGED <<signedIn, customers>>
  /\ IF req.id \in signedIn \cup customers
       THEN Reply(r, "refused") /\ UNCHANGED <<accounts, carries>>
       ELSE /\ Reply(r, "done")
            /\ accounts' = [accounts EXCEPT ![req.id] = NoUser]
            /\ carries' = carries \ {req.id}

\* A login finds the live row of an email and verifies the password; a customer
\* is opened over an account that GetUserById finds.
FindAccount(r, op, id) ==
  /\ op \in {"login", "refer"}
  /\ Take(r, op, id, IF id \in Live THEN "save" ELSE "refused", NoUser)
  /\ UNCHANGED <<accounts, carries, signedIn, customers>>

\* The internal key is resolved again: no row, no reference.
SaveReference(r) ==
  LET req == saving[r] IN
  /\ req.at = "save" /\ req.op \in {"login", "refer"}
  /\ Reply(r, IF req.id \in Registered THEN "done" ELSE "refused")
  /\ signedIn' = signedIn \cup ({req.id} \cap (IF req.op = "login" THEN Registered ELSE {}))
  /\ customers' = customers \cup ({req.id} \cap (IF req.op = "refer" THEN Registered ELSE {}))
  /\ UNCHANGED <<accounts, carries>>

-------------------------------------------------------------------------------
Asks(r, id) ==
  \/ \E email \in Emails, document \in Documents, staff \in BOOLEAN :
       CheckRegister(r, id, email, document, staff)
  \/ \E op \in AccountOps : ReadAccount(r, op, id) \/ FindAccount(r, op, id)
  \/ CheckSessions(r, id)

GoesOn(r) ==
  \/ SaveRegistered(r) \/ CheckProfile(r) \/ CheckPassword(r) \/ MarkInactive(r)
  \/ SaveAccount(r) \/ DeleteUser(r) \/ SaveReference(r)

UsersNext == \E r \in AccountRequests : GoesOn(r) \/ \E id \in AccountIds : Asks(r, id)

UsersSpec == UsersInit /\ [][UsersNext]_accountVars

-------------------------------------------------------------------------------
(* Properties. *)

\* The types of the tables.
UsersTypeOK ==
  /\ \A i \in AccountIds : accounts[i] = NoUser \/ IsUser(accounts[i])
  /\ carries \subseteq Registered
  /\ \A r \in AccountRequests : saving[r].copy = NoUser \/ IsUser(saving[r].copy)

\* Whatever stale copy is saved over whatever row, no email and no document
\* belongs to two accounts that can sign in.
EmailsAndDocumentsAreUnique ==
  \A i, j \in Live :
    accounts[i].email = accounts[j].email \/ accounts[i].document = accounts[j].document => i = j

\* An account somebody logged into or a customer is opened over is never
\* deleted by a discard that looked before.
AccountInUseStays == signedIn \cup customers \subseteq Registered

\* A password is pending exactly while it is the generated one, whichever of a
\* change and a stale save comes last.
PendingIsTemporary == \A i \in Registered : PendingFits(accounts[i])

\* Stale saves of accounts never give two live ones an email or a document,
\* lose an account in use, or keep a generated password without its duty to change.
AccountsAreSafe ==
  UsersTypeOK /\ EmailsAndDocumentsAreUnique /\ AccountInUseStays /\ PendingIsTemporary

===============================================================================
