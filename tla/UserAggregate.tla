---------------------------- MODULE UserAggregate ----------------------------
(***************************************************************************)
(* The user account as a value: what the aggregate and its value objects   *)
(* do to one row of users.  A name, an email, a document and a password    *)
(* are members of small sets; an invalid one never becomes a value object, *)
(* so only the decisions between valid ones are left.  deletedAt is set    *)
(* exactly when the status becomes INACTIVE, so status stands for both.    *)
(***************************************************************************)
EXTENDS Naturals

CONSTANTS
  Emails, Documents,  \* values of the two unique columns
  Passwords           \* passwords a person may choose or type

UserStatus == {"ACTIVE", "INACTIVE"}

IsUser(u) ==
  u \in [email : Emails, document : Documents, password : Passwords,
         status : UserStatus, mustChangePassword : BOOLEAN]

\* A staff-created account gets a generated password it has to change.
Register(email, document, password, temporary) ==
  [email |-> email, document |-> document, password |-> password,
   status |-> "ACTIVE", mustChangePassword |-> temporary]

ChangePassword(u, password) ==
  [u EXCEPT !.password = password, !.mustChangePassword = FALSE]

UpdateProfile(u, email, document) == [u EXCEPT !.email = email, !.document = document]

Deactivate(u) == [u EXCEPT !.status = "INACTIVE"]

CanAuthenticate(u) == u.status = "ACTIVE"

\* VerifyCredentials of a row found by its email: a deleted row is not found.
Verifies(u, password) == CanAuthenticate(u) /\ u.password = password
===============================================================================
