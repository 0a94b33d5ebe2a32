----------------------------- MODULE Registration -----------------------------
(***************************************************************************)
(* What the registration of customers promises, whatever fails on the way: *)
(* an opened account becomes the account of a customer, or is used by      *)
(* somebody, or is gone again.  A customer keeps the account it has.       *)
(***************************************************************************)
CONSTANT Registrations

VARIABLE account   \* the account each registration opens

RegistrationInit == account = [r \in Registrations |-> "none"]

Moves(r, from, to) ==
  /\ account[r] \in from
  /\ account' = [account EXCEPT ![r] = to]

Open(r) == Moves(r, {"none"}, "opened")
Use(r) == Moves(r, {"opened"}, "used")
Register(r) == Moves(r, {"opened", "used"}, "customer")
Discard(r) == Moves(r, {"opened"}, "none")

Settle(r) == Use(r) \/ Register(r) \/ Discard(r)

RegistrationNext == \E r \in Registrations : Open(r) \/ Settle(r)

RegistrationSpec ==
  /\ RegistrationInit /\ [][RegistrationNext]_account
  /\ \A r \in Registrations : WF_account(account[r] = "opened" /\ Settle(r))

\* The same without its liveness.
RegistrationSafety == RegistrationInit /\ [][RegistrationNext]_account
===============================================================================
