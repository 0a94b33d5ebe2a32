------------------------- MODULE CustomerRegistration -------------------------
(***************************************************************************)
(* Registrations of customers that open a new account: a saga across two   *)
(* modules.  A registration arms a discard step, opens the account in      *)
(* identity, and then disarms the step and saves the customer in one       *)
(* transaction; when that fails it discards the account itself.  Workers   *)
(* claim the steps that are due and discard the accounts.  Meanwhile a     *)
(* person may log in to an opened account, and another registration may    *)
(* make a customer of it.                                                  *)
(***************************************************************************)
EXTENDS Naturals, FiniteSets

CONSTANTS
  Registrations, Emails,
  EmailOf,      \* the email each registration gives
  Workers,      \* claims that may be worked on at once
  NoStep,       \* no claim
  MaxAttempts,  \* OUTBOX_MAX_ATTEMPTS
  FaultKinds,   \* the faults that may happen
  MaxFaults     \* bound: how many of them happen

ASSUME RegistrationAssumption ==
  /\ EmailOf \in [Registrations -> Emails]
  /\ MaxAttempts \in Nat \ {0} /\ MaxFaults \in Nat
  /\ NoStep \notin Registrations

VARIABLES
  accounts,   \* the registrations whose account has a row in users
  logins,     \* those whose account has a row in sessions
  customers,  \* whose customer has the account: "none", "own" or "other"
  status,     \* customer_account_steps: the status of the step of each registration
  due,        \* whether its due_at has passed
  attempts,   \* how often it was claimed
  at,         \* where the request of each registration is
  claim,      \* the step each worker holds
  working,    \* where each worker is
  faults      \* how many faults have happened

tables == <<accounts, logins, customers>>
outbox == <<status, due, attempts>>
workers == <<claim, working>>
vars == <<tables, outbox, at, workers, faults>>

Init ==
  /\ accounts = {} /\ logins = {}
  /\ customers = [r \in Registrations |-> "none"]
  /\ status = [r \in Registrations |-> "NONE"]
  /\ due = [r \in Registrations |-> FALSE]
  /\ attempts = [r \in Registrations |-> 0]
  /\ at = [r \in Registrations |-> "idle"]
  /\ claim = [k \in Workers |-> NoStep]
  /\ working = [k \in Workers |-> "idle"]
  /\ faults = 0

\* "crash", a process stops; "error", a call fails without effect; "lost
\* answer", a call takes effect and seems to fail; "stall", a grace period or a
\* lease ends while its holder is still at work.
Fault(kind) == kind \in FaultKinds /\ faults < MaxFaults /\ faults' = faults + 1

Goes(r, from, to) == at[r] = from /\ at' = [at EXCEPT ![r] = to]

Unclosed == {"ARMED", "PENDING"}

SetStatus(r, from, to) ==
  status' = [status EXCEPT ![r] = IF status[r] \in from THEN to ELSE status[r]]

-------------------------------------------------------------------------------
(* The accounts, in identity, and the customers. *)

OpenAccount(r) == accounts' = accounts \cup {r} /\ UNCHANGED <<logins, customers>>
Taken(r) == \E q \in accounts : EmailOf[q] = EmailOf[r]

InUse(r) == r \in logins \/ customers[r] # "none"

\* Mutation: a discard takes an account whoever uses it.
DiscardAny(r) == accounts' = accounts \ {r} /\ UNCHANGED <<logins, customers>>

\* discard: an account in use throws; one that does not exist is already gone.
DiscardAccount(r) ==
  /\ ~InUse(r)
  /\ accounts' = accounts \ {r} /\ UNCHANGED <<logins, customers>>

\* save: the key of the account is resolved, and one customer has it.
SaveCustomer(r, owner) ==
  /\ r \in accounts /\ customers[r] = "none"
  /\ customers' = [customers EXCEPT ![r] = owner]

-------------------------------------------------------------------------------
(* The request: RegisterCustomerUseCase.registerWithNewAccount. *)

Arm(r) ==
  /\ \/ Goes(r, "idle", "armed") /\ UNCHANGED faults
     \/ Goes(r, "idle", "done") /\ Fault("lost answer")
  /\ status' = [status EXCEPT ![r] = "ARMED"]
  /\ UNCHANGED <<tables, due, attempts, workers>>

Open(r) ==
  /\ \/ Goes(r, "armed", "opened") /\ ~Taken(r) /\ OpenAccount(r) /\ UNCHANGED faults
     \/ Goes(r, "armed", "failing") /\ ~Taken(r) /\ OpenAccount(r) /\ Fault("lost answer")
     \/ Goes(r, "armed", "failing") /\ Taken(r) /\ UNCHANGED <<tables, faults>>
     \/ Goes(r, "armed", "failing") /\ Fault("error") /\ UNCHANGED tables
  /\ UNCHANGED <<outbox, workers>>

\* One transaction: disarm and save.
RegisterOwn(r) ==
  /\ status[r] = "ARMED"
  /\ SaveCustomer(r, "own")
  /\ status' = [status EXCEPT ![r] = "DONE"]
  /\ UNCHANGED <<accounts, logins, due, attempts>>

Commit(r) ==
  /\ \/ Goes(r, "opened", "done") /\ RegisterOwn(r) /\ UNCHANGED faults
     \/ Goes(r, "opened", "failing") /\ RegisterOwn(r) /\ Fault("lost answer")
     \/ Goes(r, "opened", "failing") /\ Fault("error") /\ UNCHANGED <<tables, outbox>>
     \/ /\ Goes(r, "opened", "failing")
        /\ status[r] # "ARMED" \/ r \notin accounts \/ customers[r] # "none"
        /\ UNCHANGED <<tables, outbox, faults>>
  /\ UNCHANGED workers

Compensate(r) ==
  /\ \/ Goes(r, "failing", "discarded") /\ DiscardAccount(r) /\ UNCHANGED faults
     \/ Goes(r, "failing", "handing") /\ DiscardAccount(r) /\ Fault("lost answer")
     \/ Goes(r, "failing", "handing") /\ InUse(r) /\ UNCHANGED <<tables, faults>>
     \/ Goes(r, "failing", "handing") /\ Fault("error") /\ UNCHANGED tables
  /\ UNCHANGED <<outbox, workers>>

Complete(r) ==
  /\ \/ Goes(r, "discarded", "done") /\ SetStatus(r, Unclosed, "DONE") /\ UNCHANGED faults
     \/ Goes(r, "discarded", "handing") /\ Fault("error") /\ UNCHANGED status
  /\ UNCHANGED <<tables, due, attempts, workers>>

\* Mutation: a step the request could not finish is marked done.
HandToNobody(r) ==
  /\ Goes(r, "handing", "done") /\ SetStatus(r, Unclosed, "DONE")
  /\ UNCHANGED <<tables, due, attempts, workers, faults>>

\* release makes an armed step due now, and leaves a claimed one alone.
HandToProcessor(r) ==
  /\ \/ /\ Goes(r, "handing", "done") /\ UNCHANGED faults
        /\ due' = [due EXCEPT ![r] = due[r] \/ status[r] = "ARMED"]
        /\ SetStatus(r, {"ARMED"}, "PENDING")
     \/ Goes(r, "handing", "done") /\ Fault("error") /\ UNCHANGED <<status, due>>
  /\ UNCHANGED <<tables, attempts, workers>>

Running(r) == at[r] \notin {"idle", "done"}

RequestStops(r) ==
  /\ Running(r) /\ Fault("crash")
  /\ at' = [at EXCEPT ![r] = "done"]
  /\ UNCHANGED <<tables, outbox, workers>>

-------------------------------------------------------------------------------
(* What others do with an opened account. *)

Login(r) ==
  /\ r \in accounts /\ r \notin logins
  /\ logins' = logins \cup {r}
  /\ UNCHANGED <<accounts, customers, outbox, at, workers, faults>>

RegisterOverExistingUser(r) ==
  /\ SaveCustomer(r, "other")
  /\ UNCHANGED <<accounts, logins, outbox, at, workers, faults>>

-------------------------------------------------------------------------------
(* The workers: AccountStepApplier and AccountStepProcessor. *)

Claim(k, r) ==
  /\ working[k] = "idle"
  /\ status[r] \in Unclosed /\ due[r]
  /\ status' = [status EXCEPT ![r] = "PENDING"]
  /\ due' = [due EXCEPT ![r] = FALSE]
  /\ attempts' = [attempts EXCEPT ![r] = attempts[r] + 1]
  /\ claim' = [claim EXCEPT ![k] = r]
  /\ working' = [working EXCEPT ![k] = "claimed"]
  /\ UNCHANGED <<tables, at, faults>>

WorkGoes(k, from, to) ==
  /\ working[k] = from
  /\ working' = [working EXCEPT ![k] = to] /\ UNCHANGED claim

Apply(k) ==
  /\ \/ WorkGoes(k, "claimed", "applied") /\ DiscardAccount(claim[k]) /\ UNCHANGED faults
     \/ WorkGoes(k, "claimed", "failed") /\ DiscardAccount(claim[k]) /\ Fault("lost answer")
     \/ WorkGoes(k, "claimed", "failed") /\ InUse(claim[k]) /\ UNCHANGED <<tables, faults>>
     \/ WorkGoes(k, "claimed", "failed") /\ Fault("error") /\ UNCHANGED tables
  /\ UNCHANGED <<outbox, at>>

Released(k) == claim' = [claim EXCEPT ![k] = NoStep] /\ working' = [working EXCEPT ![k] = "idle"]

CompleteStep(k) ==
  /\ \/ working[k] = "applied" /\ SetStatus(claim[k], Unclosed, "DONE") /\ Released(k) /\ UNCHANGED faults
     \/ WorkGoes(k, "applied", "failed") /\ Fault("error") /\ UNCHANGED status
  /\ UNCHANGED <<tables, due, attempts, at>>

\* recordFailure with the next delay, or markFailed at the attempt limit.
Fail(k) ==
  LET r == claim[k]
      exhausted == attempts[r] >= MaxAttempts
  IN
  /\ working[k] = "failed"
  /\ IF exhausted THEN SetStatus(r, Unclosed, "FAILED") /\ UNCHANGED due
     ELSE UNCHANGED status /\ due' = [due EXCEPT ![r] = due[r] \/ status[r] \in Unclosed]
  /\ Released(k)
  /\ UNCHANGED <<tables, attempts, at, faults>>

WorkerStops(k) ==
  /\ working[k] # "idle" /\ Fault("crash")
  /\ Released(k)
  /\ UNCHANGED <<tables, outbox, at>>

-------------------------------------------------------------------------------
(* Time. *)

\* Somebody still works on a step: the request that armed it, or a claim.
Held(r) == (status[r] = "ARMED" /\ Running(r)) \/ \E k \in Workers : claim[k] = r

FallsDue(r) ==
  /\ status[r] \in Unclosed /\ ~due[r]
  /\ due' = [due EXCEPT ![r] = TRUE]
  /\ UNCHANGED <<tables, status, attempts, at, workers>>

TimePasses(r) == ~Held(r) /\ FallsDue(r) /\ UNCHANGED faults
TimeOutruns(r) == Held(r) /\ FallsDue(r) /\ Fault("stall")

Request(r) == Open(r) \/ Commit(r) \/ Compensate(r) \/ Complete(r) \/ HandToProcessor(r)
Work(k) == (\E r \in Registrations : Claim(k, r)) \/ Apply(k) \/ CompleteStep(k) \/ Fail(k)

Next ==
  \/ \E r \in Registrations :
       \/ Arm(r) \/ Request(r) \/ RequestStops(r)
       \/ Login(r) \/ RegisterOverExistingUser(r)
       \/ TimePasses(r) \/ TimeOutruns(r)
  \/ \E k \in Workers : Work(k) \/ WorkerStops(k)

Spec == Init /\ [][Next]_vars

\* A request that has started goes on, the processor goes on polling and
\* applying, and the clock goes on.
Fairness ==
  /\ \A r \in Registrations : WF_vars(Request(r)) /\ WF_vars(TimePasses(r))
  /\ \A k \in Workers : WF_vars(Work(k))

FairSpec == Spec /\ Fairness

-------------------------------------------------------------------------------
(* Properties. *)

\* The columns of the tables and the places of the requests and the workers.
TypeOK ==
  /\ accounts \subseteq Registrations /\ logins \subseteq Registrations
  /\ customers \in [Registrations -> {"none", "own", "other"}]
  /\ status \in [Registrations -> {"NONE", "ARMED", "PENDING", "DONE", "FAILED"}]
  /\ due \in [Registrations -> BOOLEAN]
  /\ attempts \in [Registrations -> Nat]
  /\ at \in [Registrations -> {"idle", "armed", "opened", "failing", "discarded", "handing", "done"}]
  /\ claim \in [Workers -> Registrations \cup {NoStep}]
  /\ working \in [Workers -> {"idle", "claimed", "applied", "failed"}]
  /\ \A k \in Workers : working[k] = "idle" <=> claim[k] = NoStep
  /\ faults \in Nat

\* A customer and a session always have their account: no discard, by the
\* request or by a worker and however late, takes an account that is in use.
UsedAccountsExist ==
  \A r \in Registrations : InUse(r) => r \in accounts

Quiet ==
  /\ \A r \in Registrations : ~Running(r) /\ status[r] \notin Unclosed
  /\ \A k \in Workers : working[k] = "idle"

\* What the promise calls the account of a registration.
AccountState ==
  [r \in Registrations |->
     IF customers[r] # "none" THEN "customer"
     ELSE IF r \in logins THEN "used"
     ELSE IF r \in accounts THEN "opened"
     ELSE "none"]

\* The saga keeps the promise of Registration: a customer keeps the account it
\* has, and an account that is opened does not stay opened for ever, unless a
\* step fails for good.
Promise == INSTANCE Registration WITH account <- AccountState
KeepsPromise == Promise!RegistrationSpec
KeepsPromiseSafely == Promise!RegistrationSafety
===============================================================================
