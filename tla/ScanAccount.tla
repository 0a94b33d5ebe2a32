----------------------------- MODULE ScanAccount -----------------------------
(***************************************************************************)
(* The preparation of a security scan (security/scripts/prepare.ts): the   *)
(* application is brought up, migrated and seeded when that was asked for, *)
(* and an account with an administrative role is signed in, created and    *)
(* promoted over the API when it is not there.                             *)
(*                                                                         *)
(* A request may fail before the application does what it asks, or after,  *)
(* when only the answer is lost: the deadline of 15 seconds cannot tell.   *)
(* What an interrupted preparation leaves behind, the next one finds.      *)
(***************************************************************************)
EXTENDS Naturals

CONSTANTS
  Authentication,  \* authentication.enabled of security.config.json
  MaxRuns,         \* bound: the preparations begun
  MaxFaults        \* bound: requests and commands that fail, roles taken, crashes

\* What an instance must make of the constants.
AccountAssumption ==
  /\ Authentication \in BOOLEAN
  /\ MaxRuns \in Nat
  /\ MaxFaults \in Nat

VARIABLES
  server,   \* [up, migrated, seeded]
  account,  \* [exists, role]: the scan account, and whether it holds the role
  prep,     \* the preparation
  left      \* what the bounds leave: [runs, faults]

vars == <<server, account, prep, left>>

\* `start`: --prepare was given; `userId`: the account's is known; `trouble`: something
\* failed; `credentials`: whether the preparation hands on a token.
Idle == [at |-> "idle", start |-> FALSE, userId |-> FALSE, trouble |-> FALSE,
         credentials |-> FALSE]

Init ==
  /\ server \in {s \in [up : BOOLEAN, migrated : BOOLEAN, seeded : BOOLEAN] :
                   s.seeded => s.migrated}
  /\ account = [exists |-> FALSE, role |-> FALSE]
  /\ prep = Idle
  /\ left = [runs |-> MaxRuns, faults |-> MaxFaults]

\* What `prep` becomes: at the next step, or done.
Goes(step) == [prep EXCEPT !.at = step]
Ends(credentials) == [prep EXCEPT !.at = "done", !.credentials = credentials]
Troubled(p) == [p EXCEPT !.trouble = TRUE]

Fault == /\ left.faults > 0
         /\ left' = [left EXCEPT !.faults = @ - 1]

\* A request or a command goes wrong: a fault, unless nothing is there to answer.
Fails(p) == /\ IF server.up THEN Fault ELSE UNCHANGED left
            /\ prep' = Troubled(p)

\* It is answered.
Works(p) == /\ server.up
            /\ prep' = p
            /\ UNCHANGED left

(***************************************************************************)
(* The environment.                                                        *)
(***************************************************************************)
\* Between two preparations the application stops, its data is dropped, or an
\* administrator takes the role back.
Upset ==
  /\ prep.at \in {"idle", "done"}
  /\ Fault
  /\ \/ server' = [server EXCEPT !.up = FALSE] /\ UNCHANGED account
     \/ /\ server' = [server EXCEPT !.migrated = FALSE, !.seeded = FALSE]
        /\ account' = [exists |-> FALSE, role |-> FALSE]
     \/ account' = [account EXCEPT !.role = FALSE] /\ UNCHANGED server
  /\ prep' = Idle

Crash ==
  /\ prep.at \notin {"idle", "done"}
  /\ Fault
  /\ prep' = Idle
  /\ UNCHANGED <<server, account>>

(***************************************************************************)
(* prepareEnvironment.                                                     *)
(***************************************************************************)
Begin(start) ==
  /\ prep.at \in {"idle", "done"}
  /\ left.runs > 0
  /\ left' = [left EXCEPT !.runs = @ - 1]
  /\ prep' = [Idle EXCEPT !.at = "application", !.start = start]
  /\ UNCHANGED <<server, account>>

\* The application answers.
ApplicationIsUp ==
  /\ prep.at = "application"
  /\ Works(Goes(IF prep.start THEN "migrations" ELSE "account"))
  /\ UNCHANGED <<server, account>>

\* It does not: without --prepare that is the end; with it, the stack is brought
\* up, or cannot be, or has not answered after 90 seconds, which is ignored.
ApplicationIsDown ==
  /\ prep.at = "application"
  /\ \/ Fails(Ends(FALSE)) /\ ~prep.start /\ UNCHANGED server
     \/ /\ prep.start
        /\ server' = [server EXCEPT !.up = TRUE]
        /\ prep' = Goes("migrations")
        /\ IF server.up THEN Fault ELSE UNCHANGED left
     \/ /\ prep.start
        /\ Fault
        /\ prep' \in {Troubled(Ends(FALSE)), Troubled(Goes("migrations"))}
        /\ UNCHANGED server
  /\ UNCHANGED account

\* A command of --prepare: its failure is noted, and gone on with.
Command(step, next, done) ==
  /\ prep.at = step
  /\ \/ Works(Goes(next)) /\ server' = done
     \/ Fails(Goes(next)) /\ UNCHANGED server
  /\ UNCHANGED account

Migrations == Command("migrations", "seed", [server EXCEPT !.migrated = TRUE])

Seed == Command("seed", "account", [server EXCEPT !.seeded = server.migrated])

ScanAccountStep ==
  /\ prep.at = "account"
  /\ prep' = IF Authentication THEN Goes("signIn") ELSE Ends(FALSE)
  /\ UNCHANGED <<server, account, left>>

(***************************************************************************)
(* ensureScanUser.                                                         *)
(***************************************************************************)
SignIn ==
  /\ prep.at = "signIn"
  /\ \/ Works(Goes(IF account.exists THEN "me" ELSE "bootstrap"))
     \/ Fails(Goes("bootstrap"))
  /\ UNCHANGED <<server, account>>

Me ==
  /\ prep.at = "me"
  /\ \/ Works(IF account.role THEN Ends(TRUE) ELSE [Goes("bootstrap") EXCEPT !.userId = TRUE])
     \/ Fails(Goes("bootstrap"))
  /\ UNCHANGED <<server, account>>

Bootstrap ==
  /\ prep.at = "bootstrap"
  /\ \/ Works(IF server.seeded THEN Goes(IF prep.userId THEN "roles" ELSE "register")
                               ELSE Troubled(Ends(FALSE)))
     \/ Fails(Ends(FALSE))
  /\ UNCHANGED <<server, account>>

\* An account that is there already is refused, as is its document.
Register ==
  /\ prep.at = "register"
  /\ \/ /\ Works(IF account.exists THEN Ends(FALSE) ELSE [Goes("roles") EXCEPT !.userId = TRUE])
        /\ account' = [account EXCEPT !.exists = TRUE]
     \/ /\ Fails(Ends(FALSE))
        /\ account' \in {account, [account EXCEPT !.exists = server.up]}
  /\ UNCHANGED server

Roles ==
  /\ prep.at = "roles"
  /\ Works(Goes("grant")) \/ Fails(Ends(FALSE))
  /\ UNCHANGED <<server, account>>

Grant ==
  /\ prep.at = "grant"
  /\ \/ Works(Goes("signInAgain")) /\ account' = [account EXCEPT !.role = TRUE]
     \/ /\ Fails(Ends(FALSE))
        /\ account' \in {account, [account EXCEPT !.role = server.up]}
  /\ UNCHANGED server

SignInAgain ==
  /\ prep.at = "signInAgain"
  /\ Works(Ends(TRUE)) \/ Fails(Ends(FALSE))
  /\ UNCHANGED <<server, account>>

Step ==
  \/ ApplicationIsUp \/ ApplicationIsDown \/ Migrations \/ Seed \/ ScanAccountStep
  \/ SignIn \/ Me \/ Bootstrap \/ Register \/ Roles \/ Grant \/ SignInAgain

Next ==
  \/ \E start \in BOOLEAN : Begin(start)
  \/ Step
  \/ Upset
  \/ Crash

Spec == Init /\ [][Next]_vars

(***************************************************************************)
(* Properties.                                                             *)
(***************************************************************************)
Places == {"idle", "application", "migrations", "seed", "account", "signIn", "me", "bootstrap",
           "register", "roles", "grant", "signInAgain", "done"}

\* Types, and that data is there only on the schema it needs.
TypeOK ==
  /\ server \in [up : BOOLEAN, migrated : BOOLEAN, seeded : BOOLEAN]
  /\ account \in [exists : BOOLEAN, role : BOOLEAN]
  /\ server.seeded => server.migrated
  /\ account.role => account.exists
  /\ account.exists => server.seeded
  /\ prep.at \in Places
  /\ left \in [runs : 0..MaxRuns, faults : 0..MaxFaults]

\* A token that is handed to the dynamic scan reaches the administrative routes:
\* the account holds the role, whatever an earlier run left half done.
CredentialsReach == prep.at = "done" /\ prep.credentials => account.role

\* What an interrupted preparation left never stops a later one: when nothing
\* goes wrong, the account is signed in.
NothingLeftIsInTheWay ==
  prep.at = "done" /\ Authentication /\ ~prep.trouble => prep.credentials

\* All that the dynamic scan relies on.
PreparationHolds == TypeOK /\ CredentialsReach /\ NothingLeftIsInTheWay
===============================================================================

