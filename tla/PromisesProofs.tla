--------------------------- MODULE PromisesProofs ----------------------------
(*****************************************************************************)
(* Theorems about the components MCPromises runs beside one another - the    *)
(* customer registration, the connection pool and the readiness probe - and  *)
(* about the board MCReports runs.  Each is proved from its own              *)
(* specification, for every value of its constants.                          *)
(*****************************************************************************)
EXTENDS CustomerRegistration, ConnectionPool, Readiness, WorkOrderBoard, SumLemmas, TLAPS

-------------------------------------------------------------------------------
(*****************************************************************************)
(* The customer registration, for every set of registrations, emails and     *)
(* workers, and any number and kind of faults: an account in use exists, and *)
(* the saga implements the safety of Registration.                           *)
(*****************************************************************************)

\* All that a step of the saga does with the tables.
TablesMove(r) ==
  \/ r \notin accounts /\ OpenAccount(r)
  \/ DiscardAccount(r)
  \/ (SaveCustomer(r, "own") \/ SaveCustomer(r, "other")) /\ UNCHANGED <<accounts, logins>>
  \/ r \in accounts /\ logins' = logins \cup {r} /\ UNCHANGED <<accounts, customers>>

-------------------------------------------------------------------------------
(* What the steps do with the tables. *)

LEMMA RequestMovesTables ==
  ASSUME TypeOK, NEW r \in Registrations, Arm(r) \/ Request(r) \/ RequestStops(r)
  PROVE  UNCHANGED tables \/ TablesMove(r)
<1> USE DEF tables, TablesMove
<1>1. CASE Arm(r) \/ RequestStops(r)
  BY <1>1 DEF Arm, RequestStops
<1>2. CASE Open(r)
  <2>1. ~Taken(r) => r \notin accounts
    BY DEF Taken
  <2> QED BY <1>2, <2>1 DEF Open
<1>3. CASE Commit(r)
  BY <1>3 DEF Commit, RegisterOwn
<1>4. CASE Compensate(r)
  BY <1>4 DEF Compensate
<1>5. CASE Complete(r) \/ HandToProcessor(r)
  BY <1>5 DEF Complete, HandToProcessor
<1> QED BY <1>1, <1>2, <1>3, <1>4, <1>5 DEF Request

LEMMA WorkerMovesTables ==
  ASSUME TypeOK, NEW k \in Workers, Work(k) \/ WorkerStops(k)
  PROVE  UNCHANGED tables \/ \E r \in Registrations : TablesMove(r)
<1> USE DEF tables
<1>1. CASE Apply(k)
  <2>1. claim[k] \in Registrations
    BY <1>1 DEF Apply, WorkGoes, TypeOK
  <2> QED BY <1>1, <2>1 DEF Apply, TablesMove
<1>2. CASE CompleteStep(k) \/ Fail(k) \/ WorkerStops(k) \/ \E r \in Registrations : Claim(k, r)
  BY <1>2 DEF CompleteStep, Fail, WorkerStops, Claim
<1> QED BY <1>1, <1>2 DEF Work

LEMMA StepMovesTables ==
  TypeOK /\ [Next]_vars => UNCHANGED tables \/ \E r \in Registrations : TablesMove(r)
<1> SUFFICES ASSUME TypeOK, [Next]_vars
             PROVE  UNCHANGED tables \/ \E r \in Registrations : TablesMove(r)
  OBVIOUS
<1>1. CASE UNCHANGED vars
  BY <1>1 DEF vars, tables
<1>2. ASSUME NEW r \in Registrations, Login(r) \/ RegisterOverExistingUser(r)
      PROVE  TablesMove(r)
  BY <1>2 DEF Login, RegisterOverExistingUser, TablesMove
<1>3. ASSUME NEW r \in Registrations, TimePasses(r) \/ TimeOutruns(r)
      PROVE  UNCHANGED tables
  BY <1>3 DEF TimePasses, TimeOutruns, FallsDue, tables
<1> QED BY <1>1, <1>2, <1>3, RequestMovesTables, WorkerMovesTables DEF Next

-------------------------------------------------------------------------------
(* Type correctness, of the tables from what the steps do with them. *)

TablesType ==
  /\ accounts \subseteq Registrations /\ logins \subseteq Registrations
  /\ customers \in [Registrations -> {"none", "own", "other"}]

OutboxType ==
  /\ status \in [Registrations -> {"NONE", "ARMED", "PENDING", "DONE", "FAILED"}]
  /\ due \in [Registrations -> BOOLEAN]
  /\ attempts \in [Registrations -> Nat]

ActorsType ==
  /\ at \in [Registrations -> {"idle", "armed", "opened", "failing", "discarded", "handing", "done"}]
  /\ claim \in [Workers -> Registrations \cup {NoStep}]
  /\ working \in [Workers -> {"idle", "claimed", "applied", "failed"}]
  /\ \A k \in Workers : working[k] = "idle" <=> claim[k] = NoStep
  /\ faults \in Nat

LEMMA PartsOfTypeOK == TypeOK <=> TablesType /\ OutboxType /\ ActorsType
  BY DEF TypeOK, TablesType, OutboxType, ActorsType

LEMMA InitType == Init => TypeOK
  BY RegistrationAssumption DEF Init, TypeOK

LEMMA MoveKeepsTablesType ==
  ASSUME TablesType, NEW r \in Registrations, TablesMove(r)
  PROVE  TablesType'
  BY DEF TablesMove, OpenAccount, DiscardAccount, SaveCustomer, TablesType

\* The columns of the outbox hold a status, a flag and a number.
LEMMA RequestKeepsOutboxType ==
  ASSUME OutboxType, NEW r \in Registrations, Arm(r) \/ Request(r) \/ RequestStops(r)
  PROVE  OutboxType'
<1> USE DEF outbox, OutboxType
<1>1. CASE Arm(r)
  BY <1>1 DEF Arm
<1>2. CASE Open(r) \/ RequestStops(r) \/ Compensate(r)
  BY <1>2 DEF Open, RequestStops, Compensate
<1>3. CASE Commit(r)
  BY <1>3 DEF Commit, RegisterOwn
<1>4. CASE Complete(r)
  BY <1>4 DEF Complete, SetStatus
<1>5. CASE HandToProcessor(r)
  BY <1>5 DEF HandToProcessor, SetStatus
<1> QED BY <1>1, <1>2, <1>3, <1>4, <1>5 DEF Request

LEMMA RequestKeepsActorsType ==
  ASSUME ActorsType, NEW r \in Registrations, Arm(r) \/ Request(r) \/ RequestStops(r)
  PROVE  ActorsType'
<1> USE DEF workers, Goes, Fault
<1>1. UNCHANGED workers
  BY DEF Arm, Request, Open, Commit, Compensate, Complete, HandToProcessor, RequestStops
<1>2. faults' = faults \/ faults' = faults + 1
  BY DEF Arm, Request, Open, Commit, Compensate, Complete, HandToProcessor, RequestStops
<1>3. \E to \in {"armed", "opened", "failing", "discarded", "handing", "done"} :
        at' = [at EXCEPT ![r] = to]
  BY DEF Arm, Request, Open, Commit, Compensate, Complete, HandToProcessor, RequestStops
<1> QED BY <1>1, <1>2, <1>3 DEF ActorsType

LEMMA WorkerKeepsOutboxType ==
  ASSUME OutboxType, NEW k \in Workers, Work(k) \/ WorkerStops(k)
  PROVE  OutboxType'
<1> USE DEF outbox, OutboxType
<1>1. ASSUME NEW r \in Registrations, Claim(k, r) PROVE OutboxType'
  BY <1>1 DEF Claim
<1>2. CASE Apply(k) \/ WorkerStops(k)
  BY <1>2 DEF Apply, WorkerStops
<1>3. CASE CompleteStep(k)
  BY <1>3 DEF CompleteStep, SetStatus
<1>4. CASE Fail(k)
  BY <1>4 DEF Fail, SetStatus
<1> QED BY <1>1, <1>2, <1>3, <1>4 DEF Work

LEMMA WorkerKeepsActorsType ==
  ASSUME ActorsType, NEW k \in Workers, Work(k) \/ WorkerStops(k)
  PROVE  ActorsType'
<1> USE RegistrationAssumption DEF Released, WorkGoes
<1>1. at' = at
  BY DEF Work, Claim, Apply, CompleteStep, Fail, WorkerStops
<1>2. faults' = faults \/ faults' = faults + 1
  BY DEF Work, Claim, Apply, CompleteStep, Fail, WorkerStops, Fault
<1>3. \/ \E r \in Registrations : /\ claim' = [claim EXCEPT ![k] = r]
                                  /\ working' = [working EXCEPT ![k] = "claimed"]
      \/ Released(k)
      \/ /\ working[k] # "idle" /\ claim' = claim
         /\ \E to \in {"applied", "failed"} : working' = [working EXCEPT ![k] = to]
  BY DEF Work, Claim, Apply, CompleteStep, Fail, WorkerStops
<1> QED BY <1>1, <1>2, <1>3 DEF ActorsType

LEMMA TimeKeepsTypes ==
  ASSUME OutboxType, ActorsType, NEW r \in Registrations, TimePasses(r) \/ TimeOutruns(r)
  PROVE  OutboxType' /\ ActorsType'
<1>1. FallsDue(r) /\ (faults' = faults \/ faults' = faults + 1)
  BY DEF TimePasses, TimeOutruns, Fault
<1>2. OutboxType'
  BY <1>1 DEF FallsDue, OutboxType
<1>3. ActorsType'
  BY <1>1 DEF FallsDue, ActorsType, workers
<1> QED BY <1>2, <1>3

LEMMA StepType == TypeOK /\ [Next]_vars => TypeOK'
<1> SUFFICES ASSUME TypeOK, [Next]_vars PROVE TypeOK'
  OBVIOUS
<1>1. TablesType /\ OutboxType /\ ActorsType
  BY PartsOfTypeOK
<1>2. TablesType'
  BY <1>1, StepMovesTables, MoveKeepsTablesType DEF TablesType, tables
<1>3. OutboxType' /\ ActorsType'
  <2>1. CASE UNCHANGED vars
    BY <1>1, <2>1 DEF vars, outbox, workers, OutboxType, ActorsType
  <2>2. ASSUME NEW r \in Registrations, Login(r) \/ RegisterOverExistingUser(r)
        PROVE  OutboxType' /\ ActorsType'
    BY <1>1, <2>2
    DEF Login, RegisterOverExistingUser, outbox, workers, OutboxType, ActorsType
  <2> QED BY <1>1, <2>1, <2>2, TimeKeepsTypes, RequestKeepsOutboxType, RequestKeepsActorsType,
             WorkerKeepsOutboxType, WorkerKeepsActorsType DEF Next
<1>4. TypeOK' <=> TablesType' /\ OutboxType' /\ ActorsType'
  BY DEF TypeOK, TablesType, OutboxType, ActorsType
<1> QED BY <1>2, <1>3, <1>4

-------------------------------------------------------------------------------
(* An account in use exists, and the tables move as Registration says. *)

LEMMA MoveKeepsUsedAccounts ==
  ASSUME TypeOK, UsedAccountsExist, NEW r \in Registrations, TablesMove(r)
  PROVE  UsedAccountsExist'
  BY DEF TablesMove, OpenAccount, DiscardAccount, SaveCustomer, InUse, UsedAccountsExist, TypeOK

LEMMA StepUsedAccounts == TypeOK /\ UsedAccountsExist /\ [Next]_vars => UsedAccountsExist'
<1> SUFFICES ASSUME TypeOK, UsedAccountsExist, [Next]_vars PROVE UsedAccountsExist'
  OBVIOUS
<1>1. CASE UNCHANGED tables
  BY <1>1 DEF tables, UsedAccountsExist, InUse
<1> QED BY <1>1, StepMovesTables, MoveKeepsUsedAccounts

LEMMA MoveIsPromised ==
  ASSUME TypeOK, UsedAccountsExist, NEW r \in Registrations, TablesMove(r)
  PROVE  Promise!RegistrationNext \/ UNCHANGED AccountState
<1>1. \A q \in Registrations : AccountState[q] =
        IF customers[q] # "none" THEN "customer"
        ELSE IF q \in logins THEN "used" ELSE IF q \in accounts THEN "opened" ELSE "none"
  BY DEF AccountState
<1>2. \A q \in Registrations : AccountState'[q] =
        IF customers'[q] # "none" THEN "customer"
        ELSE IF q \in logins' THEN "used" ELSE IF q \in accounts' THEN "opened" ELSE "none"
  BY DEF AccountState
<1>3. \A q \in Registrations \ {r} : AccountState'[q] = AccountState[q]
  BY <1>1, <1>2 DEF TablesMove, OpenAccount, DiscardAccount, SaveCustomer, TypeOK
<1>4. AccountState' = [AccountState EXCEPT ![r] = AccountState'[r]]
  BY <1>3 DEF AccountState
<1>5. CASE r \notin accounts /\ OpenAccount(r)
  <2>1. AccountState[r] = "none" /\ AccountState'[r] = "opened"
    BY <1>1, <1>2, <1>5 DEF OpenAccount, UsedAccountsExist, InUse
  <2> QED BY <1>4, <2>1 DEF Promise!RegistrationNext, Promise!Open, Promise!Moves
<1>6. CASE DiscardAccount(r)
  <2>1. AccountState[r] \in {"opened", "none"} /\ AccountState'[r] = "none"
    BY <1>1, <1>2, <1>6 DEF DiscardAccount, InUse
  <2>2. CASE AccountState[r] = "opened"
    BY <1>4, <2>1, <2>2
    DEF Promise!RegistrationNext, Promise!Settle, Promise!Discard, Promise!Moves
  <2>3. CASE AccountState[r] = "none"
    BY <1>4, <2>1, <2>3 DEF AccountState
  <2> QED BY <2>1, <2>2, <2>3
<1>7. CASE (SaveCustomer(r, "own") \/ SaveCustomer(r, "other")) /\ UNCHANGED <<accounts, logins>>
  <2>1. AccountState[r] \in {"opened", "used"} /\ AccountState'[r] = "customer"
    BY <1>1, <1>2, <1>7 DEF SaveCustomer, TypeOK
  <2> QED BY <1>4, <2>1
          DEF Promise!RegistrationNext, Promise!Settle, Promise!Register, Promise!Moves
<1>8. CASE r \in accounts /\ logins' = logins \cup {r} /\ UNCHANGED <<accounts, customers>>
  <2>1. CASE AccountState[r] = "opened"
    <3>1. AccountState'[r] = "used"
      BY <1>1, <1>2, <1>8, <2>1
    <3> QED BY <1>4, <2>1, <3>1
            DEF Promise!RegistrationNext, Promise!Settle, Promise!Use, Promise!Moves
  <2>2. CASE AccountState[r] # "opened"
    <3>1. AccountState'[r] = AccountState[r]
      BY <1>1, <1>2, <1>8, <2>2
    <3> QED BY <1>4, <3>1 DEF AccountState
  <2> QED BY <2>1, <2>2
<1> QED BY <1>5, <1>6, <1>7, <1>8 DEF TablesMove

-------------------------------------------------------------------------------
(* The theorems. *)

\* The tables, the requests and the workers are always what TypeOK says.
THEOREM RegistrationTypes == Spec => []TypeOK
<1>1. Init => TypeOK
  BY InitType
<1>2. TypeOK /\ [Next]_vars => TypeOK'
  BY StepType
<1> QED BY <1>1, <1>2, PTL DEF Spec

\* No discard, by a request or by a worker and however late or often, takes an
\* account that somebody is logged in to or that belongs to a customer.
THEOREM UsedAccountsStay == Spec => []UsedAccountsExist
<1>1. Init => UsedAccountsExist
  BY DEF Init, UsedAccountsExist, InUse
<1>2. TypeOK /\ UsedAccountsExist /\ [Next]_vars => UsedAccountsExist'
  BY StepUsedAccounts
<1> QED BY <1>1, <1>2, RegistrationTypes, PTL DEF Spec

\* The saga implements the safety of Registration: each step of it opens,
\* uses, registers or discards one account as the promise allows, or leaves
\* them all as they are; a customer keeps the account it has.
THEOREM SagaKeepsPromise == Spec => KeepsPromiseSafely
<1>1. Init => Promise!RegistrationInit
  BY DEF Init, Promise!RegistrationInit, AccountState
<1>2. TypeOK /\ UsedAccountsExist /\ [Next]_vars => [Promise!RegistrationNext]_AccountState
  <2> SUFFICES ASSUME TypeOK, UsedAccountsExist, [Next]_vars
               PROVE  Promise!RegistrationNext \/ UNCHANGED AccountState
    OBVIOUS
  <2>1. CASE UNCHANGED tables
    BY <2>1 DEF tables, AccountState
  <2> QED BY <2>1, StepMovesTables, MoveIsPromised
<1> QED BY <1>1, <1>2, RegistrationTypes, UsedAccountsStay, PTL
        DEF Spec, KeepsPromiseSafely, Promise!RegistrationSafety

-------------------------------------------------------------------------------
(*****************************************************************************)
(* The connection pool, for every set of requests, connections and items, and *)
(* every mix of kinds.                                                       *)
(*****************************************************************************)

Opens == {"run", "own", "begin"}
Ends == {"commit", "rollback"}

\* What is left to do inside a transaction: nothing opens another one, it ends
\* with the last step, and where its manager is not the ambient one, no query
\* asks for that manager.
Inside(published, p) ==
  /\ p # <<>> /\ p[Len(p)] \in Ends
  /\ \A j \in 1 .. Len(p) :
       /\ p[j] \notin {"run", "begin"}
       /\ ~published => p[j] \in {"lock"} \cup Ends
       /\ p[j] \in Ends => j = Len(p)

\* What is left to do outside of one: only a transaction that is opened ends.
Outside(p) ==
  /\ \A j \in 1 .. Len(p) :
       p[j] \in Ends => j = Len(p) /\ \E i \in 1 .. Len(p) : p[i] \in Opens
  /\ \A i, j \in 1 .. Len(p) :
       i < j /\ p[i] \in Opens =>
         /\ p[Len(p)] \in Ends
         /\ p[j] \notin {"run", "begin"}
         /\ p[i] = "begin" => p[j] \in {"lock"} \cup Ends
  /\ \A i \in 1 .. Len(p) : p[i] \in Opens => i < Len(p)

LEMMA ProgramsAreSteps ==
  ASSUME NEW k \in AllKinds
  PROVE Program[k] \in Seq(AllSteps) /\ Program[k] # <<>> /\ Outside(Program[k])
<1>1. AllKinds = {"SaveItem", "ConsumeStockBatch", "RestoreStockBatch", "UndoConsumption",
                  "SaveWorkOrder", "CloseWithdrawal", "SaveSession", "SaveRole",
                  "RegisterCustomer", "RegisterOverExistingUser", "RegisterUser"}
  BY DEF AllKinds, Program
<1>2. CASE k = "SaveItem"
  <2>1. Program[k] = <<"query", "own", "lock", "read", "commit">>
    BY <1>2 DEF Program
  <2> QED BY <2>1 DEF AllSteps, Outside, Opens, Ends
<1>3. CASE k = "ConsumeStockBatch"
  <2>1. Program[k] = <<"run", "lock", "own", "read", "commit">>
    BY <1>3 DEF Program
  <2> QED BY <2>1 DEF AllSteps, Outside, Opens, Ends
<1>4. CASE k = "RestoreStockBatch"
  <2>1. Program[k] = <<"run", "lock", "read", "own", "read", "commit">>
    BY <1>4 DEF Program
  <2> QED BY <2>1 DEF AllSteps, Outside, Opens, Ends
<1>5. CASE k = "UndoConsumption"
  <2>1. Program[k] = <<"read", "run", "lock", "read", "own", "read", "commit">>
    BY <1>5 DEF Program
  <2> QED BY <2>1 DEF AllSteps, Outside, Opens, Ends
<1>6. CASE k = "SaveWorkOrder"
  <2>1. Program[k] = <<"query", "read", "own", "commit">>
    BY <1>6 DEF Program
  <2> QED BY <2>1 DEF AllSteps, Outside, Opens, Ends
<1>7. CASE k = "CloseWithdrawal"
  <2>1. Program[k] = <<"run", "read", "own", "read", "commit">>
    BY <1>7 DEF Program
  <2> QED BY <2>1 DEF AllSteps, Outside, Opens, Ends
<1>8. CASE k = "SaveSession"
  <2>1. Program[k] = <<"query", "begin", "commit">>
    BY <1>8 DEF Program
  <2> QED BY <2>1 DEF AllSteps, Outside, Opens, Ends
<1>9. CASE k = "SaveRole"
  <2>1. Program[k] = <<"query", "begin", "commit">>
    BY <1>9 DEF Program
  <2> QED BY <2>1 DEF AllSteps, Outside, Opens, Ends
<1>10. CASE k = "RegisterCustomer"
  <2>1. Program[k] = <<"run", "read", "commit">>
    BY <1>10 DEF Program
  <2> QED BY <2>1 DEF AllSteps, Outside, Opens, Ends
<1>11. CASE k = "RegisterOverExistingUser"
  <2>1. Program[k] = <<"run", "read", "query", "read", "commit">>
    BY <1>11 DEF Program
  <2> QED BY <2>1 DEF AllSteps, Outside, Opens, Ends
<1>12. CASE k = "RegisterUser"
  <2>1. Program[k] = <<"query", "run", "read", "query", "read", "query", "read", "commit">>
    BY <1>12 DEF Program
  <2> QED BY <2>1 DEF AllSteps, Outside, Opens, Ends
<1> QED BY <1>1, <1>2, <1>3, <1>4, <1>5, <1>6, <1>7, <1>8, <1>9, <1>10, <1>11, <1>12

LEMMA TailOfSteps ==
  ASSUME NEW p \in Seq(AllSteps), p # <<>>
  PROVE  /\ Len(p) \in Nat \ {0} /\ Head(p) = p[1] /\ Head(p) \in AllSteps
         /\ Tail(p) \in Seq(AllSteps) /\ Len(Tail(p)) = Len(p) - 1
         /\ \A i \in 1 .. Len(p) - 1 : Tail(p)[i] = p[i + 1]
         /\ Tail(p) = <<>> <=> Len(p) = 1
<1>1. Len(p) \in Nat \ {0} /\ p[1] \in AllSteps /\ Head(p) = p[1]
  OBVIOUS
<1>2. Tail(p) \in Seq(AllSteps) /\ Len(Tail(p)) = Len(p) - 1
  OBVIOUS
<1>3. \A i \in 1 .. Len(p) - 1 : Tail(p)[i] = p[i + 1]
  OBVIOUS
<1>4. \A q \in Seq(AllSteps) : Len(q) = 0 => q = <<>>
  OBVIOUS
<1>5. Tail(p) = <<>> <=> Len(Tail(p)) = 0
  <2>1. Len(Tail(p)) = 0 => Tail(p) = <<>>
    BY <1>2, <1>4
  <2>2. Len(<<>>) = 0
    OBVIOUS
  <2>3. Tail(p) = <<>> => Len(Tail(p)) = 0
    BY <2>2, Zenon
  <2> QED BY <2>1, <2>3
<1> QED BY <1>1, <1>2, <1>3, <1>5

\* The steps before the last one leave a request in its transaction.
LEMMA TailInside ==
  ASSUME NEW p \in Seq(AllSteps), NEW published \in BOOLEAN, Inside(published, p),
         Head(p) \notin Ends
  PROVE  Tail(p) # <<>> /\ Inside(published, Tail(p))
<1>1. p # <<>> /\ Len(p) > 1
  BY TailOfSteps DEF Inside
<1> QED BY <1>1, TailOfSteps DEF Inside

LEMMA LastInside ==
  ASSUME NEW p \in Seq(AllSteps), NEW published \in BOOLEAN, Inside(published, p),
         Head(p) \in Ends
  PROVE  Tail(p) = <<>>
  BY TailOfSteps DEF Inside

\* A step that opens nothing leaves a request outside, and none of them ends
\* a transaction.
LEMMA TailOutside ==
  ASSUME NEW p \in Seq(AllSteps), p # <<>>, Outside(p), Head(p) \notin Opens
  PROVE  Head(p) \notin Ends /\ Outside(Tail(p))
<1>1. Head(p) \notin Ends
  BY TailOfSteps DEF Outside
<1>2. ASSUME NEW j \in 1 .. Len(Tail(p)), Tail(p)[j] \in Ends
      PROVE  j = Len(Tail(p)) /\ \E i \in 1 .. Len(Tail(p)) : Tail(p)[i] \in Opens
  <2>1. p[j + 1] \in Ends /\ j + 1 \in 1 .. Len(p)
    BY <1>2, TailOfSteps
  <2>2. j + 1 = Len(p) /\ \E i \in 1 .. Len(p) : p[i] \in Opens
    BY <2>1 DEF Outside
  <2>3. PICK i \in 1 .. Len(p) : p[i] \in Opens
    BY <2>2
  <2>4. i - 1 \in 1 .. Len(Tail(p)) /\ Tail(p)[i - 1] = p[i]
    BY <2>3, TailOfSteps
  <2> QED BY <2>2, <2>3, <2>4, TailOfSteps
<1>3. ASSUME NEW i \in 1 .. Len(Tail(p)), NEW j \in 1 .. Len(Tail(p)),
             i < j, Tail(p)[i] \in Opens
      PROVE  /\ Tail(p)[Len(Tail(p))] \in Ends /\ Tail(p)[j] \notin {"run", "begin"}
             /\ Tail(p)[i] = "begin" => Tail(p)[j] \in {"lock"} \cup Ends
  <2>1. /\ i + 1 \in 1 .. Len(p) /\ j + 1 \in 1 .. Len(p) /\ i + 1 < j + 1
        /\ Tail(p)[i] = p[i + 1] /\ Tail(p)[j] = p[j + 1] /\ Tail(p)[Len(Tail(p))] = p[Len(p)]
    BY <1>3, TailOfSteps
  <2> QED BY <1>3, <2>1 DEF Outside
<1>4. ASSUME NEW i \in 1 .. Len(Tail(p)), Tail(p)[i] \in Opens PROVE i < Len(Tail(p))
  <2>1. i + 1 \in 1 .. Len(p) /\ Tail(p)[i] = p[i + 1]
    BY <1>4, TailOfSteps
  <2>2. i + 1 < Len(p)
    BY <1>4, <2>1 DEF Outside
  <2> QED BY <2>2, TailOfSteps
<1> QED BY <1>1, <1>2, <1>3, <1>4 DEF Outside

\* The step that opens a transaction takes a request into it.
LEMMA TailOpens ==
  ASSUME NEW p \in Seq(AllSteps), p # <<>>, Outside(p), Head(p) \in Opens
  PROVE  Tail(p) # <<>> /\ Inside(Publishes(Head(p)), Tail(p))
<1>1. Len(p) > 1 /\ p[1] \in Opens
  BY TailOfSteps DEF Outside
<1>2. \A j \in 1 .. Len(p) - 1 :
        /\ Tail(p)[j] = p[j + 1] /\ j + 1 \in 1 .. Len(p) /\ 1 < j + 1
  BY TailOfSteps
<1>3. \A j \in 1 .. Len(p) - 1 :
        /\ p[j + 1] \notin {"run", "begin"}
        /\ p[1] = "begin" => p[j + 1] \in {"lock"} \cup Ends
        /\ p[j + 1] \in Ends => j + 1 = Len(p)
  BY <1>1, <1>2, TailOfSteps DEF Outside
<1>4. p[Len(p)] \in Ends
  BY <1>1, TailOfSteps DEF Outside
<1>5. ~Publishes(Head(p)) => p[1] = "begin"
  BY <1>1, TailOfSteps DEF Publishes, Opens
<1> QED BY <1>1, <1>2, <1>3, <1>4, <1>5, TailOfSteps DEF Inside

-------------------------------------------------------------------------------
(* The inductive invariant. *)

\* A request runs while it has steps left; it is inside a transaction while it
\* holds its connection, and outside otherwise.
Shape(r) ==
  /\ stage[r] = "running" <=> steps[r] # <<>>
  /\ tx[r] = None => ~ambient[r] /\ Outside(steps[r])
  /\ tx[r] # None => Inside(ambient[r], steps[r])

Asks(r) == conn[r] # None \/ r \in Range(waiting)

AskersNeed == \A r \in Requests : Asks(r) => steps[r] # <<>> /\ NeedsConnection(r)

QueueOK ==
  /\ \A i \in 1 .. Len(waiting) : conn[waiting[i]] = None
  /\ \A i, j \in 1 .. Len(waiting) : waiting[i] = waiting[j] => i = j

\* ConnectionsAreAccountedFor without the sets, and without what follows from
\* Shape and AskersNeed.
Accounted ==
  /\ \A c \in Connections : c \in free <=> \A r \in Requests : c # tx[r] /\ c # conn[r]
  /\ \A q, r \in Requests : q # r =>
       /\ tx[q] # None => tx[q] # tx[r] /\ tx[q] # conn[r]
       /\ conn[q] # None => conn[q] # conn[r]
  /\ \A r \in Requests : tx[r] # None => tx[r] # conn[r]
  /\ free # {} => waiting = <<>>

PoolInv == PoolTypeOK /\ (\A r \in Requests : Shape(r)) /\ AskersNeed /\ QueueOK /\ Accounted

LEMMA AccountedIsIt == PoolInv => ConnectionsAreAccountedFor
<1> SUFFICES ASSUME PoolInv PROVE ConnectionsAreAccountedFor
  OBVIOUS
<1>1. \A r \in Requests : stage[r] # "running" => tx[r] = None /\ conn[r] = None
  BY DEF PoolInv, Shape, AskersNeed, Asks, Inside
<1>2. \A r \in Requests : UsedBy(r) = {tx[r], conn[r]} \ {None}
  BY DEF UsedBy
<1>3. \A c \in Connections : c # None
  BY PoolAssumption
<1> QED BY <1>1, <1>2, <1>3 DEF PoolInv, Accounted, ConnectionsAreAccountedFor, PoolTypeOK

LEMMA InitPool == PoolInit => PoolInv
  BY PoolAssumption
  DEF PoolInit, PoolInv, PoolTypeOK, Shape, Outside, AskersNeed, Asks, Range, QueueOK, Accounted

-------------------------------------------------------------------------------
(* Steps. *)

\* A step of r, after which r neither holds a connection for a query nor waits.
Moved(r) ==
  /\ \A q \in Requests \ {r} :
       /\ stage'[q] = stage[q] /\ steps'[q] = steps[q]
       /\ ambient'[q] = ambient[q] /\ tx'[q] = tx[q]
       /\ Asks(q)' => Asks(q)
  /\ Shape(r)'
  /\ ~Asks(r)'

LEMMA MovedKeeps ==
  ASSUME PoolInv, NEW r \in Requests, Moved(r)
  PROVE  (\A q \in Requests : Shape(q)') /\ AskersNeed'
<1>1. ASSUME NEW q \in Requests \ {r} PROVE Shape(q)'
  BY <1>1 DEF PoolInv, Moved, Shape
<1>2. ASSUME NEW q \in Requests \ {r}, Asks(q)' PROVE steps'[q] # <<>> /\ NeedsConnection(q)'
  <2>1. steps[q] # <<>> /\ NeedsConnection(q)
    BY <1>2 DEF Moved, PoolInv, AskersNeed
  <2> QED BY <2>1 DEF Moved, NeedsConnection, JoinsAmbient, Next1
<1> QED BY <1>1, <1>2 DEF Moved, AskersNeed

\* A connection that comes back goes to the first who waits, or is idle.
LEMMA ReleaseKeeps ==
  ASSUME PoolInv, NEW r \in Requests, NEW c, c # None, Release(c, r), r \notin Range(waiting),
         \/ c = conn[r] /\ tx' = tx
         \/ c = tx[r] /\ conn[r] = None /\ tx' = [tx EXCEPT ![r] = None]
  PROVE  /\ conn' \in [Requests -> Connections \cup {None}]
         /\ free' \subseteq Connections /\ waiting' \in Seq(Requests)
         /\ QueueOK' /\ Accounted' /\ ~Asks(r)'
         /\ \A q \in Requests \ {r} : Asks(q)' => Asks(q)
<1>1. /\ conn \in [Requests -> Connections \cup {None}] /\ tx \in [Requests -> Connections \cup {None}]
      /\ free \subseteq Connections /\ waiting \in Seq(Requests) /\ c \in Connections
      /\ QueueOK /\ Accounted
  BY DEF PoolInv, PoolTypeOK
<1>2. /\ tx'[r] # c /\ \A q \in Requests \ {r} : tx'[q] = tx[q]
      /\ tx'[r] \in {tx[r], None}
  BY <1>1 DEF Accounted
<1>3. \A q \in Requests \ {r} : c # tx[q] /\ c # conn[q]
  BY <1>1 DEF Accounted
<1>4. c \notin free
  BY <1>1 DEF Accounted
<1>5. CASE waiting = <<>>
  <2>1. /\ free' = free \cup {c} /\ waiting' = waiting
        /\ conn'[r] = None /\ \A q \in Requests \ {r} : conn'[q] = conn[q]
        /\ conn' \in [Requests -> Connections \cup {None}]
    BY <1>1, <1>5 DEF Release
  <2>2. \A d \in Connections : d \in free' <=> \A q \in Requests : d # tx'[q] /\ d # conn'[q]
    <3>1. \A q \in Requests : c # tx'[q] /\ c # conn'[q]
      BY <1>2, <1>3, <2>1
    <3>2. ASSUME NEW d \in Connections \ {c}, NEW q \in Requests
          PROVE  (d # tx'[q] /\ d # conn'[q]) <=> (d # tx[q] /\ d # conn[q])
      <4>1. CASE q = r
        BY <1>1, <2>1, <4>1, PoolAssumption
      <4>2. CASE q # r
        BY <1>2, <2>1, <4>2
      <4> QED BY <4>1, <4>2
    <3> QED BY <1>1, <2>1, <3>1, <3>2 DEF Accounted
  <2>3. \A q, s \in Requests : q # s =>
          /\ tx'[q] # None => tx'[q] # tx'[s] /\ tx'[q] # conn'[s]
          /\ conn'[q] # None => conn'[q] # conn'[s]
    BY <1>1, <1>2, <2>1 DEF Accounted
  <2>4. \A q \in Requests : tx'[q] # None => tx'[q] # conn'[q]
    BY <1>1, <1>2, <2>1 DEF Accounted
  <2>5. Accounted'
    BY <1>5, <2>1, <2>2, <2>3, <2>4 DEF Accounted
  <2>6. QueueOK'
    BY <1>5, <2>1 DEF QueueOK
  <2> QED BY <1>1, <2>1, <2>5, <2>6 DEF Asks, Range
<1>6. CASE waiting # <<>>
  <2> DEFINE h == Head(waiting)
  <2>1. /\ h \in Requests /\ h = waiting[1] /\ Len(waiting) \in Nat \ {0}
        /\ Tail(waiting) \in Seq(Requests) /\ Len(Tail(waiting)) = Len(waiting) - 1
        /\ \A i \in 1 .. Len(waiting) - 1 : Tail(waiting)[i] = waiting[i + 1]
    BY <1>1, <1>6
  <2>2. h \in Range(waiting) /\ h # r /\ conn[h] = None
    BY <1>1, <2>1 DEF Range, QueueOK
  <2>3. /\ free' = free /\ free = {} /\ waiting' = Tail(waiting)
        /\ conn' = [q \in Requests |-> IF q = h THEN c ELSE IF q = r THEN None ELSE conn[q]]
    BY <1>1, <1>6 DEF Release, Accounted
  <2> HIDE DEF h
  <2>4. /\ conn'[h] = c /\ conn'[r] = None
        /\ \A q \in Requests \ {r, h} : conn'[q] = conn[q]
        /\ conn' \in [Requests -> Connections \cup {None}]
    BY <1>1, <2>1, <2>2, <2>3
  <2>5. Accounted'
    BY <1>1, <1>2, <1>3, <2>1, <2>2, <2>3, <2>4 DEF Accounted
  <2>6. QueueOK'
    <3>1. \A i \in 1 .. Len(waiting') :
            waiting'[i] = waiting[i + 1] /\ i + 1 \in 1 .. Len(waiting) /\ waiting[i + 1] \in Requests
      BY <1>1, <2>1, <2>3
    <3>2. \A i \in 1 .. Len(waiting') : waiting'[i] # h
      BY <1>1, <2>1, <3>1 DEF QueueOK
    <3>3. \A i \in 1 .. Len(waiting') : conn'[waiting'[i]] = None
      BY <1>1, <2>4, <3>1, <3>2 DEF QueueOK
    <3>4. \A i, j \in 1 .. Len(waiting') : waiting'[i] = waiting'[j] => i = j
      BY <1>1, <2>1, <2>3, <3>1 DEF QueueOK
    <3> QED BY <3>3, <3>4 DEF QueueOK
  <2>7. Range(waiting)' \subseteq Range(waiting)
    BY <1>1, <2>1, <2>3 DEF Range
  <2>8. ~Asks(r)' /\ \A q \in Requests \ {r} : Asks(q)' => Asks(q)
    BY <2>2, <2>4, <2>7 DEF Asks
  <2> QED BY <1>1, <2>1, <2>3, <2>4, <2>5, <2>6, <2>8
<1> QED BY <1>5, <1>6

\* What there is to know of a request that takes a step.
LEMMA RunningOne ==
  ASSUME PoolInv, NEW r \in Requests, stage[r] = "running"
  PROVE  /\ steps[r] \in Seq(AllSteps) /\ steps[r] # <<>>
         /\ Next1(r) = Head(steps[r]) /\ Next1(r) \in AllSteps
         /\ Tail(steps[r]) \in Seq(AllSteps) /\ ambient[r] \in BOOLEAN
         /\ tx[r] = None => ~ambient[r] /\ Outside(steps[r])
         /\ tx[r] # None => Inside(ambient[r], steps[r])
         /\ Asks(r) => NeedsConnection(r)
<1>1. steps[r] \in Seq(AllSteps) /\ ambient[r] \in BOOLEAN
  BY DEF PoolInv, PoolTypeOK
<1>2. steps[r] # <<>> /\ (Asks(r) => NeedsConnection(r))
  BY DEF PoolInv, Shape, AskersNeed
<1>3. /\ tx[r] = None => ~ambient[r] /\ Outside(steps[r])
      /\ tx[r] # None => Inside(ambient[r], steps[r])
  BY DEF PoolInv, Shape
<1> QED BY <1>1, <1>2, <1>3, TailOfSteps DEF Next1

\* A request that goes on has the types of what is left to do.
LEMMA ContinueType ==
  ASSUME PoolTypeOK, NEW r \in Requests, NEW left \in Seq(AllSteps), Continue(r, left)
  PROVE  /\ stage' \in [Requests -> {"new", "running", "done"}]
         /\ steps' \in [Requests -> Seq(AllSteps)]
         /\ steps'[r] = left /\ (stage'[r] = "running" <=> left # <<>>)
         /\ \A q \in Requests \ {r} : stage'[q] = stage[q] /\ steps'[q] = steps[q]
<1>1. stage \in [Requests -> {"new", "running", "done"}] /\ steps \in [Requests -> Seq(AllSteps)]
  BY DEF PoolTypeOK
<1>2. steps' \in [Requests -> Seq(AllSteps)] /\ steps'[r] = left
      /\ \A q \in Requests \ {r} : steps'[q] = steps[q]
  BY <1>1 DEF Continue
<1>3. stage' \in [Requests -> {"new", "running", "done"}]
      /\ (stage'[r] = "running" <=> left # <<>>)
      /\ \A q \in Requests \ {r} : stage'[q] = stage[q]
  BY <1>1 DEF Continue
<1> QED BY <1>2, <1>3

\* Nothing but the steps of r: the connections stay as they are.
LEMMA StepAlone ==
  ASSUME PoolInv, NEW r \in Requests, NEW left \in Seq(AllSteps), Continue(r, left),
         ~Asks(r), UNCHANGED <<tx, ambient, conn, free, waiting>>,
         rows' \in [Requests -> SUBSET Items], owner' \in [Items -> Requests \cup {None}],
         tx[r] = None => Outside(left),
         tx[r] # None => Inside(ambient[r], left)
  PROVE  PoolInv'
<1>1. PoolTypeOK
  BY DEF PoolInv
<1>2. /\ steps'[r] = left /\ (stage'[r] = "running" <=> left # <<>>)
      /\ \A q \in Requests \ {r} : stage'[q] = stage[q] /\ steps'[q] = steps[q]
  BY <1>1, ContinueType
<1>3. PoolTypeOK'
  BY <1>1, ContinueType DEF PoolTypeOK
<1>4. Shape(r)'
  BY <1>2 DEF PoolInv, Shape
<1>5. Moved(r)
  BY <1>2, <1>4 DEF Moved, Asks
<1>6. QueueOK' /\ Accounted'
  BY DEF PoolInv, QueueOK, Accounted
<1> QED BY <1>3, <1>5, <1>6, MovedKeeps DEF PoolInv

LEMMA AskKeeps ==
  ASSUME PoolInv, NEW r \in Requests, Ask(r)
  PROVE  PoolInv'
<1>1. /\ conn \in [Requests -> Connections \cup {None}] /\ free \subseteq Connections
      /\ waiting \in Seq(Requests) /\ QueueOK /\ Accounted /\ AskersNeed
      /\ tx \in [Requests -> Connections \cup {None}]
  BY DEF PoolInv, PoolTypeOK
<1>2. /\ stage' = stage /\ steps' = steps /\ tx' = tx /\ ambient' = ambient
      /\ rows' = rows /\ owner' = owner
      /\ conn[r] = None /\ r \notin Range(waiting) /\ NeedsConnection(r)
  BY DEF Ask
<1>3. steps[r] # <<>>
  BY DEF PoolInv, Shape, Ask
<1>4. \A q \in Requests : Shape(q)'
  BY <1>2 DEF PoolInv, Shape
<1>5. \A q \in Requests : NeedsConnection(q)' <=> NeedsConnection(q)
  BY <1>2 DEF NeedsConnection, JoinsAmbient, Next1
<1>6. CASE free # {} /\ waiting' = waiting
            /\ \E c \in free : conn' = [conn EXCEPT ![r] = c] /\ free' = free \ {c}
  <2>1. PICK c \in free : conn' = [conn EXCEPT ![r] = c] /\ free' = free \ {c}
    BY <1>6
  <2>2. /\ c \in Connections /\ c # None /\ waiting = <<>>
        /\ \A q \in Requests : c # tx[q] /\ c # conn[q]
    BY <1>1, <2>1, PoolAssumption DEF Accounted
  <2>3. /\ conn'[r] = c /\ \A q \in Requests \ {r} : conn'[q] = conn[q]
        /\ conn' \in [Requests -> Connections \cup {None}]
    BY <1>1, <2>1
  <2>4. PoolTypeOK'
    BY <1>2, <1>6, <2>1, <2>3 DEF PoolInv, PoolTypeOK
  <2>5. AskersNeed'
    BY <1>1, <1>2, <1>3, <1>5, <1>6, <2>3 DEF AskersNeed, Asks
  <2>6. QueueOK'
    BY <1>6, <2>2 DEF QueueOK
  <2>7. \A d \in Connections : d \in free' <=> \A q \in Requests : d # tx'[q] /\ d # conn'[q]
    <3>1. ASSUME NEW d \in Connections, d # c, NEW q \in Requests
          PROVE  (d # tx'[q] /\ d # conn'[q]) <=> (d # tx[q] /\ d # conn[q])
      BY <1>2, <2>3, <3>1, PoolAssumption
    <3> QED BY <1>1, <2>1, <2>3, <3>1 DEF Accounted
  <2>8. Accounted'
    BY <1>1, <1>2, <1>6, <2>2, <2>3, <2>7 DEF Accounted
  <2> QED BY <1>4, <2>4, <2>5, <2>6, <2>8 DEF PoolInv
<1>7. CASE free = {} /\ waiting' = Append(waiting, r) /\ UNCHANGED <<conn, free>>
  <2>1. /\ waiting' \in Seq(Requests) /\ Len(waiting') = Len(waiting) + 1
        /\ waiting'[Len(waiting) + 1] = r /\ Len(waiting) \in Nat
        /\ \A i \in 1 .. Len(waiting) : waiting'[i] = waiting[i] /\ waiting[i] # r
    BY <1>1, <1>2, <1>7 DEF Range
  <2>2. PoolTypeOK'
    BY <1>2, <1>7, <2>1 DEF PoolInv, PoolTypeOK
  <2>3. \A q \in Requests \ {r} : Asks(q)' => Asks(q)
    BY <1>1, <1>7, <2>1 DEF Asks, Range
  <2>4. AskersNeed'
    BY <1>1, <1>2, <1>3, <1>5, <2>3 DEF AskersNeed
  <2>5. \A i \in 1 .. Len(waiting') : i \in 1 .. Len(waiting) \/ i = Len(waiting) + 1
    BY <2>1
  <2>6. QueueOK'
    <3>1. conn' = conn /\ conn[r] = None
      BY <1>2, <1>7
    <3>2. \A i \in 1 .. Len(waiting) : conn[waiting[i]] = None
      BY <1>1 DEF QueueOK
    <3>3. \A i \in 1 .. Len(waiting') : conn'[waiting'[i]] = None
      BY <2>1, <2>5, <3>1, <3>2
    <3>4. \A i, j \in 1 .. Len(waiting) : waiting[i] = waiting[j] => i = j
      BY <1>1 DEF QueueOK
    <3>5. \A i, j \in 1 .. Len(waiting') : waiting'[i] = waiting'[j] => i = j
      BY <2>1, <2>5, <3>4
    <3> QED BY <3>3, <3>5 DEF QueueOK
  <2>7. Accounted'
    BY <1>1, <1>2, <1>7 DEF Accounted
  <2> QED BY <1>4, <2>2, <2>4, <2>6, <2>7 DEF PoolInv
<1> QED BY <1>6, <1>7 DEF Ask

\* A step of r that returns a connection.
LEMMA ReturnKeeps ==
  ASSUME PoolInv, NEW r \in Requests, NEW c, c # None, Release(c, r), r \notin Range(waiting),
         NEW left \in Seq(AllSteps), Continue(r, left),
         \/ /\ c = conn[r] /\ UNCHANGED <<tx, ambient>>
            /\ tx[r] = None => Outside(left)
            /\ tx[r] # None => Inside(ambient[r], left)
         \/ /\ c = tx[r] /\ conn[r] = None /\ left = <<>>
            /\ tx' = [tx EXCEPT ![r] = None] /\ ambient' = [ambient EXCEPT ![r] = FALSE],
         rows' \in [Requests -> SUBSET Items], owner' \in [Items -> Requests \cup {None}]
  PROVE  PoolInv'
<1>1. /\ PoolTypeOK /\ tx \in [Requests -> Connections \cup {None}] /\ ambient \in [Requests -> BOOLEAN]
  BY DEF PoolInv, PoolTypeOK
<1>2. /\ conn' \in [Requests -> Connections \cup {None}]
      /\ free' \subseteq Connections /\ waiting' \in Seq(Requests)
      /\ QueueOK' /\ Accounted' /\ ~Asks(r)'
      /\ \A q \in Requests \ {r} : Asks(q)' => Asks(q)
  BY ReleaseKeeps
<1>3. /\ stage' \in [Requests -> {"new", "running", "done"}]
      /\ steps' \in [Requests -> Seq(AllSteps)]
      /\ steps'[r] = left /\ (stage'[r] = "running" <=> left # <<>>)
      /\ \A q \in Requests \ {r} : stage'[q] = stage[q] /\ steps'[q] = steps[q]
  BY <1>1, ContinueType
<1>4. /\ tx' \in [Requests -> Connections \cup {None}]
      /\ ambient' \in [Requests -> BOOLEAN]
      /\ \A q \in Requests \ {r} : tx'[q] = tx[q] /\ ambient'[q] = ambient[q]
  BY <1>1
<1>5. PoolTypeOK'
  BY <1>2, <1>3, <1>4 DEF PoolTypeOK
<1>6. Shape(r)'
  <2>1. CASE c = conn[r] /\ UNCHANGED <<tx, ambient>>
             /\ (tx[r] = None => Outside(left)) /\ (tx[r] # None => Inside(ambient[r], left))
    BY <1>3, <2>1 DEF PoolInv, Shape
  <2>2. CASE left = <<>> /\ tx' = [tx EXCEPT ![r] = None] /\ ambient' = [ambient EXCEPT ![r] = FALSE]
    <3>1. tx'[r] = None /\ ~ambient'[r] /\ Outside(<<>>)
      BY <1>1, <2>2 DEF Outside
    <3> QED BY <1>3, <2>2, <3>1 DEF Shape
  <2> QED BY <2>1, <2>2
<1>7. Moved(r)
  BY <1>2, <1>3, <1>4, <1>6 DEF Moved
<1> QED BY <1>2, <1>5, <1>7, MovedKeeps DEF PoolInv

LEMMA QueryKeeps ==
  ASSUME PoolInv, NEW r \in Requests, Query(r)
  PROVE  PoolInv'
<1>1. /\ stage[r] = "running" /\ conn[r] # None /\ Next1(r) \in {"query", "read"}
      /\ Release(conn[r], r) /\ Continue(r, Tail(steps[r]))
      /\ rows' = rows /\ owner' = owner /\ UNCHANGED <<tx, ambient>>
  BY DEF Query
<1>2. /\ steps[r] \in Seq(AllSteps) /\ steps[r] # <<>> /\ Next1(r) = Head(steps[r])
      /\ Tail(steps[r]) \in Seq(AllSteps) /\ ambient[r] \in BOOLEAN
      /\ tx[r] = None => Outside(steps[r])
      /\ tx[r] # None => Inside(ambient[r], steps[r])
  BY <1>1, RunningOne
<1>3. r \notin Range(waiting)
  BY <1>1 DEF PoolInv, QueueOK, Range
<1>4. Head(steps[r]) \notin Opens /\ Head(steps[r]) \notin Ends
  BY <1>1, <1>2 DEF Opens, Ends
<1>5. /\ tx[r] = None => Outside(Tail(steps[r]))
      /\ tx[r] # None => Inside(ambient[r], Tail(steps[r]))
  BY <1>2, <1>4, TailOutside, TailInside
<1>6. rows \in [Requests -> SUBSET Items] /\ owner \in [Items -> Requests \cup {None}]
  BY DEF PoolInv, PoolTypeOK
<1> QED BY <1>1, <1>2, <1>3, <1>5, <1>6, ReturnKeeps

LEMMA FailQueryKeeps ==
  ASSUME PoolInv, NEW r \in Requests, FailQuery(r)
  PROVE  PoolInv'
<1> DEFINE left == IF tx[r] = None THEN <<>> ELSE <<"rollback">>
<1>1. /\ stage[r] = "running" /\ conn[r] # None
      /\ Release(conn[r], r) /\ Continue(r, left)
      /\ owner' = owner /\ UNCHANGED <<tx, ambient>>
  BY DEF FailQuery
<1>2. left \in Seq(AllSteps)
  <2>1. <<>> \in Seq(AllSteps) /\ <<"rollback">> \in Seq(AllSteps)
    BY DEF AllSteps
  <2> QED BY <2>1
<1>3. r \notin Range(waiting)
  BY <1>1 DEF PoolInv, QueueOK, Range
<1>4. /\ tx[r] = None => Outside(left)
      /\ tx[r] # None => Inside(ambient[r], left)
  BY DEF Outside, Inside, Ends
<1>5. rows' \in [Requests -> SUBSET Items] /\ owner \in [Items -> Requests \cup {None}]
  BY DEF PoolInv, PoolTypeOK, FailQuery
<1> HIDE DEF left
<1> QED BY <1>1, <1>2, <1>3, <1>4, <1>5, ReturnKeeps

LEMMA EndKeeps ==
  ASSUME PoolInv, NEW r \in Requests, EndTransaction(r)
  PROVE  PoolInv'
<1>1. /\ stage[r] = "running" /\ Next1(r) \in Ends
      /\ Release(tx[r], r) /\ Continue(r, Tail(steps[r]))
      /\ tx' = [tx EXCEPT ![r] = None] /\ ambient' = [ambient EXCEPT ![r] = FALSE]
      /\ rows' = rows
  BY DEF EndTransaction, Ends
<1>2. /\ steps[r] \in Seq(AllSteps) /\ steps[r] # <<>> /\ Next1(r) = Head(steps[r])
      /\ Tail(steps[r]) \in Seq(AllSteps) /\ ambient[r] \in BOOLEAN
      /\ tx[r] = None => Outside(steps[r])
      /\ tx[r] # None => Inside(ambient[r], steps[r])
      /\ Asks(r) => NeedsConnection(r)
  BY <1>1, RunningOne
<1>3. tx[r] # None
  <2>1. Head(steps[r]) \notin Opens
    BY <1>1, <1>2 DEF Opens, Ends
  <2> QED BY <1>1, <1>2, <2>1, TailOutside
<1>4. Tail(steps[r]) = <<>>
  BY <1>1, <1>2, <1>3, LastInside
<1>5. conn[r] = None /\ r \notin Range(waiting)
  BY <1>1, <1>2 DEF Asks, NeedsConnection, Ends
<1>6. rows \in [Requests -> SUBSET Items] /\ owner' \in [Items -> Requests \cup {None}]
  BY DEF PoolInv, PoolTypeOK, EndTransaction
<1> QED BY <1>1, <1>2, <1>3, <1>4, <1>5, <1>6, ReturnKeeps

LEMMA OpenKeeps ==
  ASSUME PoolInv, NEW r \in Requests, OpenTransaction(r)
  PROVE  PoolInv'
<1>1. /\ stage[r] = "running" /\ conn[r] # None /\ Next1(r) \in Opens
      /\ tx' = [tx EXCEPT ![r] = conn[r]] /\ conn' = [conn EXCEPT ![r] = None]
      /\ ambient' = [ambient EXCEPT ![r] = Publishes(Next1(r))]
      /\ Continue(r, Tail(steps[r]))
      /\ rows' = rows /\ owner' = owner /\ free' = free /\ waiting' = waiting
  BY DEF OpenTransaction, Opens
<1>2. /\ steps[r] \in Seq(AllSteps) /\ steps[r] # <<>> /\ Next1(r) = Head(steps[r])
      /\ Tail(steps[r]) \in Seq(AllSteps) /\ ambient[r] \in BOOLEAN
      /\ tx[r] = None => Outside(steps[r])
      /\ tx[r] # None => Inside(ambient[r], steps[r])
      /\ NeedsConnection(r)
  BY <1>1, RunningOne DEF Asks
<1>3. PoolTypeOK /\ QueueOK /\ Accounted
      /\ conn \in [Requests -> Connections \cup {None}] /\ tx \in [Requests -> Connections \cup {None}]
      /\ ambient \in [Requests -> BOOLEAN]
  BY DEF PoolInv, PoolTypeOK
<1>4. tx[r] = None
  <2>1. ASSUME tx[r] # None PROVE FALSE
    <3>1. Inside(ambient[r], steps[r]) /\ steps[r][1] = Next1(r) /\ 1 \in 1 .. Len(steps[r])
      BY <1>2, <2>1, TailOfSteps
    <3>2. Next1(r) \notin {"run", "begin"} /\ (~ambient[r] => Next1(r) \in {"lock"} \cup Ends)
      BY <3>1 DEF Inside
    <3>3. Next1(r) = "own" /\ ambient[r]
      BY <1>1, <3>2 DEF Opens, Ends
    <3> QED BY <1>2, <3>3 DEF NeedsConnection, JoinsAmbient
  <2> QED BY <2>1
<1>5. Tail(steps[r]) # <<>> /\ Inside(Publishes(Next1(r)), Tail(steps[r]))
  BY <1>1, <1>2, <1>4, TailOpens
<1>6. Publishes(Next1(r)) \in BOOLEAN
  BY DEF Publishes
<1>7. /\ stage' \in [Requests -> {"new", "running", "done"}]
      /\ steps' \in [Requests -> Seq(AllSteps)]
      /\ steps'[r] = Tail(steps[r]) /\ (stage'[r] = "running" <=> Tail(steps[r]) # <<>>)
      /\ \A q \in Requests \ {r} : stage'[q] = stage[q] /\ steps'[q] = steps[q]
  BY <1>1, <1>2, <1>3, ContinueType
<1>8. /\ tx' \in [Requests -> Connections \cup {None}] /\ tx'[r] = conn[r]
      /\ conn' \in [Requests -> Connections \cup {None}] /\ conn'[r] = None
      /\ \A q \in Requests \ {r} : tx'[q] = tx[q] /\ conn'[q] = conn[q]
  BY <1>1, <1>3
<1>9. /\ ambient' \in [Requests -> BOOLEAN] /\ ambient'[r] = Publishes(Next1(r))
      /\ \A q \in Requests \ {r} : ambient'[q] = ambient[q]
  BY <1>1, <1>3, <1>6
<1>10. PoolTypeOK'
  BY <1>1, <1>3, <1>7, <1>8, <1>9 DEF PoolTypeOK
<1>11. Shape(r)'
  BY <1>1, <1>5, <1>7, <1>8, <1>9 DEF Shape
<1>12. r \notin Range(waiting)
  BY <1>1, <1>3 DEF QueueOK, Range
<1>13. Moved(r)
  BY <1>1, <1>7, <1>8, <1>9, <1>11, <1>12 DEF Moved, Asks, Range
<1>14. QueueOK'
  BY <1>1, <1>3, <1>8 DEF QueueOK, PoolTypeOK
<1>15. \A d \in Connections : d \in free' <=> \A q \in Requests : d # tx'[q] /\ d # conn'[q]
  <2>1. ASSUME NEW d \in Connections, NEW q \in Requests
        PROVE  (d # tx'[q] /\ d # conn'[q]) <=> (d # tx[q] /\ d # conn[q])
    BY <1>4, <1>8, PoolAssumption
  <2> QED BY <1>1, <1>3, <2>1 DEF Accounted
<1>16. Accounted'
  BY <1>1, <1>3, <1>8, <1>15 DEF Accounted
<1> QED BY <1>10, <1>13, <1>14, <1>16, MovedKeeps DEF PoolInv

LEMMA JoinKeeps ==
  ASSUME PoolInv, NEW r \in Requests, Join(r)
  PROVE  PoolInv'
<1>1. /\ stage[r] = "running" /\ JoinsAmbient(r) /\ Continue(r, Tail(steps[r]))
      /\ rows' = rows /\ owner' = owner /\ UNCHANGED <<tx, ambient, conn, free, waiting>>
  BY DEF Join
<1>2. /\ steps[r] \in Seq(AllSteps) /\ steps[r] # <<>> /\ Next1(r) = Head(steps[r])
      /\ Tail(steps[r]) \in Seq(AllSteps) /\ ambient[r] \in BOOLEAN
      /\ tx[r] = None => ~ambient[r]
      /\ tx[r] # None => Inside(ambient[r], steps[r])
      /\ ~Asks(r)
  BY <1>1, RunningOne DEF NeedsConnection
<1>3. Head(steps[r]) \notin Ends /\ tx[r] # None
  BY <1>1, <1>2 DEF JoinsAmbient, Ends
<1>4. Inside(ambient[r], Tail(steps[r]))
  BY <1>2, <1>3, TailInside
<1>5. rows \in [Requests -> SUBSET Items] /\ owner \in [Items -> Requests \cup {None}]
  BY DEF PoolInv, PoolTypeOK
<1> QED BY <1>1, <1>2, <1>3, <1>4, <1>5, StepAlone

LEMMA LockKeeps ==
  ASSUME PoolInv, NEW r \in Requests, LockRow(r)
  PROVE  PoolInv'
<1>1. PICK i \in MayLock(r) :
        /\ owner' = [owner EXCEPT ![i] = r] /\ rows' = [rows EXCEPT ![r] = rows[r] \ {i}]
        /\ Continue(r, IF rows[r] = {i} THEN Tail(steps[r]) ELSE steps[r])
  BY DEF LockRow
<1>2. /\ stage[r] = "running" /\ Next1(r) = "lock"
      /\ UNCHANGED <<tx, ambient, conn, free, waiting>>
  BY DEF LockRow
<1>3. /\ steps[r] \in Seq(AllSteps) /\ steps[r] # <<>> /\ Next1(r) = Head(steps[r])
      /\ Tail(steps[r]) \in Seq(AllSteps) /\ ambient[r] \in BOOLEAN
      /\ tx[r] = None => Outside(steps[r])
      /\ tx[r] # None => Inside(ambient[r], steps[r])
      /\ ~Asks(r)
  BY <1>2, RunningOne DEF NeedsConnection
<1>4. Head(steps[r]) \notin Ends /\ Head(steps[r]) \notin Opens
  BY <1>2, <1>3 DEF Ends, Opens
<1>5. /\ tx[r] = None => Outside(Tail(steps[r]))
      /\ tx[r] # None => Inside(ambient[r], Tail(steps[r]))
  BY <1>3, <1>4, TailInside, TailOutside
<1>6. rows' \in [Requests -> SUBSET Items] /\ owner' \in [Items -> Requests \cup {None}]
  BY <1>1 DEF PoolInv, PoolTypeOK, MayLock
<1>7. CASE rows[r] = {i}
  BY <1>1, <1>2, <1>3, <1>5, <1>6, <1>7, StepAlone
<1>8. CASE rows[r] # {i}
  BY <1>1, <1>2, <1>3, <1>6, <1>8, StepAlone
<1> QED BY <1>7, <1>8

LEMMA FailInTransactionKeeps ==
  ASSUME PoolInv, NEW r \in Requests, FailInTransaction(r)
  PROVE  PoolInv'
<1>1. /\ stage[r] = "running" /\ tx[r] # None /\ (JoinsAmbient(r) \/ Next1(r) = "commit")
      /\ Continue(r, <<"rollback">>)
      /\ owner' = owner /\ UNCHANGED <<tx, ambient, conn, free, waiting>>
  BY DEF FailInTransaction
<1>2. ~Asks(r) /\ ambient[r] \in BOOLEAN
  BY <1>1, RunningOne DEF NeedsConnection
<1>3. <<"rollback">> \in Seq(AllSteps) /\ Inside(ambient[r], <<"rollback">>)
  BY DEF AllSteps, Inside, Ends
<1>4. rows' \in [Requests -> SUBSET Items] /\ owner \in [Items -> Requests \cup {None}]
  BY DEF PoolInv, PoolTypeOK, FailInTransaction
<1> QED BY <1>1, <1>2, <1>3, <1>4, StepAlone

LEMMA StartKeeps ==
  ASSUME PoolInv, NEW r \in Requests, Receive(r)
  PROVE  PoolInv'
<1>1. PICK k \in Kinds : \E ids \in ItemsOf(k) : Start(r, k, ids)
  BY DEF Receive
<1>2. PICK ids \in ItemsOf(k) : Start(r, k, ids)
  BY <1>1
<1>3. /\ Program[k] \in Seq(AllSteps) /\ Program[k] # <<>> /\ Outside(Program[k])
      /\ ids \subseteq Items
  BY PoolAssumption, ProgramsAreSteps DEF ItemsOf
<1>4. /\ stage[r] = "new" /\ stage' = [stage EXCEPT ![r] = "running"]
      /\ steps' = [steps EXCEPT ![r] = Program[k]] /\ rows' = [rows EXCEPT ![r] = ids]
      /\ tx' = tx /\ ambient' = ambient /\ conn' = conn
      /\ free' = free /\ waiting' = waiting /\ owner' = owner
  BY <1>2 DEF Start
<1>5. /\ steps' \in [Requests -> Seq(AllSteps)] /\ steps'[r] = Program[k]
      /\ stage' \in [Requests -> {"new", "running", "done"}] /\ stage'[r] = "running"
      /\ \A q \in Requests \ {r} : stage'[q] = stage[q] /\ steps'[q] = steps[q]
  BY <1>3, <1>4 DEF PoolInv, PoolTypeOK
<1>6. PoolTypeOK'
  BY <1>3, <1>4, <1>5 DEF PoolInv, PoolTypeOK
<1>7. steps[r] = <<>> /\ ~Asks(r)
  BY <1>4 DEF PoolInv, Shape, AskersNeed
<1>8. tx[r] = None /\ ~ambient[r]
  BY <1>7 DEF PoolInv, Shape, Inside
<1>9. Shape(r)'
  BY <1>3, <1>4, <1>5, <1>8 DEF Shape
<1>10. Moved(r)
  BY <1>4, <1>5, <1>7, <1>9 DEF Moved, Asks, Range
<1>11. QueueOK' /\ Accounted'
  BY <1>4 DEF PoolInv, QueueOK, Accounted
<1> QED BY <1>6, <1>10, <1>11, MovedKeeps DEF PoolInv

LEMMA StepPool == PoolInv /\ [PoolNext]_poolVars => PoolInv'
<1> SUFFICES ASSUME PoolInv, [PoolNext]_poolVars PROVE PoolInv'
  OBVIOUS
<1>1. CASE UNCHANGED poolVars
  <2>1. PoolTypeOK'
    BY <1>1 DEF PoolInv, PoolTypeOK, poolVars
  <2>2. (\A r \in Requests : Shape(r)') /\ QueueOK' /\ Accounted'
    BY <1>1 DEF PoolInv, Shape, QueueOK, Accounted, poolVars
  <2>3. AskersNeed'
    BY <1>1 DEF PoolInv, AskersNeed, Asks, NeedsConnection, JoinsAmbient, Next1, poolVars
  <2> QED BY <2>1, <2>2, <2>3 DEF PoolInv
<1>2. ASSUME NEW r \in Requests, Step(r) \/ Receive(r) \/ FailQuery(r) \/ FailInTransaction(r)
      PROVE  PoolInv'
  BY <1>2, AskKeeps, QueryKeeps, OpenKeeps, JoinKeeps, LockKeeps, EndKeeps,
     StartKeeps, FailQueryKeeps, FailInTransactionKeeps DEF Step
<1> QED BY <1>1, <1>2 DEF PoolNext, AllAnswered

\* The requests, the connections and the rows are what PoolTypeOK says.
THEOREM PoolTypes == PoolSpec => []PoolTypeOK
<1>1. PoolInv => PoolTypeOK
  BY DEF PoolInv
<1> QED BY <1>1, InitPool, StepPool, PTL DEF PoolSpec

\* Whatever fails, no connection is lost or used by two requests, a request
\* that is not running holds none, and nobody waits while one is idle.
THEOREM NoConnectionIsLost == PoolSpec => []ConnectionsAreAccountedFor
<1> QED BY AccountedIsIt, InitPool, StepPool, PTL DEF PoolSpec

-------------------------------------------------------------------------------
(* Requests whose queries all join their transactions. *)

JoiningOnly == AllKinds \ {"RegisterUser", "RegisterOverExistingUser"}

AllJoin(p) == \A j \in 1 .. Len(p) : p[j] # "query"
JoinOnceOpen(p) == \A i, j \in 1 .. Len(p) : i < j /\ p[i] \in Opens => p[j] # "query"

RestJoins(r) == IF tx[r] = None THEN JoinOnceOpen(steps[r]) ELSE AllJoin(steps[r])

JInv == \A r \in Requests : RestJoins(r)

LEMMA JoiningPrograms ==
  ASSUME NEW k \in JoiningOnly
  PROVE  JoinOnceOpen(Program[k])
<1>1. JoiningOnly = {"SaveItem", "ConsumeStockBatch", "RestoreStockBatch", "UndoConsumption",
                     "SaveWorkOrder", "CloseWithdrawal", "SaveSession", "SaveRole",
                     "RegisterCustomer"}
  BY DEF JoiningOnly, AllKinds, Program
<1> USE DEF JoinOnceOpen, Opens
<1>2. CASE k \in {"SaveItem", "ConsumeStockBatch"}
  <2>1. Program[k] \in {<<"query", "own", "lock", "read", "commit">>,
                        <<"run", "lock", "own", "read", "commit">>}
    BY <1>2 DEF Program
  <2> QED BY <2>1
<1>3. CASE k \in {"RestoreStockBatch", "UndoConsumption"}
  <2>1. Program[k] \in {<<"run", "lock", "read", "own", "read", "commit">>,
                        <<"read", "run", "lock", "read", "own", "read", "commit">>}
    BY <1>3 DEF Program
  <2> QED BY <2>1
<1>4. CASE k \in {"SaveWorkOrder", "CloseWithdrawal"}
  <2>1. Program[k] \in {<<"query", "read", "own", "commit">>,
                        <<"run", "read", "own", "read", "commit">>}
    BY <1>4 DEF Program
  <2> QED BY <2>1
<1>5. CASE k \in {"SaveSession", "SaveRole", "RegisterCustomer"}
  <2>1. Program[k] \in {<<"query", "begin", "commit">>, <<"run", "read", "commit">>}
    BY <1>5 DEF Program
  <2> QED BY <2>1
<1> QED BY <1>1, <1>2, <1>3, <1>4, <1>5

LEMMA TailJoins ==
  ASSUME NEW p \in Seq(AllSteps), p # <<>>
  PROVE  /\ AllJoin(p) => AllJoin(Tail(p)) /\ JoinOnceOpen(p)
         /\ JoinOnceOpen(p) => JoinOnceOpen(Tail(p))
         /\ JoinOnceOpen(p) /\ Head(p) \in Opens => AllJoin(Tail(p))
<1>1. \A i \in 1 .. Len(Tail(p)) : i + 1 \in 1 .. Len(p) /\ Tail(p)[i] = p[i + 1]
  BY TailOfSteps
<1>2. 1 \in 1 .. Len(p) /\ Head(p) = p[1]
  BY TailOfSteps
<1>3. AllJoin(p) => AllJoin(Tail(p)) /\ JoinOnceOpen(p)
  BY <1>1 DEF AllJoin, JoinOnceOpen
<1>4. JoinOnceOpen(p) => JoinOnceOpen(Tail(p))
  <2> SUFFICES ASSUME JoinOnceOpen(p), NEW i \in 1 .. Len(Tail(p)), NEW j \in 1 .. Len(Tail(p)),
                      i < j, Tail(p)[i] \in Opens
               PROVE  Tail(p)[j] # "query"
    BY DEF JoinOnceOpen
  <2>1. i + 1 < j + 1 /\ p[i + 1] \in Opens /\ i + 1 \in 1 .. Len(p) /\ j + 1 \in 1 .. Len(p)
    BY <1>1
  <2> QED BY <1>1, <2>1 DEF JoinOnceOpen
<1>5. JoinOnceOpen(p) /\ Head(p) \in Opens => AllJoin(Tail(p))
  <2> SUFFICES ASSUME JoinOnceOpen(p), p[1] \in Opens, NEW j \in 1 .. Len(Tail(p))
               PROVE  Tail(p)[j] # "query"
    BY <1>2 DEF AllJoin
  <2>1. 1 < j + 1 /\ j + 1 \in 1 .. Len(p) /\ Tail(p)[j] = p[j + 1]
    BY <1>1
  <2> QED BY <1>2, <2>1 DEF JoinOnceOpen
<1> QED BY <1>3, <1>4, <1>5

\* A step of one request, by what it does with its transaction.
LEMMA JStep ==
  ASSUME PoolInv, JInv, NEW r \in Requests, stage[r] = "running",
         NEW left \in {Tail(steps[r]), steps[r], <<>>, <<"rollback">>}, Continue(r, left),
         \/ tx' = tx
         \/ tx' = [tx EXCEPT ![r] = None] /\ left = Tail(steps[r])
         \/ /\ tx' = [tx EXCEPT ![r] = conn[r]] /\ conn[r] # None
            /\ left = Tail(steps[r]) /\ Head(steps[r]) \in Opens
  PROVE  JInv'
<1>1. steps[r] \in Seq(AllSteps) /\ steps[r] # <<>>
  BY RunningOne
<1>2. steps \in [Requests -> Seq(AllSteps)] /\ tx \in [Requests -> Connections \cup {None}]
  BY DEF PoolInv, PoolTypeOK
<1>3. /\ steps'[r] = left /\ \A q \in Requests \ {r} : steps'[q] = steps[q]
      /\ \A q \in Requests \ {r} : tx'[q] = tx[q]
  BY <1>2 DEF Continue
<1>4. AllJoin(<<>>) /\ AllJoin(<<"rollback">>) /\ JoinOnceOpen(<<>>) /\ JoinOnceOpen(<<"rollback">>)
  BY DEF AllJoin, JoinOnceOpen
<1>5. /\ AllJoin(steps[r]) => AllJoin(Tail(steps[r])) /\ JoinOnceOpen(steps[r])
      /\ JoinOnceOpen(steps[r]) => JoinOnceOpen(Tail(steps[r]))
      /\ JoinOnceOpen(steps[r]) /\ Head(steps[r]) \in Opens => AllJoin(Tail(steps[r]))
  BY <1>1, TailJoins
<1>6. /\ tx[r] = None => JoinOnceOpen(steps[r])
      /\ tx[r] # None => AllJoin(steps[r])
  BY DEF JInv, RestJoins
<1>7. /\ tx'[r] = None => JoinOnceOpen(left)
      /\ tx'[r] # None => AllJoin(left)
  <2>1. CASE tx' = tx
    BY <1>4, <1>5, <1>6, <2>1
  <2>2. CASE tx' = [tx EXCEPT ![r] = None] /\ left = Tail(steps[r])
    <3>1. tx'[r] = None
      BY <1>2, <2>2
    <3> QED BY <1>5, <1>6, <2>2, <3>1
  <2>3. CASE /\ tx' = [tx EXCEPT ![r] = conn[r]] /\ conn[r] # None
             /\ left = Tail(steps[r]) /\ Head(steps[r]) \in Opens
    <3>1. tx'[r] # None
      BY <1>2, <2>3
    <3> QED BY <1>5, <1>6, <2>3, <3>1
  <2> QED BY <2>1, <2>2, <2>3
<1>8. RestJoins(r)'
  BY <1>3, <1>7 DEF RestJoins
<1>9. ASSUME NEW q \in Requests \ {r} PROVE RestJoins(q)'
  BY <1>3 DEF JInv, RestJoins
<1> QED BY <1>8, <1>9 DEF JInv

LEMMA StepJoins ==
  ASSUME Kinds \subseteq JoiningOnly, PoolInv, JInv, [PoolNext]_poolVars
  PROVE  JInv'
<1>1. CASE UNCHANGED poolVars \/ \E r \in Requests : Ask(r)
  <2>1. steps' = steps /\ tx' = tx
    BY <1>1 DEF poolVars, Ask
  <2> QED BY <2>1 DEF JInv, RestJoins
<1>2. ASSUME NEW r \in Requests, Query(r) \/ Join(r) \/ FailInTransaction(r) PROVE JInv'
  BY <1>2, JStep DEF Query, Join, FailInTransaction
<1>3. ASSUME NEW r \in Requests, OpenTransaction(r) PROVE JInv'
  BY <1>3, JStep DEF OpenTransaction, Opens, Next1
<1>4. ASSUME NEW r \in Requests, LockRow(r) PROVE JInv'
  <2>1. Continue(r, Tail(steps[r])) \/ Continue(r, steps[r])
    BY <1>4 DEF LockRow
  <2> QED BY <1>4, <2>1, JStep DEF LockRow
<1>5. ASSUME NEW r \in Requests, EndTransaction(r) PROVE JInv'
  BY <1>5, JStep DEF EndTransaction
<1>6. ASSUME NEW r \in Requests, FailQuery(r) PROVE JInv'
  <2>1. Continue(r, <<>>) \/ Continue(r, <<"rollback">>)
    BY <1>6 DEF FailQuery
  <2> QED BY <1>6, <2>1, JStep DEF FailQuery
<1>7. ASSUME NEW r \in Requests, Receive(r) PROVE JInv'
  <2>1. PICK k \in Kinds : /\ stage[r] = "new" /\ steps' = [steps EXCEPT ![r] = Program[k]]
                           /\ tx' = tx
    BY <1>7 DEF Receive, Start
  <2>2. JoinOnceOpen(Program[k])
    BY <2>1, JoiningPrograms
  <2>3. steps[r] = <<>>
    BY <2>1 DEF PoolInv, Shape
  <2>4. tx[r] = None
    BY <2>3 DEF PoolInv, Shape, Inside
  <2>5. steps'[r] = Program[k] /\ \A q \in Requests \ {r} : steps'[q] = steps[q]
    BY <2>1 DEF PoolInv, PoolTypeOK
  <2>6. RestJoins(r)'
    BY <2>1, <2>2, <2>4, <2>5 DEF RestJoins
  <2>7. ASSUME NEW q \in Requests \ {r} PROVE RestJoins(q)'
    BY <2>1, <2>5 DEF JInv, RestJoins
  <2> QED BY <2>6, <2>7 DEF JInv
<1> QED BY <1>1, <1>2, <1>3, <1>4, <1>5, <1>6, <1>7 DEF PoolNext, Step, AllAnswered

LEMMA HoldersAskForNone ==
  ASSUME PoolInv, JInv
  PROVE  HoldersTakeNoSecondConnection
<1> SUFFICES ASSUME NEW r \in Requests, tx[r] # None, Asks(r) PROVE FALSE
  BY DEF HoldersTakeNoSecondConnection, Asks
<1>1. steps[r] # <<>> /\ NeedsConnection(r) /\ Inside(ambient[r], steps[r]) /\ AllJoin(steps[r])
  BY DEF PoolInv, AskersNeed, Shape, JInv, RestJoins
<1>2. 1 \in 1 .. Len(steps[r]) /\ steps[r][1] = Next1(r)
  BY <1>1, TailOfSteps DEF PoolInv, PoolTypeOK, Next1
<1>3. Next1(r) \notin {"query", "run", "begin"} /\ (~ambient[r] => Next1(r) \in {"lock"} \cup Ends)
  BY <1>1, <1>2 DEF Inside, AllJoin
<1>4. Next1(r) \in {"read", "own"}
  BY <1>1, <1>3 DEF NeedsConnection
<1> QED BY <1>1, <1>3, <1>4 DEF NeedsConnection, JoinsAmbient, Ends

\* Where only such requests come, whichever and however many, a transaction
\* never asks for a connection besides its own; what RegisterUser and
\* RegisterOverExistingUser do is why the theorem leaves them out.
THEOREM HoldersTakeNone ==
  ASSUME Kinds \subseteq JoiningOnly
  PROVE  PoolSpec => []HoldersTakeNoSecondConnection
<1>1. PoolInit => JInv
  <2>1. JoinOnceOpen(<<>>)
    BY DEF JoinOnceOpen
  <2> QED BY <2>1 DEF PoolInit, JInv, RestJoins
<1>2. PoolInv /\ JInv /\ [PoolNext]_poolVars => JInv'
  BY StepJoins
<1> QED BY <1>1, <1>2, InitPool, StepPool, HoldersAskForNone, PTL DEF PoolSpec

-------------------------------------------------------------------------------
(* The locks of rows, and why not all wait.                                  *)

\* There is one lock step at most; outside of a transaction, one that opens the
\* transaction comes before it.
OneLock(p) == \A i, j \in 1 .. Len(p) : p[i] = "lock" /\ p[j] = "lock" => i = j
LocksInside(p) ==
  \A j \in 1 .. Len(p) : p[j] = "lock" => \E i \in 1 .. Len(p) : i < j /\ p[i] \in Opens
HasLock(p) == \E j \in 1 .. Len(p) : p[j] = "lock"

\* What is left to lock, and when.
RestLocks(r) ==
  /\ OneLock(steps[r])
  /\ HasLock(steps[r]) => rows[r] # {}
  /\ tx[r] = None => LocksInside(steps[r])

\* Rows are held by transactions, and each below those its holder still wants.
LockedInOrder(r) ==
  \A i \in Items : owner[i] = r => tx[r] # None /\ \A j \in rows[r] : i < j

LInv == \A r \in Requests : RestLocks(r) /\ LockedInOrder(r)

\* A program that locks at one place only, after one where it opens its transaction.
LEMMA LocksOnce ==
  ASSUME NEW p, NEW o \in 1 .. Len(p), NEW c \in 1 .. Len(p), o < c, p[o] \in Opens,
         \A j \in 1 .. Len(p) : p[j] = "lock" => j = c
  PROVE  OneLock(p) /\ LocksInside(p)
  BY DEF OneLock, LocksInside

\* One that does not lock.
LEMMA LocksNothing ==
  ASSUME NEW p, \A j \in 1 .. Len(p) : p[j] # "lock"
  PROVE  OneLock(p) /\ LocksInside(p) /\ ~HasLock(p)
  BY DEF OneLock, LocksInside, HasLock

\* Only the requests that have rows to lock lock any, once and in a transaction.
LEMMA LockingPrograms ==
  ASSUME NEW k \in AllKinds
  PROVE  /\ OneLock(Program[k]) /\ LocksInside(Program[k])
         /\ HasLock(Program[k]) => k \in Batches \cup OneItem
<1>1. AllKinds = {"SaveItem", "ConsumeStockBatch", "RestoreStockBatch", "UndoConsumption",
                  "SaveWorkOrder", "CloseWithdrawal", "SaveSession", "SaveRole",
                  "RegisterCustomer", "RegisterOverExistingUser", "RegisterUser"}
  BY DEF AllKinds, Program
<1> DEFINE p == Program[k]
<1>2. CASE k = "SaveItem"
  <2>1. p = <<"query", "own", "lock", "read", "commit">>
    BY <1>2 DEF Program
  <2>2. /\ 2 \in 1 .. Len(p) /\ 3 \in 1 .. Len(p) /\ p[2] \in Opens
        /\ \A j \in 1 .. Len(p) : p[j] = "lock" => j = 3
    BY <2>1 DEF Opens
  <2>3. OneLock(p) /\ LocksInside(p)
    BY <2>2, LocksOnce
  <2> QED BY <1>2, <2>3 DEF Batches, OneItem
<1>3. CASE k = "ConsumeStockBatch"
  <2>1. p = <<"run", "lock", "own", "read", "commit">>
    BY <1>3 DEF Program
  <2>2. /\ 1 \in 1 .. Len(p) /\ 2 \in 1 .. Len(p) /\ p[1] \in Opens
        /\ \A j \in 1 .. Len(p) : p[j] = "lock" => j = 2
    BY <2>1 DEF Opens
  <2>3. OneLock(p) /\ LocksInside(p)
    BY <2>2, LocksOnce
  <2> QED BY <1>3, <2>3 DEF Batches, OneItem
<1>4. CASE k = "RestoreStockBatch"
  <2>1. p = <<"run", "lock", "read", "own", "read", "commit">>
    BY <1>4 DEF Program
  <2>2. /\ 1 \in 1 .. Len(p) /\ 2 \in 1 .. Len(p) /\ p[1] \in Opens
        /\ \A j \in 1 .. Len(p) : p[j] = "lock" => j = 2
    BY <2>1 DEF Opens
  <2>3. OneLock(p) /\ LocksInside(p)
    BY <2>2, LocksOnce
  <2> QED BY <1>4, <2>3 DEF Batches, OneItem
<1>5. CASE k = "UndoConsumption"
  <2>1. p = <<"read", "run", "lock", "read", "own", "read", "commit">>
    BY <1>5 DEF Program
  <2>2. /\ 2 \in 1 .. Len(p) /\ 3 \in 1 .. Len(p) /\ p[2] \in Opens
        /\ \A j \in 1 .. Len(p) : p[j] = "lock" => j = 3
    BY <2>1 DEF Opens
  <2>3. OneLock(p) /\ LocksInside(p)
    BY <2>2, LocksOnce
  <2> QED BY <1>5, <2>3 DEF Batches, OneItem
<1>6. CASE k = "SaveWorkOrder"
  <2>1. p = <<"query", "read", "own", "commit">>
    BY <1>6 DEF Program
  <2>2. \A j \in 1 .. Len(p) : p[j] # "lock"
    BY <2>1
  <2> QED BY <2>2, LocksNothing
<1>7. CASE k = "CloseWithdrawal"
  <2>1. p = <<"run", "read", "own", "read", "commit">>
    BY <1>7 DEF Program
  <2>2. \A j \in 1 .. Len(p) : p[j] # "lock"
    BY <2>1
  <2> QED BY <2>2, LocksNothing
<1>8. CASE k = "SaveSession"
  <2>1. p = <<"query", "begin", "commit">>
    BY <1>8 DEF Program
  <2>2. \A j \in 1 .. Len(p) : p[j] # "lock"
    BY <2>1
  <2> QED BY <2>2, LocksNothing
<1>9. CASE k = "SaveRole"
  <2>1. p = <<"query", "begin", "commit">>
    BY <1>9 DEF Program
  <2>2. \A j \in 1 .. Len(p) : p[j] # "lock"
    BY <2>1
  <2> QED BY <2>2, LocksNothing
<1>10. CASE k = "RegisterCustomer"
  <2>1. p = <<"run", "read", "commit">>
    BY <1>10 DEF Program
  <2>2. \A j \in 1 .. Len(p) : p[j] # "lock"
    BY <2>1
  <2> QED BY <2>2, LocksNothing
<1>11. CASE k = "RegisterOverExistingUser"
  <2>1. p = <<"run", "read", "query", "read", "commit">>
    BY <1>11 DEF Program
  <2>2. \A j \in 1 .. Len(p) : p[j] # "lock"
    BY <2>1
  <2> QED BY <2>2, LocksNothing
<1>12. CASE k = "RegisterUser"
  <2>1. p = <<"query", "run", "read", "query", "read", "query", "read", "commit">>
    BY <1>12 DEF Program
  <2>2. \A j \in 1 .. Len(p) : p[j] # "lock"
    BY <2>1
  <2> QED BY <2>2, LocksNothing
<1> QED
  BY <1>1, <1>2, <1>3, <1>4, <1>5, <1>6, <1>7, <1>8, <1>9, <1>10, <1>11, <1>12

\* What a step leaves to do: it locks before its end, if at all, as the whole did.
LEMMA TailLocks ==
  ASSUME NEW p \in Seq(AllSteps), p # <<>>
  PROVE  /\ OneLock(p) => OneLock(Tail(p))
         /\ HasLock(Tail(p)) => HasLock(p)
         /\ Head(p) = "lock" => HasLock(p) /\ ~LocksInside(p)
         /\ OneLock(p) /\ Head(p) = "lock" => ~HasLock(Tail(p))
         /\ LocksInside(p) /\ Head(p) \notin Opens => LocksInside(Tail(p))
<1>1. /\ Len(p) \in Nat \ {0} /\ 1 \in 1 .. Len(p) /\ Head(p) = p[1]
      /\ Len(Tail(p)) = Len(p) - 1
      /\ \A i \in 1 .. Len(Tail(p)) : i + 1 \in 1 .. Len(p) /\ Tail(p)[i] = p[i + 1]
  BY TailOfSteps
<1>2. OneLock(p) => OneLock(Tail(p))
  <2> SUFFICES ASSUME OneLock(p), NEW i \in 1 .. Len(Tail(p)), NEW j \in 1 .. Len(Tail(p)),
                      Tail(p)[i] = "lock", Tail(p)[j] = "lock"
               PROVE  i = j
    BY DEF OneLock
  <2>1. i + 1 = j + 1
    BY <1>1 DEF OneLock
  <2> QED BY <2>1
<1>3. HasLock(Tail(p)) => HasLock(p)
  BY <1>1 DEF HasLock
<1>4. Head(p) = "lock" => HasLock(p) /\ ~LocksInside(p)
  BY <1>1 DEF HasLock, LocksInside
<1>5. OneLock(p) /\ Head(p) = "lock" => ~HasLock(Tail(p))
  <2> SUFFICES ASSUME OneLock(p), p[1] = "lock", NEW j \in 1 .. Len(Tail(p)), Tail(p)[j] = "lock"
               PROVE  FALSE
    BY <1>1 DEF HasLock
  <2>1. j + 1 = 1
    BY <1>1 DEF OneLock
  <2> QED BY <2>1
<1>6. LocksInside(p) /\ Head(p) \notin Opens => LocksInside(Tail(p))
  <2> SUFFICES ASSUME LocksInside(p), p[1] \notin Opens,
                      NEW j \in 1 .. Len(Tail(p)), Tail(p)[j] = "lock"
               PROVE  \E i \in 1 .. Len(Tail(p)) : i < j /\ Tail(p)[i] \in Opens
    BY <1>1 DEF LocksInside
  <2>1. PICK i \in 1 .. Len(p) : i < j + 1 /\ p[i] \in Opens
    BY <1>1 DEF LocksInside
  <2>2. i # 1
    BY <2>1
  <2>3. i - 1 \in 1 .. Len(Tail(p)) /\ i - 1 < j /\ (i - 1) + 1 = i
    BY <1>1, <2>1, <2>2
  <2> QED BY <1>1, <2>1, <2>3
<1> QED BY <1>2, <1>3, <1>4, <1>5, <1>6

\* Whoever ends a transaction has one, and nothing left to do after it.
LEMMA EndIsLast ==
  ASSUME PoolInv, NEW r \in Requests, stage[r] = "running", Next1(r) \in Ends
  PROVE  tx[r] # None /\ Tail(steps[r]) = <<>>
<1>1. /\ steps[r] \in Seq(AllSteps) /\ steps[r] # <<>> /\ Next1(r) = Head(steps[r])
      /\ ambient[r] \in BOOLEAN
      /\ tx[r] = None => Outside(steps[r])
      /\ tx[r] # None => Inside(ambient[r], steps[r])
  BY RunningOne
<1>2. tx[r] # None
  <2>1. Head(steps[r]) \notin Opens
    BY <1>1 DEF Opens, Ends
  <2> QED BY <1>1, <2>1, TailOutside
<1> QED BY <1>1, <1>2, LastInside

\* Of a step of r, all others keep their steps, rows, transaction and locks.
LEMMA OthersKeepLocks ==
  ASSUME LInv, NEW r \in Requests, NEW q \in Requests \ {r},
         steps'[q] = steps[q], rows'[q] = rows[q], tx'[q] = tx[q],
         \A i \in Items : owner'[i] = q => owner[i] = q
  PROVE  RestLocks(q)' /\ LockedInOrder(q)'
<1>1. RestLocks(q) /\ LockedInOrder(q)
  BY DEF LInv
<1>2. RestLocks(q)'
  BY <1>1 DEF RestLocks
<1>3. LockedInOrder(q)'
  BY <1>1 DEF LockedInOrder
<1> QED BY <1>2, <1>3

\* A step that takes no lock, by what it does with the transaction.
LEMMA StepWithoutLock ==
  ASSUME PoolInv, LInv, NEW r \in Requests, stage[r] = "running",
         NEW left, Continue(r, left),
         \/ /\ left = Tail(steps[r]) /\ rows' = rows
            /\ tx[r] = None => tx'[r] # None \/ Next1(r) \notin Opens
         \/ left \in {<<>>, <<"rollback">>} /\ rows' = [rows EXCEPT ![r] = {}],
         \/ tx' = tx /\ owner' = owner
         \/ tx' = [tx EXCEPT ![r] = conn[r]] /\ conn[r] # None /\ owner' = owner
         \/ /\ tx' = [tx EXCEPT ![r] = None] /\ Tail(steps[r]) = <<>>
            /\ owner' = [i \in Items |-> IF owner[i] = r THEN None ELSE owner[i]]
  PROVE  LInv'
<1>1. /\ steps \in [Requests -> Seq(AllSteps)] /\ rows \in [Requests -> SUBSET Items]
      /\ tx \in [Requests -> Connections \cup {None}]
      /\ owner \in [Items -> Requests \cup {None}]
  BY DEF PoolInv, PoolTypeOK
<1>2. /\ steps'[r] = left /\ \A q \in Requests \ {r} : steps'[q] = steps[q]
      /\ \A q \in Requests \ {r} : rows'[q] = rows[q] /\ tx'[q] = tx[q]
  BY <1>1 DEF Continue
<1>3. /\ steps[r] \in Seq(AllSteps) /\ steps[r] # <<>> /\ Next1(r) = Head(steps[r])
  BY RunningOne
<1>4. /\ OneLock(<<>>) /\ ~HasLock(<<>>) /\ LocksInside(<<>>)
      /\ OneLock(<<"rollback">>) /\ ~HasLock(<<"rollback">>) /\ LocksInside(<<"rollback">>)
  BY DEF OneLock, HasLock, LocksInside
<1>5. /\ RestLocks(r) /\ LockedInOrder(r)
  BY DEF LInv
<1>6. /\ \/ rows'[r] = rows[r] /\ left = Tail(steps[r])
         \/ rows'[r] = {} /\ left \in {<<>>, <<"rollback">>}
      /\ \A j \in rows'[r] : j \in rows[r]
  BY <1>1
<1>7. OneLock(left) /\ (HasLock(left) => rows'[r] # {})
  <2>1. CASE rows'[r] = rows[r] /\ left = Tail(steps[r])
    BY <1>3, <1>5, <2>1, TailLocks DEF RestLocks
  <2>2. CASE left \in {<<>>, <<"rollback">>}
    BY <1>4, <2>2
  <2> QED BY <1>6, <2>1, <2>2
<1>8. tx'[r] = None => LocksInside(left)
  <2>1. CASE left \in {<<>>, <<"rollback">>}
    BY <1>4, <2>1
  <2>2. CASE left = Tail(steps[r]) /\ tx' = tx /\ (tx[r] = None => Next1(r) \notin Opens)
    BY <1>3, <1>5, <2>2, TailLocks DEF RestLocks
  <2>3. CASE tx' = [tx EXCEPT ![r] = conn[r]] /\ conn[r] # None
    BY <1>1, <2>3
  <2>4. CASE left = Tail(steps[r]) /\ Tail(steps[r]) = <<>>
    BY <1>4, <2>4
  <2> QED BY <2>1, <2>2, <2>3, <2>4
<1>9. RestLocks(r)'
  BY <1>2, <1>7, <1>8 DEF RestLocks
<1>10. \A q \in Requests : q # None
  BY PoolAssumption
<1>11. /\ \A i \in Items, q \in Requests : owner'[i] = q => owner[i] = q
       /\ \A i \in Items : owner'[i] = r /\ tx[r] # None => tx'[r] # None
  BY <1>1, <1>10
<1>12. LockedInOrder(r)'
  BY <1>5, <1>6, <1>11 DEF LockedInOrder
<1>13. ASSUME NEW q \in Requests \ {r} PROVE RestLocks(q)' /\ LockedInOrder(q)'
  BY <1>2, <1>11, <1>13, OthersKeepLocks
<1> QED BY <1>9, <1>12, <1>13 DEF LInv

\* The row a request locks is the least it wants, and its transaction is open.
LEMMA LockKeepsOrder ==
  ASSUME PoolInv, LInv, NEW r \in Requests, LockRow(r)
  PROVE  LInv'
<1>1. PICK i \in MayLock(r) :
        /\ owner[i] = None
        /\ owner' = [owner EXCEPT ![i] = r] /\ rows' = [rows EXCEPT ![r] = rows[r] \ {i}]
        /\ Continue(r, IF rows[r] = {i} THEN Tail(steps[r]) ELSE steps[r])
  BY DEF LockRow
<1>2. stage[r] = "running" /\ Next1(r) = "lock" /\ tx' = tx
  BY DEF LockRow
<1>3. /\ steps \in [Requests -> Seq(AllSteps)] /\ rows \in [Requests -> SUBSET Items]
      /\ owner \in [Items -> Requests \cup {None}] /\ Items \subseteq Nat
  BY PoolAssumption DEF PoolInv, PoolTypeOK
<1>4. /\ steps'[r] = (IF rows[r] = {i} THEN Tail(steps[r]) ELSE steps[r])
      /\ rows'[r] = rows[r] \ {i}
      /\ \A q \in Requests \ {r} : steps'[q] = steps[q] /\ rows'[q] = rows[q]
  BY <1>1, <1>3 DEF Continue
<1>5. i \in rows[r] /\ i \in Items /\ \A j \in rows[r] : i <= j
  BY <1>1, <1>3 DEF MayLock
<1>6. steps[r] \in Seq(AllSteps) /\ steps[r] # <<>> /\ Head(steps[r]) = "lock"
  BY <1>2, RunningOne
<1>7. RestLocks(r) /\ LockedInOrder(r)
  BY DEF LInv
<1>8. tx[r] # None
  BY <1>6, <1>7, TailLocks DEF RestLocks
<1>9. RestLocks(r)'
  <2>1. CASE rows[r] = {i}
    <3>1. OneLock(Tail(steps[r])) /\ ~HasLock(Tail(steps[r])) /\ steps'[r] = Tail(steps[r])
      BY <1>4, <1>6, <1>7, <2>1, TailLocks DEF RestLocks
    <3> QED BY <1>2, <1>8, <3>1 DEF RestLocks
  <2>2. CASE rows[r] # {i}
    <3>1. rows'[r] # {} /\ steps'[r] = steps[r]
      BY <1>4, <1>5, <2>2
    <3> QED BY <1>2, <1>7, <1>8, <3>1 DEF RestLocks
  <2> QED BY <2>1, <2>2
<1>10. LockedInOrder(r)'
  <2> SUFFICES ASSUME NEW k \in Items, owner'[k] = r
               PROVE  tx'[r] # None /\ \A j \in rows'[r] : k < j
    BY DEF LockedInOrder
  <2>1. CASE k = i
    BY <1>2, <1>3, <1>4, <1>5, <1>8, <2>1
  <2>2. CASE k # i
    <3>1. owner[k] = r
      BY <1>1, <1>3, <2>2
    <3> QED BY <1>2, <1>4, <1>7, <1>8, <3>1 DEF LockedInOrder
  <2> QED BY <2>1, <2>2
<1>11. ASSUME NEW q \in Requests \ {r} PROVE RestLocks(q)' /\ LockedInOrder(q)'
  <2>1. \A k \in Items : owner'[k] = q => owner[k] = q
    BY <1>1, <1>3
  <2>2. tx'[q] = tx[q]
    BY <1>2
  <2> QED BY <1>4, <2>1, <2>2, OthersKeepLocks
<1> QED BY <1>9, <1>10, <1>11 DEF LInv

\* A request that begins holds nothing and has all of its rows to lock.
LEMMA StartKeepsLocks ==
  ASSUME PoolInv, LInv, NEW r \in Requests, Receive(r)
  PROVE  LInv'
<1>1. PICK k \in Kinds : \E ids \in ItemsOf(k) : Start(r, k, ids)
  BY DEF Receive
<1>2. PICK ids \in ItemsOf(k) : Start(r, k, ids)
  BY <1>1
<1>3. /\ stage[r] = "new" /\ steps' = [steps EXCEPT ![r] = Program[k]]
      /\ rows' = [rows EXCEPT ![r] = ids] /\ tx' = tx /\ owner' = owner
  BY <1>2 DEF Start
<1>4. /\ OneLock(Program[k]) /\ LocksInside(Program[k])
      /\ HasLock(Program[k]) => k \in Batches \cup OneItem
  BY PoolAssumption, LockingPrograms
<1>5. HasLock(Program[k]) => ids # {}
  <2> SUFFICES ASSUME HasLock(Program[k]) PROVE ids # {}
    OBVIOUS
  <2>1. ids \in ItemsOf(k)
    BY <1>2
  <2>2. CASE k \in Batches
    <3>1. ids \in (SUBSET Items) \ {{}}
      BY <2>1, <2>2 DEF ItemsOf
    <3> QED BY <3>1
  <2>3. CASE k \notin Batches
    <3>1. k \in OneItem
      BY <1>4, <2>3
    <3>2. PICK i \in Items : ids = {i}
      BY <2>1, <2>3, <3>1 DEF ItemsOf
    <3> QED BY <3>2
  <2> QED BY <2>2, <2>3
<1>6. /\ steps'[r] = Program[k] /\ rows'[r] = ids
      /\ \A q \in Requests \ {r} : steps'[q] = steps[q] /\ rows'[q] = rows[q]
  BY <1>3 DEF PoolInv, PoolTypeOK
<1>7. tx[r] = None
  BY <1>3 DEF PoolInv, Shape, Inside
<1>8. RestLocks(r)'
  BY <1>4, <1>5, <1>6 DEF RestLocks
<1>9. LockedInOrder(r)'
  BY <1>3, <1>7 DEF LInv, LockedInOrder
<1>10. ASSUME NEW q \in Requests \ {r} PROVE RestLocks(q)' /\ LockedInOrder(q)'
  BY <1>3, <1>6, OthersKeepLocks
<1> QED BY <1>8, <1>9, <1>10 DEF LInv

LEMMA StepLocks == PoolInv /\ LInv /\ [PoolNext]_poolVars => LInv'
<1> SUFFICES ASSUME PoolInv, LInv, [PoolNext]_poolVars PROVE LInv'
  OBVIOUS
<1>1. CASE UNCHANGED poolVars \/ \E r \in Requests : Ask(r)
  <2>1. steps' = steps /\ rows' = rows /\ tx' = tx /\ owner' = owner
    BY <1>1 DEF poolVars, Ask
  <2> QED BY <2>1 DEF LInv, RestLocks, LockedInOrder
<1>2. ASSUME NEW r \in Requests, Query(r) PROVE LInv'
  <2>1. Next1(r) \notin Opens
    BY <1>2 DEF Query, Opens
  <2> QED BY <1>2, <2>1, StepWithoutLock DEF Query
<1>3. ASSUME NEW r \in Requests, Join(r) PROVE LInv'
  <2>1. stage[r] = "running" /\ ambient[r]
    BY <1>3 DEF Join, JoinsAmbient
  <2>2. tx[r] # None
    BY <2>1, RunningOne
  <2> QED BY <1>3, <2>1, <2>2, StepWithoutLock DEF Join
<1>4. ASSUME NEW r \in Requests, OpenTransaction(r) PROVE LInv'
  <2>1. tx'[r] = conn[r] /\ conn[r] # None
    BY <1>4 DEF OpenTransaction, PoolInv, PoolTypeOK
  <2> QED BY <1>4, <2>1, StepWithoutLock DEF OpenTransaction
<1>5. ASSUME NEW r \in Requests, EndTransaction(r) PROVE LInv'
  <2>1. stage[r] = "running" /\ Next1(r) \in Ends /\ Next1(r) \notin Opens
    BY <1>5 DEF EndTransaction, Ends, Opens
  <2>2. Tail(steps[r]) = <<>>
    BY <2>1, EndIsLast
  <2> QED BY <1>5, <2>1, <2>2, StepWithoutLock DEF EndTransaction
<1>6. ASSUME NEW r \in Requests, FailInTransaction(r) PROVE LInv'
  BY <1>6, StepWithoutLock DEF FailInTransaction
<1>7. ASSUME NEW r \in Requests, FailQuery(r) PROVE LInv'
  <2>1. Continue(r, <<>>) \/ Continue(r, <<"rollback">>)
    BY <1>7 DEF FailQuery
  <2> QED BY <1>7, <2>1, StepWithoutLock DEF FailQuery
<1>8. ASSUME NEW r \in Requests, LockRow(r) PROVE LInv'
  BY <1>8, LockKeepsOrder
<1>9. ASSUME NEW r \in Requests, Receive(r) PROVE LInv'
  BY <1>9, StartKeepsLocks
<1> QED BY <1>1, <1>2, <1>3, <1>4, <1>5, <1>6, <1>7, <1>8, <1>9 DEF PoolNext, Step, AllAnswered

-------------------------------------------------------------------------------
(* The least row of some and the greatest of finitely many.                  *)

\* By the well-foundedness of < on the naturals.
LEMMA LeastRow ==
  ASSUME NEW S, S \subseteq Nat, S # {}
  PROVE  \E i \in S : \A j \in S : i <= j
<1>1. PICK i \in S : \A j \in S : <<j, i>> \notin OpToRel(<, Nat)
  BY WFMin, NatLessThanWellFounded, Zenon
<1>2. \A j \in S : ~(j < i)
  BY <1>1 DEF OpToRel
<1> QED BY <1>2

\* By induction over the finite set.
LEMMA GreatestRow ==
  ASSUME NEW S, IsFiniteSet(S), S \subseteq Nat, S # {}
  PROVE  \E i \in S : \A j \in S : j <= i
<1> DEFINE G == {s \in SUBSET S : s # {} => \E i \in s : \A j \in s : j <= i}
<1>1. ASSUME NEW s \in SUBSET S, \A x \in s : s \ {x} \in G PROVE s \in G
  <2> SUFFICES ASSUME s # {} PROVE \E i \in s : \A j \in s : j <= i
    OBVIOUS
  <2>1. PICK x \in s : TRUE
    OBVIOUS
  <2>2. CASE s \ {x} = {}
    <3>1. \A j \in s : j = x
      BY <2>2
    <3> QED BY <3>1
  <2>3. CASE s \ {x} # {}
    <3>1. PICK i \in s \ {x} : \A j \in s \ {x} : j <= i
      BY <1>1, <2>3
    <3>2. CASE x <= i
      BY <3>1, <3>2
    <3>3. CASE ~(x <= i)
      BY <3>1, <3>3
    <3> QED BY <3>2, <3>3
  <2> QED BY <2>2, <2>3
<1> HIDE DEF G
<1>2. SUBSET S \subseteq G
  BY <1>1, SetInduction
<1> QED BY <1>2 DEF G

-------------------------------------------------------------------------------
(* A request that waits leads to one that does not.                          *)

\* Whoever holds a connection or a row is running and waits for no connection.
LEMMA HoldersRun ==
  ASSUME PoolInv, JInv, NEW r \in Requests, tx[r] # None \/ conn[r] # None
  PROVE  r \in Busy /\ r \notin Range(waiting)
<1>1. steps[r] # <<>>
  BY DEF PoolInv, Shape, Inside, AskersNeed, Asks
<1>2. r \in Busy
  BY <1>1 DEF PoolInv, Shape, Busy
<1>3. conn[r] # None => r \notin Range(waiting)
  BY DEF PoolInv, PoolTypeOK, QueueOK, Range
<1>4. tx[r] # None => r \notin Range(waiting)
  BY HoldersAskForNone DEF HoldersTakeNoSecondConnection
<1> QED BY <1>2, <1>3, <1>4

\* If somebody waits for a connection, somebody holds one.
LEMMA SomebodyHolds ==
  ASSUME PoolInv, JInv, Connections # {}, NEW w \in Range(waiting)
  PROVE  \E r \in Busy : r \notin Range(waiting)
<1>1. free = {}
  BY DEF PoolInv, Accounted, Range
<1>2. PICK c \in Connections : TRUE
  OBVIOUS
<1>3. PICK r \in Requests : c = tx[r] \/ c = conn[r]
  BY <1>1, <1>2 DEF PoolInv, Accounted
<1> QED BY <1>3, HoldersRun, PoolAssumption

\* Whoever waits for a row has one to wait for.
LEMMA WantsARow ==
  ASSUME PoolInv, LInv, NEW r \in Requests, r \in Busy, WaitsForRow(r)
  PROVE  rows[r] # {}
<1>1. steps[r] \in Seq(AllSteps) /\ steps[r] # <<>> /\ Head(steps[r]) = "lock"
  BY RunningOne DEF Busy, WaitsForRow
<1> QED BY <1>1, TailLocks DEF LInv, RestLocks

\* Whoever waits for a row waits for one whose holder, if it waits for a row too,
\* waits for a greater one.
LEMMA GreaterRowIsWanted ==
  ASSUME PoolInv, JInv, LInv, NEW q \in Requests, WaitsForRow(q), NEW i \in MayLock(q)
  PROVE  \E p \in Busy : /\ p \notin Range(waiting)
                         /\ WaitsForRow(p) => \E j \in MayLock(p) : i < j
<1>1. /\ rows \in [Requests -> SUBSET Items] /\ owner \in [Items -> Requests \cup {None}]
      /\ Items \subseteq Nat
  BY PoolAssumption DEF PoolInv, PoolTypeOK
<1>2. i \in Items /\ owner[i] # None
  BY <1>1 DEF WaitsForRow, MayLock
<1>3. PICK p \in Requests : owner[i] = p
  BY <1>1, <1>2
<1>4. tx[p] # None /\ \A j \in rows[p] : i < j
  BY <1>2, <1>3 DEF LInv, LockedInOrder
<1>5. p \in Busy /\ p \notin Range(waiting)
  BY <1>4, HoldersRun
<1>6. ASSUME WaitsForRow(p) PROVE \E j \in MayLock(p) : i < j
  <2>1. rows[p] # {}
    BY <1>5, <1>6, WantsARow
  <2>2. PICK j \in rows[p] : \A k \in rows[p] : j <= k
    BY <1>1, <2>1, LeastRow
  <2> QED BY <1>4, <2>2 DEF MayLock
<1> QED BY <1>5, <1>6

\* Where all requests join their transactions, there is a connection and there are
\* finitely many items, the requests never all wait: whoever waits for a connection waits
\* for one that holds it, and a row is held by one that waits, if it does, for a greater
\* row; the one that waits for the greatest would have to wait for a greater one.
THEOREM SomebodyGoesOn ==
  ASSUME Kinds \subseteq JoiningOnly, Connections # {}, IsFiniteSet(Items)
  PROVE  PoolSpec => []PoolIsNeverStuck
<1>1. PoolInit => JInv /\ LInv
  <2>1. JoinOnceOpen(<<>>) /\ OneLock(<<>>) /\ LocksInside(<<>>) /\ ~HasLock(<<>>)
    BY DEF JoinOnceOpen, OneLock, LocksInside, HasLock
  <2> QED BY <2>1, PoolAssumption
          DEF PoolInit, JInv, RestJoins, LInv, RestLocks, LockedInOrder
<1>2. PoolInv /\ JInv /\ [PoolNext]_poolVars => JInv'
  BY StepJoins
<1>3. PoolInv /\ JInv /\ LInv => PoolIsNeverStuck
  <2> SUFFICES ASSUME PoolInv, JInv, LInv, NEW r0 \in Busy,
                      \A r \in Busy : r \in Range(waiting) \/ WaitsForRow(r)
               PROVE  FALSE
    BY DEF PoolIsNeverStuck
  <2> DEFINE Waited == {i \in Items : \E q \in Busy : WaitsForRow(q) /\ i \in MayLock(q)}
  <2>1. Items \subseteq Nat /\ rows \in [Requests -> SUBSET Items]
    BY PoolAssumption DEF PoolInv, PoolTypeOK
  <2>2. PICK q \in Busy : WaitsForRow(q)
    BY SomebodyHolds
  <2>3. ASSUME NEW p \in Busy, WaitsForRow(p) PROVE \E j \in Waited : j \in MayLock(p)
    <3>1. rows[p] # {} /\ rows[p] \subseteq Items
      BY <2>1, <2>3, WantsARow DEF Busy
    <3>2. PICK j \in rows[p] : \A k \in rows[p] : j <= k
      BY <2>1, <3>1, LeastRow
    <3> QED BY <2>3, <3>1, <3>2 DEF MayLock
  <2>4. Waited # {}
    BY <2>2, <2>3
  <2>5. IsFiniteSet(Waited) /\ Waited \subseteq Nat
    BY <2>1, FS_Subset
  <2>6. PICK i \in Waited : \A j \in Waited : j <= i
    BY <2>4, <2>5, GreatestRow
  <2>7. PICK w \in Busy : WaitsForRow(w) /\ i \in MayLock(w)
    BY <2>6
  <2>8. PICK p : /\ p \in Busy /\ p \notin Range(waiting)
                 /\ WaitsForRow(p) => \E j \in MayLock(p) : i < j
    BY <2>7, GreaterRowIsWanted DEF Busy
  <2>9. p \in Busy /\ WaitsForRow(p)
    BY <2>8
  <2>10. PICK j \in MayLock(p) : i < j
    BY <2>8, <2>9
  <2>11. j \in Items
    BY <2>1, <2>9, <2>10 DEF MayLock, Busy
  <2>12. j \in Waited
    BY <2>9, <2>10, <2>11
  <2> QED BY <2>5, <2>6, <2>10, <2>12
<1> QED BY <1>1, <1>2, <1>3, InitPool, StepPool, StepLocks, PTL DEF PoolSpec

-------------------------------------------------------------------------------
(*****************************************************************************)
(* The readiness probe, for every set of dependencies, timeout and bound.    *)
(*****************************************************************************)

\* A check is up because its dependency answered since the probe began.
UpMeansAnswered ==
  probe.at = "asking" =>
    \A d \in Dependencies : probe.checks[d] = "up" => probe.since <= replied[d]

\* A check that waits leaves room for one more late question.
RoomForLate == \A d \in Dependencies : Waits(d) => late[d] < MaxLate

ReadinessInv ==
  ReadinessTypeOK /\ UpMeansAnswered /\ RoomForLate /\ ReadyMeansAllAnswered /\ ProbeEndsInTime

LEMMA InitReadiness == ReadinessInit => ReadinessInv
  BY ReadinessAssumption
  DEF ReadinessInit, NoReport, ReadinessInv, ReadinessTypeOK, UpMeansAnswered, RoomForLate, Waits,
      ReadyMeansAllAnswered, ProbeEndsInTime

\* A check that settles leaves the probe as it is otherwise.
LEMMA SettledProbe ==
  ASSUME ReadinessTypeOK, NEW d \in Dependencies, NEW state \in {"up", "down"}, Settle(d, state)
  PROVE  /\ probe'.at = probe.at /\ probe'.since = probe.since
         /\ probe'.checks = [probe.checks EXCEPT ![d] = state]
         /\ probe' \in [at : {"idle", "asking"}, since : 0 .. now,
                        checks : [Dependencies -> {"asked", "up", "down"}]]
  BY DEF Settle, ReadinessTypeOK

\* Nothing but a check, its late question and its reply has changed.
LEMMA SettleKeepsInv ==
  ASSUME ReadinessInv, NEW d \in Dependencies, NEW state \in {"up", "down"},
         Waits(d), Settle(d, state), UNCHANGED <<now, report>>,
         \/ replied' = [replied EXCEPT ![d] = now] /\ late' = late
         \/ replied' = replied /\ late' = late /\ state = "down"
         \/ replied' = replied /\ late' = [late EXCEPT ![d] = late[d] + 1] /\ state = "down"
  PROVE  ReadinessInv'
<1>1. ReadinessTypeOK /\ UpMeansAnswered /\ RoomForLate /\ ReadyMeansAllAnswered /\ ProbeEndsInTime
  BY DEF ReadinessInv
<1>2. /\ probe'.at = probe.at /\ probe'.since = probe.since
      /\ probe'.checks = [probe.checks EXCEPT ![d] = state]
      /\ probe' \in [at : {"idle", "asking"}, since : 0 .. now,
                     checks : [Dependencies -> {"asked", "up", "down"}]]
  BY <1>1, SettledProbe
<1>3. probe.checks \in [Dependencies -> {"asked", "up", "down"}] /\ probe.since \in 0 .. now
  BY <1>1 DEF ReadinessTypeOK
<1>4. late' \in [Dependencies -> 0 .. MaxLate]
  BY <1>1, ReadinessAssumption DEF ReadinessTypeOK, RoomForLate
<1>5. replied' \in [Dependencies -> 0 .. now] /\ \A e \in Dependencies : replied[e] <= replied'[e]
  BY <1>1, ReadinessAssumption DEF ReadinessTypeOK
<1>6. ReadinessTypeOK'
  BY <1>1, <1>2, <1>4, <1>5 DEF ReadinessTypeOK
<1>7. UpMeansAnswered'
  <2>1. SUFFICES ASSUME probe.at = "asking", NEW e \in Dependencies, probe'.checks[e] = "up"
                 PROVE  probe.since <= replied'[e]
    BY <1>2 DEF UpMeansAnswered
  <2>2. CASE e = d
    <3>1. state = "up"
      BY <1>2, <1>3, <2>1, <2>2
    <3>2. replied' = [replied EXCEPT ![d] = now]
      BY <3>1
    <3>3. replied'[e] = now
      BY <1>1, <2>2, <3>2 DEF ReadinessTypeOK
    <3> QED BY <1>1, <1>3, <3>3 DEF ReadinessTypeOK
  <2>3. CASE e # d
    <3>1. probe.checks[e] = "up" /\ replied'[e] = replied[e]
      BY <1>1, <1>2, <1>3, <2>1, <2>3 DEF ReadinessTypeOK
    <3> QED BY <1>1, <2>1, <3>1 DEF UpMeansAnswered
  <2> QED BY <2>2, <2>3
<1>8. RoomForLate'
  <2>1. SUFFICES ASSUME NEW e \in Dependencies, probe'.at = "asking", probe'.checks[e] = "asked"
                 PROVE  late'[e] < MaxLate
    BY DEF RoomForLate, Waits
  <2>2. e # d /\ probe.checks[e] = "asked"
    BY <1>2, <1>3, <2>1
  <2>3. late'[e] = late[e]
    BY <1>1, <2>2 DEF ReadinessTypeOK
  <2> QED BY <1>1, <1>2, <2>1, <2>2, <2>3 DEF RoomForLate, Waits
<1>9. ReadyMeansAllAnswered'
  <2>1. report.status = "ok" => \A e \in Dependencies : report.asked <= replied[e]
    BY <1>1 DEF ReadyMeansAllAnswered
  <2>2. report.asked \in Int /\ \A e \in Dependencies : replied[e] \in Int /\ replied'[e] \in Int
    BY <1>1, <1>5 DEF ReadinessTypeOK
  <2> QED BY <1>5, <2>1, <2>2 DEF ReadyMeansAllAnswered
<1>10. ProbeEndsInTime'
  BY <1>1, <1>2 DEF ProbeEndsInTime
<1> QED BY <1>6, <1>7, <1>8, <1>9, <1>10 DEF ReadinessInv

LEMMA StepReadiness == ReadinessInv /\ [ReadinessNext]_readinessVars => ReadinessInv'
<1> SUFFICES ASSUME ReadinessInv, [ReadinessNext]_readinessVars PROVE ReadinessInv'
  OBVIOUS
<1>1. ASSUME NEW d \in Dependencies, Answer(d) \/ Reject(d) PROVE ReadinessInv'
  BY <1>1, SettleKeepsInv DEF Answer, Reject
<1>2. ASSUME NEW d \in Dependencies, Expire(d) PROVE ReadinessInv'
  <2>1. late' = [late EXCEPT ![d] = late[d] + 1]
    BY <1>2 DEF Expire
  <2> QED BY <1>2, <2>1, SettleKeepsInv DEF Expire
<1> USE ReadinessAssumption
        DEF ReadinessInv, ReadinessTypeOK, UpMeansAnswered, RoomForLate, Waits, ReadyMeansAllAnswered, ProbeEndsInTime
<1>3. CASE UNCHANGED readinessVars
  BY <1>3 DEF readinessVars
<1>4. CASE Probe
  BY <1>4 DEF Probe
<1>5. CASE Report
  BY <1>5 DEF Report, Settled, Status
<1>6. CASE Tick
  BY <1>6 DEF Tick, Settled, Due
<1>7. ASSUME NEW d \in Dependencies, LateAnswer(d) PROVE ReadinessInv'
  BY <1>7 DEF LateAnswer
<1> QED BY <1>1, <1>2, <1>3, <1>4, <1>5, <1>6, <1>7 DEF ReadinessNext

\* The clock, the probe, the questions and the report are what ReadinessTypeOK says.
THEOREM ReadinessTypes == ReadinessSpec => []ReadinessTypeOK
<1>1. ReadinessInv => ReadinessTypeOK
  BY DEF ReadinessInv
<1> QED BY <1>1, InitReadiness, StepReadiness, PTL DEF ReadinessSpec

\* No report says ready unless every dependency answered the probe it is
\* about: neither one of them alone nor a late answer to an earlier probe.
THEOREM ReadyIsAnswered == ReadinessSpec => []ReadyMeansAllAnswered
<1>1. ReadinessInv => ReadyMeansAllAnswered
  BY DEF ReadinessInv
<1> QED BY <1>1, InitReadiness, StepReadiness, PTL DEF ReadinessSpec

\* No probe waits longer than the timeout, and no report comes later.
THEOREM ProbesEndInTime == ReadinessSpec => []ProbeEndsInTime
<1>1. ReadinessInv => ProbeEndsInTime
  BY DEF ReadinessInv
<1> QED BY <1>1, InitReadiness, StepReadiness, PTL DEF ReadinessSpec

-------------------------------------------------------------------------------
(*****************************************************************************)
(* The board, for any number of work orders, any writes, any filters and any *)
(* sizes of the pages: what a walk over it shows.  Work orders take the      *)
(* ranks from 1 on, each once, a page holds the ranks between two offsets,   *)
(* and what a client has seen are the ranks before its page.                 *)
(*****************************************************************************)

\* The rows, and what a client keeps of its walk.
BoardRows == [status : BoardStatuses, created : Stamps]
WalkRecords ==
  [at : {"idle", "reading", "done"}, statuses : SUBSET BoardStatuses, size : Nat \ {0},
   goal : {"totals", "short"}, page : Nat \ {0}, rows : [read : BOOLEAN, ids : Seq(Nat)],
   total : Int, seen : Seq(Nat), first : SUBSET Nat, opened : Nat, moved : Nat]

BoardTyped == table \in Seq(BoardRows) /\ Len(table) <= MaxOrders /\ walk \in WalkRecords

\* What the pages before this one hold, and this one.
Offset(page, size) == (page - 1) * size
Reached == IF walk.rows.read THEN walk.page * walk.size ELSE Offset(walk.page, walk.size)

\* What was read stands in the table, and full pages are no more than the table fills.
WalkFits ==
  /\ walk.first \cup Range(walk.seen) \cup Range(walk.rows.ids) \subseteq DOMAIN table
  /\ ~walk.rows.read => walk.rows.ids = << >>
  /\ walk.page <= MaxOrders + 1 /\ (walk.total = NotRead \/ walk.total \in 0 .. MaxOrders)
  /\ walk.at = "reading" /\ walk.rows.read =>
       /\ Len(walk.rows.ids) <= walk.size
       /\ Len(walk.rows.ids) = walk.size => walk.page * walk.size <= MaxOrders

\* Where nothing was written, what the client has seen is the beginning of the board.
Undisturbed ==
  walk.at # "idle" /\ walk.opened = 0 /\ walk.moved = 0 =>
    LET board == Board(walk.statuses)  offset == Offset(walk.page, walk.size) IN
    /\ \A k \in DOMAIN walk.seen : k \in DOMAIN board /\ walk.seen[k] = board[k]
    /\ walk.at = "done" => Len(walk.seen) = Len(board)
    /\ walk.at = "reading" =>
         /\ Len(walk.seen) = IF offset < Len(board) THEN offset ELSE Len(board)
         /\ walk.rows.read => walk.rows.ids = Page(walk.statuses, walk.page, walk.size)
         /\ walk.total # NotRead => walk.total = Len(board)

\* Where nothing moved, a work order of the beginning was read or is still to come.
StillToCome ==
  walk.at # "idle" /\ walk.moved = 0 =>
    /\ walk.first \subseteq Matching(walk.statuses)
    /\ walk.at = "done" /\ walk.goal = "short" => walk.first \subseteq Range(walk.seen)
    /\ walk.at = "reading" =>
         \A i \in walk.first :
           \/ i \in Range(walk.seen) \cup Range(walk.rows.ids)
           \/ /\ Rank(walk.statuses, i) > Reached
              /\ walk.rows.read => Len(walk.rows.ids) = walk.size

\* The invariant.
BoardInv == BoardTyped /\ WalkFits /\ Undisturbed /\ StillToCome

-------------------------------------------------------------------------------
(* The board: the work orders asked for, by rank. *)

\* The places of two sequences, one behind the other, hold what the two held.
LEMMA BehindHolds ==
  ASSUME NEW S, NEW s \in Seq(S), NEW t \in Seq(S)
  PROVE  /\ s \o t \in Seq(S) /\ Len(s \o t) = Len(s) + Len(t)
         /\ \A k \in DOMAIN (s \o t) : (s \o t)[k] = IF k <= Len(s) THEN s[k] ELSE t[k - Len(s)]
         /\ Range(s \o t) = Range(s) \cup Range(t)
<1>1. /\ s \o t \in Seq(S) /\ Len(s) \in Nat /\ Len(t) \in Nat
      /\ Len(s \o t) = Len(s) + Len(t) /\ DOMAIN (s \o t) = 1 .. Len(s) + Len(t)
      /\ DOMAIN s = 1 .. Len(s) /\ DOMAIN t = 1 .. Len(t)
  OBVIOUS
<1>2. \A k \in 1 .. Len(s) + Len(t) :
        (s \o t)[k] = IF k <= Len(s) THEN s[k] ELSE t[k - Len(s)]
  OBVIOUS
<1>3. \A k \in DOMAIN s : k \in DOMAIN (s \o t) /\ (s \o t)[k] = s[k]
  BY <1>1, <1>2
<1>4. \A k \in DOMAIN t :
        Len(s) + k \in DOMAIN (s \o t) /\ (s \o t)[Len(s) + k] = t[k]
  <2> SUFFICES ASSUME NEW k \in DOMAIN t
               PROVE  Len(s) + k \in DOMAIN (s \o t) /\ (s \o t)[Len(s) + k] = t[k]
    OBVIOUS
  <2>1. k \in 1 .. Len(t) BY <1>1
  <2>2. Len(s) + k \in 1 .. Len(s) + Len(t) /\ ~(Len(s) + k <= Len(s))
        /\ (Len(s) + k) - Len(s) = k
    BY <1>1, <2>1
  <2> QED BY <1>1, <1>2, <2>2
<1>5. \A k \in DOMAIN (s \o t) :
        \/ k \in DOMAIN s /\ (s \o t)[k] = s[k]
        \/ k - Len(s) \in DOMAIN t /\ (s \o t)[k] = t[k - Len(s)]
  BY <1>1, <1>2
<1>6. Range(s \o t) \subseteq Range(s) \cup Range(t) BY <1>5 DEF Range
<1>7. Range(s) \cup Range(t) \subseteq Range(s \o t) BY <1>3, <1>4 DEF Range
<1> QED BY <1>1, <1>2, <1>6, <1>7

\* The numbers from 1 to n are n.
LEMMA NumbersUpTo ==
  ASSUME NEW n \in Nat
  PROVE  IsFiniteSet(1 .. n) /\ Cardinality(1 .. n) = n
<1>1. IsFiniteSet(1 .. n) BY FS_Interval
<1>2. Cardinality(1 .. n) = IF 1 > n THEN 0 ELSE n - 1 + 1 BY FS_Interval
<1> QED BY <1>1, <1>2

\* A status listed has a position.
LEMMA PositionIsNumber ==
  ASSUME NEW st \in BoardStatuses
  PROVE  Position(st) \in Int
<1>1. DOMAIN BOARD_STATUS_ORDER \subseteq Int BY DEF BOARD_STATUS_ORDER
<1>2. \E k \in DOMAIN BOARD_STATUS_ORDER : BOARD_STATUS_ORDER[k] = st
  BY DEF BoardStatuses, Range
<1> QED BY <1>1, <1>2 DEF Position

\* The rows, with the numbers they are ordered by.
LEMMA RowsAreNumbered ==
  ASSUME BoundsAssumption, BoardTyped
  PROVE  /\ DOMAIN table = 1 .. Len(table) /\ Len(table) \in Nat /\ DOMAIN table \subseteq Nat
         /\ \A i \in DOMAIN table : /\ table[i].status \in BoardStatuses
                                    /\ table[i].created \in Nat
                                    /\ Position(table[i].status) \in Int
<1>1. /\ DOMAIN table = 1 .. Len(table) /\ Len(table) \in Nat
      /\ \A i \in DOMAIN table : table[i] \in BoardRows
  <2>1. table \in Seq(BoardRows) BY DEF BoardTyped
  <2> HIDE DEF BoardRows
  <2> QED BY <2>1
<1>2. \A i \in DOMAIN table : table[i].status \in BoardStatuses /\ table[i].created \in Nat
  BY <1>1 DEF BoardRows, BoundsAssumption
<1> QED BY <1>1, <1>2, PositionIsNumber

\* Of two work orders one is before the other, and who is before that one is before both.
LEMMA BoardIsInOrder ==
  ASSUME BoundsAssumption, BoardTyped
  PROVE  /\ \A i \in DOMAIN table : ~ListedBefore(i, i)
         /\ \A i, j \in DOMAIN table : i # j => ListedBefore(i, j) \/ ListedBefore(j, i)
         /\ \A i, j, k \in DOMAIN table :
              ListedBefore(i, j) /\ ListedBefore(j, k) => ListedBefore(i, k)
<1> DEFINE p(i) == Position(table[i].status)
           c(i) == table[i].created
<1>1. \A i \in DOMAIN table : i \in Nat /\ p(i) \in Int /\ c(i) \in Nat
  BY RowsAreNumbered
<1>2. \A i, j : ListedBefore(i, j) <=> \/ p(i) < p(j)
                                       \/ p(i) = p(j) /\ c(i) < c(j)
                                       \/ p(i) = p(j) /\ c(i) = c(j) /\ i < j
  BY DEF ListedBefore
<1> HIDE DEF p, c
<1> QED BY <1>1, <1>2

\* The work orders before another, which its rank counts.
Ahead(statuses, i) == {j \in Matching(statuses) : ListedBefore(j, i)}

\* Who is ahead of a work order is countable, and no rank is beyond the table.
LEMMA RanksAreNumbers ==
  ASSUME BoundsAssumption, BoardTyped, NEW statuses
  PROVE  /\ IsFiniteSet(Matching(statuses)) /\ Cardinality(Matching(statuses)) \in Nat
         /\ Cardinality(Matching(statuses)) <= Len(table)
         /\ \A i : IsFiniteSet(Ahead(statuses, i)) /\ Rank(statuses, i) \in Nat \ {0}
         /\ \A i : Rank(statuses, i) = Cardinality(Ahead(statuses, i)) + 1
<1>1. DOMAIN table = 1 .. Len(table) /\ Len(table) \in Nat BY RowsAreNumbered
<1>2. IsFiniteSet(DOMAIN table) /\ Cardinality(DOMAIN table) = Len(table)
  BY <1>1, NumbersUpTo
<1>3. Matching(statuses) \in SUBSET DOMAIN table BY DEF Matching
<1>4. /\ IsFiniteSet(Matching(statuses)) /\ Cardinality(Matching(statuses)) \in Nat
      /\ Cardinality(Matching(statuses)) <= Len(table)
  BY <1>2, <1>3, FS_Subset, FS_CardinalityType
<1>5. ASSUME NEW i
      PROVE  /\ IsFiniteSet(Ahead(statuses, i)) /\ Cardinality(Ahead(statuses, i)) \in Nat
             /\ Rank(statuses, i) = Cardinality(Ahead(statuses, i)) + 1
  <2>1. Ahead(statuses, i) \in SUBSET Matching(statuses) BY DEF Ahead
  <2> QED BY <1>4, <2>1, FS_Subset, FS_CardinalityType DEF Rank, Ahead
<1> QED BY <1>4, <1>5

\* Ranks go up along the board, so each is taken once and none is left out.
LEMMA RanksFillTheBoard ==
  ASSUME BoundsAssumption, BoardTyped, NEW statuses
  PROVE  /\ \A i \in Matching(statuses) : Rank(statuses, i) \in 1 .. Cardinality(Matching(statuses))
         /\ \A i, j \in Matching(statuses) : Rank(statuses, i) = Rank(statuses, j) => i = j
         /\ \A k \in 1 .. Cardinality(Matching(statuses)) :
              \E i \in Matching(statuses) : Rank(statuses, i) = k
<1> DEFINE S == Matching(statuses)
           N == Cardinality(S)
<1>1. /\ IsFiniteSet(S) /\ N \in Nat /\ S \subseteq DOMAIN table
      /\ \A i : IsFiniteSet(Ahead(statuses, i)) /\ Rank(statuses, i) \in Nat \ {0}
      /\ \A i : Rank(statuses, i) = Cardinality(Ahead(statuses, i)) + 1
  BY RanksAreNumbers DEF Matching
<1>2. ASSUME NEW i \in S PROVE Rank(statuses, i) \in 1 .. N
  <2>1. Ahead(statuses, i) \in SUBSET S BY DEF Ahead
  <2>2. i \notin Ahead(statuses, i) BY <1>1, BoardIsInOrder DEF Ahead
  <2>3. Cardinality(Ahead(statuses, i)) <= N /\ Cardinality(Ahead(statuses, i)) # N
    <3>1. Cardinality(Ahead(statuses, i)) <= N BY <1>1, <2>1, FS_Subset
    <3>2. Cardinality(Ahead(statuses, i)) = N => Ahead(statuses, i) = S
      BY <1>1, <2>1, FS_Subset
    <3> QED BY <2>2, <3>1, <3>2
  <2>4. Rank(statuses, i) \in Nat \ {0} /\ Rank(statuses, i) = Cardinality(Ahead(statuses, i)) + 1
        /\ Cardinality(Ahead(statuses, i)) \in Nat
    BY <1>1, FS_CardinalityType
  <2> HIDE DEF N
  <2> QED BY <1>1, <2>3, <2>4
<1>3. ASSUME NEW i \in S, NEW j \in S, ListedBefore(i, j)
      PROVE  Rank(statuses, i) # Rank(statuses, j)
  <2>1. Ahead(statuses, i) \in SUBSET Ahead(statuses, j) BY <1>1, <1>3, BoardIsInOrder DEF Ahead
  <2>2. i \in Ahead(statuses, j) /\ i \notin Ahead(statuses, i)
    BY <1>1, <1>3, BoardIsInOrder DEF Ahead
  <2>3. Cardinality(Ahead(statuses, j)) # Cardinality(Ahead(statuses, i))
    BY <1>1, <2>1, <2>2, FS_Subset
  <2>4. Cardinality(Ahead(statuses, i)) \in Nat /\ Cardinality(Ahead(statuses, j)) \in Nat
    BY <1>1, FS_CardinalityType
  <2> QED BY <1>1, <2>3, <2>4
<1>4. ASSUME NEW i \in S, NEW j \in S, Rank(statuses, i) = Rank(statuses, j)
      PROVE  i = j
  BY <1>1, <1>3, <1>4, BoardIsInOrder
<1>5. ASSUME NEW k \in 1 .. N PROVE \E i \in S : Rank(statuses, i) = k
  <2> DEFINE rank == [i \in S |-> Rank(statuses, i)]
  <2>1. rank \in Injection(S, 1 .. N)
    <3>1. rank \in [S -> 1 .. N] BY <1>2
    <3>2. IsInjective(rank) BY <1>4 DEF IsInjective
    <3> QED BY <3>1, <3>2 DEF Injection
  <2> HIDE DEF rank
  <2>2. IsFiniteSet(1 .. N) /\ Cardinality(1 .. N) = N
    <3> HIDE DEF N
    <3> QED BY <1>1, NumbersUpTo
  <2>3. rank \in Surjection(S, 1 .. N) BY <1>1, <2>1, <2>2, FS_Injection
  <2>4. \E i \in S : rank[i] = k BY <2>3 DEF Surjection
  <2> QED BY <2>4 DEF rank
<1> QED BY <1>2, <1>4, <1>5

\* The board holds each work order asked for at its rank.
LEMMA BoardIs ==
  ASSUME BoundsAssumption, BoardTyped, NEW statuses
  PROVE  /\ Board(statuses) \in Seq(Nat) /\ Len(Board(statuses)) <= Len(table)
         /\ Len(Board(statuses)) = Cardinality(Matching(statuses))
         /\ Len(Board(statuses)) \in Nat /\ DOMAIN Board(statuses) = 1 .. Len(Board(statuses))
         /\ Range(Board(statuses)) \subseteq DOMAIN table
         /\ \A i \in Matching(statuses) :
              /\ Rank(statuses, i) \in DOMAIN Board(statuses)
              /\ Board(statuses)[Rank(statuses, i)] = i
<1> DEFINE S == Matching(statuses)
           N == Cardinality(S)
           b == Board(statuses)
<1>1. N \in Nat /\ N <= Len(table) /\ S \subseteq DOMAIN table /\ DOMAIN table \subseteq Nat
  BY RanksAreNumbers, RowsAreNumbered DEF Matching
<1>2. b = [k \in 1 .. N |-> CHOOSE i \in S : Rank(statuses, i) = k] BY DEF Board
<1>3. ASSUME NEW k \in 1 .. N PROVE b[k] \in S /\ Rank(statuses, b[k]) = k
  <2>1. \E i \in S : Rank(statuses, i) = k BY RanksFillTheBoard
  <2> QED BY <1>2, <2>1
<1>4. ASSUME NEW i \in S PROVE Rank(statuses, i) \in 1 .. N /\ b[Rank(statuses, i)] = i
  <2>1. Rank(statuses, i) \in 1 .. N BY RanksFillTheBoard
  <2>2. b[Rank(statuses, i)] \in S /\ Rank(statuses, b[Rank(statuses, i)]) = Rank(statuses, i)
    BY <1>3, <2>1
  <2> QED BY <2>1, <2>2, RanksFillTheBoard
<1>5. DOMAIN b = 1 .. N BY <1>2
<1> HIDE DEF b, N, S
<1>6. b \in [1 .. N -> Nat] BY <1>1, <1>2, <1>3
<1>7. b \in Seq(Nat) /\ Len(b) = N BY <1>1, <1>6
<1>8. Range(b) \subseteq DOMAIN table BY <1>1, <1>3, <1>5 DEF Range
<1> QED BY <1>1, <1>4, <1>5, <1>7, <1>8 DEF b, N, S

\* The offset of the next page.
LEMMA OffsetsGoOn ==
  ASSUME NEW page \in Nat \ {0}, NEW size \in Nat \ {0}
  PROVE  /\ Offset(page, size) \in Nat /\ page * size \in Nat /\ page <= page * size
         /\ page * size = Offset(page, size) + size /\ Offset(page + 1, size) = page * size
<1>1. Offset(page, size) = page * size - size
  <2>1. (page - 1) * size = page * size - size OBVIOUS
  <2> QED BY <2>1 DEF Offset
<1>2. page * size \in Nat /\ size <= page * size /\ page <= page * size OBVIOUS
<1>3. Offset(page + 1, size) = page * size
  <2>1. (page + 1) - 1 = page OBVIOUS
  <2> QED BY <2>1 DEF Offset
<1> QED BY <1>1, <1>2, <1>3

\* A page is the stretch of the board behind its offset.
LEMMA PageIs ==
  ASSUME BoundsAssumption, BoardTyped, NEW statuses, NEW page \in Nat \ {0},
         NEW size \in Nat \ {0}
  PROVE  LET ids == Page(statuses, page, size)
             board == Board(statuses)
             offset == Offset(page, size)
         IN  /\ ids \in Seq(Nat) /\ Range(ids) \subseteq DOMAIN table
             /\ Len(ids) = IF page * size < Len(board) THEN size
                           ELSE IF offset < Len(board) THEN Len(board) - offset ELSE 0
             /\ \A k \in DOMAIN ids : offset + k \in DOMAIN board /\ ids[k] = board[offset + k]
             /\ \A i \in Matching(statuses) :
                  offset < Rank(statuses, i) /\ Rank(statuses, i) <= page * size
                    => i \in Range(ids)
<1> DEFINE ids == Page(statuses, page, size)
           board == Board(statuses)
           offset == Offset(page, size)
           last == IF page * size < Len(board) THEN page * size ELSE Len(board)
           long == IF page * size < Len(board) THEN size
                   ELSE IF offset < Len(board) THEN Len(board) - offset ELSE 0
<1>1. /\ board \in Seq(Nat) /\ Len(board) \in Nat /\ DOMAIN board = 1 .. Len(board)
      /\ Range(board) \subseteq DOMAIN table
      /\ \A i \in Matching(statuses) :
           Rank(statuses, i) \in DOMAIN board /\ board[Rank(statuses, i)] = i
  BY BoardIs
<1>2. offset \in Nat /\ page * size \in Nat /\ page * size = offset + size BY OffsetsGoOn
<1>3. ids = SubSeq(board, offset + 1, last) BY DEF Page, Offset
<1> HIDE DEF ids, board, offset
<1>4. last \in Nat /\ last <= Len(board) /\ long \in Nat
      /\ long = IF offset + 1 <= last THEN last - offset ELSE 0
  BY <1>1, <1>2
<1>5. /\ ids \in Seq(Nat) /\ Len(ids) = long /\ DOMAIN ids = 1 .. long
      /\ \A k \in 1 .. long : offset + k \in DOMAIN board /\ ids[k] = board[offset + k]
  <2>1. CASE offset + 1 <= last
    <3> HIDE DEF last, long
    <3>1. /\ ids \in Seq(Nat) /\ Len(ids) = last - (offset + 1) + 1
          /\ \A k \in 1 .. (last - (offset + 1) + 1) : ids[k] = board[(offset + 1) + k - 1]
      BY <1>1, <1>2, <1>3, <1>4, <2>1
    <3>2. last - (offset + 1) + 1 = long BY <1>2, <1>4, <2>1
    <3>3. \A k \in 1 .. long : (offset + 1) + k - 1 = offset + k /\ offset + k \in 1 .. Len(board)
      BY <1>1, <1>2, <1>4, <2>1
    <3>4. DOMAIN ids = 1 .. Len(ids) BY <3>1
    <3> QED BY <1>1, <3>1, <3>2, <3>3, <3>4
  <2>2. CASE ~(offset + 1 <= last)
    <3> HIDE DEF last, long
    <3>1. ids = << >> /\ long = 0 BY <1>1, <1>2, <1>3, <1>4, <2>2
    <3> QED BY <3>1
  <2> QED BY <2>1, <2>2
<1>6. Range(ids) \subseteq DOMAIN table BY <1>1, <1>5 DEF Range
<1>7. ASSUME NEW i \in Matching(statuses), offset < Rank(statuses, i),
             Rank(statuses, i) <= page * size
      PROVE  i \in Range(ids)
  <2> DEFINE k == Rank(statuses, i) - offset
  <2>1. Rank(statuses, i) \in 1 .. Len(board) /\ board[Rank(statuses, i)] = i BY <1>1
  <2>2. k \in 1 .. long /\ offset + k = Rank(statuses, i) BY <1>1, <1>2, <1>7, <2>1
  <2> HIDE DEF k
  <2>3. k \in DOMAIN ids /\ ids[k] = i BY <1>5, <2>1, <2>2
  <2> QED BY <2>3 DEF Range
<1> QED BY <1>5, <1>6, <1>7 DEF ids, board, offset

\* A client that goes by the totals stops where the pages hold them all, and not before.
LEMMA TotalsCountThePages ==
  ASSUME NEW total \in Nat, NEW size \in Nat \ {0}, NEW page \in Nat \ {0}
  PROVE  /\ ~(page < TotalPages(total, size)) => total <= page * size
         /\ page < TotalPages(total, size) => page < total
<1> DEFINE q == TotalPages(total, size)
<1>1. q \in Int /\ size * q <= total + size - 1 /\ total + size - 1 < size * q + size
  BY DEF TotalPages
<1> HIDE DEF q
<1>2. ASSUME ~(page < q) PROVE total <= page * size
  <2>1. size * q <= size * page BY <1>1, <1>2
  <2>2. size * page = page * size /\ size * page \in Int /\ size * q \in Int BY <1>1
  <2> QED BY <1>1, <2>1, <2>2
<1>3. ASSUME page < q PROVE page < total
  <2>1. size * (page + 1) <= size * q BY <1>1, <1>3
  <2>2. size * (page + 1) = size * page + size /\ page <= size * page
        /\ size * page \in Int /\ size * q \in Int
    BY <1>1
  <2> QED BY <1>1, <2>1, <2>2
<1> QED BY <1>2, <1>3 DEF q

\* An opening takes nothing off the board, and nobody goes up on it.
LEMMA OpeningPushes ==
  ASSUME BoundsAssumption, BoardTyped, BoardTyped', NEW created, OpenOrder(created), NEW statuses
  PROVE  /\ DOMAIN table \subseteq DOMAIN table' /\ Len(table') = Len(table) + 1
         /\ Matching(statuses) \subseteq Matching(statuses)'
         /\ \A i \in DOMAIN table : Rank(statuses, i)' >= Rank(statuses, i)
<1>1. /\ Len(table') = Len(table) + 1 /\ DOMAIN table \subseteq DOMAIN table'
      /\ \A i \in DOMAIN table : table'[i] = table[i]
  <2> DEFINE row == [status |-> "RECEIVED", created |-> created]
             R == BoardRows \cup {row}
  <2>1. table \in Seq(BoardRows) /\ table' = Append(table, row) BY DEF OpenOrder, BoardTyped
  <2> HIDE DEF row, BoardRows
  <2>2. table \in Seq(R) /\ row \in R BY <2>1
  <2> HIDE DEF R
  <2> QED BY <2>1, <2>2
<1>2. Matching(statuses) \subseteq Matching(statuses)' BY <1>1 DEF Matching
<1>3. \A i, j \in DOMAIN table : ListedBefore(i, j)' <=> ListedBefore(i, j)
  BY <1>1 DEF ListedBefore
<1>4. ASSUME NEW i \in DOMAIN table PROVE Rank(statuses, i)' >= Rank(statuses, i)
  <2>0. Len(table) \in Nat BY RowsAreNumbered
  <2>1. Ahead(statuses, i) \in SUBSET Ahead(statuses, i)'
    <3>1. Matching(statuses) \subseteq DOMAIN table BY DEF Matching
    <3> QED BY <1>2, <1>3, <3>1 DEF Ahead
  <2>2. /\ Rank(statuses, i) = Cardinality(Ahead(statuses, i)) + 1
        /\ IsFiniteSet(Ahead(statuses, i))
    BY RanksAreNumbers
  <2>3. /\ Rank(statuses, i)' = Cardinality(Ahead(statuses, i)') + 1
        /\ IsFiniteSet(Ahead(statuses, i)')
    <3>1. DOMAIN table' = 1 .. Len(table') /\ Len(table') \in Int
      BY <1>1, <2>0 DEF BoardTyped
    <3>2. IsFiniteSet(DOMAIN table') BY <3>1, FS_Interval
    <3>3. Ahead(statuses, i)' \in SUBSET DOMAIN table' BY DEF Ahead, Matching
    <3> QED BY <3>2, <3>3, FS_Subset DEF Rank, Ahead
  <2>4. Cardinality(Ahead(statuses, i)) <= Cardinality(Ahead(statuses, i)')
    BY <2>1, <2>3, FS_Subset
  <2> QED BY <2>2, <2>3, <2>4, FS_CardinalityType
<1> QED BY <1>1, <1>2, <1>4

-------------------------------------------------------------------------------
(* The walk. *)

\* The statuses the model names are those of the board.
LEMMA StatusesOfTheBoard ==
  /\ {"RECEIVED", "IN_DIAGNOSIS", "AWAITING_APPROVAL", "IN_EXECUTION", "COMPLETED", "DELIVERED",
      "CANCELED"} \subseteq BoardStatuses
  /\ \A st : NextStatuses(st) \subseteq BoardStatuses
<1>1. /\ 1 \in DOMAIN BOARD_STATUS_ORDER /\ BOARD_STATUS_ORDER[1] = "IN_EXECUTION"
      /\ 2 \in DOMAIN BOARD_STATUS_ORDER /\ BOARD_STATUS_ORDER[2] = "AWAITING_APPROVAL"
      /\ 3 \in DOMAIN BOARD_STATUS_ORDER /\ BOARD_STATUS_ORDER[3] = "IN_DIAGNOSIS"
      /\ 4 \in DOMAIN BOARD_STATUS_ORDER /\ BOARD_STATUS_ORDER[4] = "RECEIVED"
      /\ 5 \in DOMAIN BOARD_STATUS_ORDER /\ BOARD_STATUS_ORDER[5] = "COMPLETED"
      /\ 6 \in DOMAIN BOARD_STATUS_ORDER /\ BOARD_STATUS_ORDER[6] = "DELIVERED"
      /\ 7 \in DOMAIN BOARD_STATUS_ORDER /\ BOARD_STATUS_ORDER[7] = "CANCELED"
  BY DEF BOARD_STATUS_ORDER
<1>2. \A k \in DOMAIN BOARD_STATUS_ORDER : BOARD_STATUS_ORDER[k] \in BoardStatuses
  BY DEF BoardStatuses, Range
<1>3. {"RECEIVED", "IN_DIAGNOSIS", "AWAITING_APPROVAL", "IN_EXECUTION", "COMPLETED", "DELIVERED",
       "CANCELED"} \subseteq BoardStatuses
  BY <1>1, <1>2
<1> QED BY <1>3 DEF NextStatuses

\* What the fields of a walk hold.
LEMMA WalkHas ==
  ASSUME BoardTyped
  PROVE  /\ walk \in WalkRecords /\ walk.at \in {"idle", "reading", "done"}
         /\ walk.size \in Nat \ {0} /\ walk.page \in Nat \ {0}
         /\ walk.rows.ids \in Seq(Nat) /\ Len(walk.rows.ids) \in Nat
         /\ walk.seen \in Seq(Nat) /\ Len(walk.seen) \in Nat
         /\ walk.opened \in Nat /\ walk.moved \in Nat
         /\ walk.rows \in [read : BOOLEAN, ids : Seq(Nat)]
<1>1. walk \in WalkRecords BY DEF BoardTyped
<1>2. /\ walk.rows \in [read : BOOLEAN, ids : Seq(Nat)] /\ walk.seen \in Seq(Nat)
      /\ walk.at \in {"idle", "reading", "done"} /\ walk.size \in Nat \ {0}
      /\ walk.page \in Nat \ {0} /\ walk.opened \in Nat /\ walk.moved \in Nat
  BY <1>1 DEF WalkRecords
<1>3. walk.rows.ids \in Seq(Nat) BY <1>2
<1>4. Len(walk.rows.ids) \in Nat /\ Len(walk.seen) \in Nat BY <1>2, <1>3
<1> QED BY <1>1, <1>2, <1>3, <1>4

\* A walk that meets a write is a walk.
LEMMA WalkMeets ==
  ASSUME walk \in WalkRecords, NEW n \in Nat
  PROVE  [walk EXCEPT !.opened = n] \in WalkRecords /\ [walk EXCEPT !.moved = n] \in WalkRecords
<1> DEFINE Rows == [read : BOOLEAN, ids : Seq(Nat)]
           Lists == Seq(Nat)
           Parts == SUBSET BoardStatuses
           Firsts == SUBSET Nat
<1>1. WalkRecords = [at : {"idle", "reading", "done"}, statuses : Parts, size : Nat \ {0},
                     goal : {"totals", "short"}, page : Nat \ {0}, rows : Rows,
                     total : Int, seen : Lists, first : Firsts, opened : Nat, moved : Nat]
  BY DEF WalkRecords
<1> HIDE DEF Rows, Lists, Parts, Firsts
<1> QED BY <1>1
\* So is one whose query of the rows is answered.
LEMMA WalkReads ==
  ASSUME walk \in WalkRecords, NEW ids \in Seq(Nat)
  PROVE  [walk EXCEPT !.rows = [read |-> TRUE, ids |-> ids]] \in WalkRecords
<1> DEFINE Rows == [read : BOOLEAN, ids : Seq(Nat)]
           Lists == Seq(Nat)
           Parts == SUBSET BoardStatuses
           Firsts == SUBSET Nat
<1>1. WalkRecords = [at : {"idle", "reading", "done"}, statuses : Parts, size : Nat \ {0},
                     goal : {"totals", "short"}, page : Nat \ {0}, rows : Rows,
                     total : Int, seen : Lists, first : Firsts, opened : Nat, moved : Nat]
  BY DEF WalkRecords
<1>2. PICK answer \in Rows : answer = [read |-> TRUE, ids |-> ids]
  OBVIOUS
<1> HIDE DEF Rows, Lists, Parts, Firsts
<1>3. [walk EXCEPT !.rows = answer] \in WalkRecords BY <1>1
<1> QED BY <1>2, <1>3

\* So is one whose query of the total is answered.
LEMMA WalkCounts ==
  ASSUME walk \in WalkRecords, NEW total \in Int
  PROVE  [walk EXCEPT !.total = total] \in WalkRecords
<1> DEFINE Rows == [read : BOOLEAN, ids : Seq(Nat)]
           Lists == Seq(Nat)
           Parts == SUBSET BoardStatuses
           Firsts == SUBSET Nat
<1>1. WalkRecords = [at : {"idle", "reading", "done"}, statuses : Parts, size : Nat \ {0},
                     goal : {"totals", "short"}, page : Nat \ {0}, rows : Rows,
                     total : Int, seen : Lists, first : Firsts, opened : Nat, moved : Nat]
  BY DEF WalkRecords
<1> HIDE DEF Rows, Lists, Parts, Firsts
<1> QED BY <1>1

\* So is one that turns the page.
LEMMA WalkTurns ==
  ASSUME walk \in WalkRecords, NEW more \in BOOLEAN, NEW page \in Nat \ {0},
         NEW seen \in Seq(Nat)
  PROVE  [walk EXCEPT !.at = IF more THEN "reading" ELSE "done", !.page = page, !.seen = seen,
                      !.rows = Unread, !.total = NotRead] \in WalkRecords
<1> DEFINE Rows == [read : BOOLEAN, ids : Seq(Nat)]
           Lists == Seq(Nat)
           Parts == SUBSET BoardStatuses
           Firsts == SUBSET Nat
<1>1. WalkRecords = [at : {"idle", "reading", "done"}, statuses : Parts, size : Nat \ {0},
                     goal : {"totals", "short"}, page : Nat \ {0}, rows : Rows,
                     total : Int, seen : Lists, first : Firsts, opened : Nat, moved : Nat]
  BY DEF WalkRecords
<1>2. Unread \in Rows /\ seen \in Lists /\ NotRead \in Int BY DEF Unread, NotRead
<1> HIDE DEF Rows, Lists, Parts, Firsts
<1> QED BY <1>1, <1>2
\* Where no row is written, the board is the same.
LEMMA BoardStays ==
  ASSUME UNCHANGED table, NEW statuses
  PROVE  /\ Board(statuses)' = Board(statuses) /\ Matching(statuses)' = Matching(statuses)
         /\ \A i : Rank(statuses, i)' = Rank(statuses, i)
         /\ \A page, size : Page(statuses, page, size)' = Page(statuses, page, size)
<1>1. \A i, j : ListedBefore(i, j)' = ListedBefore(i, j) BY DEF ListedBefore
<1>2. Matching(statuses)' = Matching(statuses) BY DEF Matching
<1>3. \A i : Rank(statuses, i)' = Rank(statuses, i)
  <2> SUFFICES ASSUME NEW i PROVE Rank(statuses, i)' = Rank(statuses, i) OBVIOUS
  <2>1. {j \in Matching(statuses) : ListedBefore(j, i)}'
          = {j \in Matching(statuses) : ListedBefore(j, i)}
    BY <1>1, <1>2
  <2> QED BY <2>1 DEF Rank
<1>4. Board(statuses)' = Board(statuses) BY <1>2, <1>3 DEF Board
<1> QED BY <1>2, <1>3, <1>4 DEF Page

\* An opening pushes rows to later pages, and ends the claim of a quiet walk.
LEMMA OpenOrderKeeps ==
  ASSUME BoundsAssumption, BoardInv, NEW created \in Stamps, OpenOrder(created)
  PROVE  BoardInv'
<1>1. BoardTyped'
  <2> DEFINE row == [status |-> "RECEIVED", created |-> created]
  <2>1. row \in BoardRows BY StatusesOfTheBoard DEF BoardRows
  <2>2. table \in Seq(BoardRows) /\ Len(table) \in Nat /\ table' = Append(table, row)
        /\ Len(table) < MaxOrders /\ MaxOrders \in Nat
    BY RowsAreNumbered DEF OpenOrder, BoardInv, BoardTyped, BoundsAssumption
  <2> HIDE DEF row, BoardRows
  <2>3. table' \in Seq(BoardRows) /\ Len(table') = Len(table) + 1 BY <2>1, <2>2
  <2>4. walk' \in WalkRecords
    <3>1. walk \in WalkRecords /\ walk.opened + 1 \in Nat BY WalkHas DEF BoardInv
    <3>2. walk' = walk \/ walk' = [walk EXCEPT !.opened = walk.opened + 1] BY DEF OpenOrder
    <3> QED BY <3>1, <3>2, WalkMeets
  <2> QED BY <2>2, <2>3, <2>4 DEF BoardTyped
<1>2. /\ walk'.at = walk.at /\ walk'.statuses = walk.statuses /\ walk'.size = walk.size
      /\ walk'.goal = walk.goal /\ walk'.page = walk.page /\ walk'.rows = walk.rows
      /\ walk'.total = walk.total /\ walk'.seen = walk.seen /\ walk'.first = walk.first
      /\ walk'.moved = walk.moved /\ (walk.at # "idle" => walk'.opened = walk.opened + 1)
  BY DEF OpenOrder, BoardInv, BoardTyped, WalkRecords
<1>3. PICK statuses : statuses = walk.statuses OBVIOUS
<1>4. /\ DOMAIN table \subseteq DOMAIN table' /\ Matching(statuses) \subseteq Matching(statuses)'
      /\ \A i \in DOMAIN table : Rank(statuses, i)' >= Rank(statuses, i)
  BY <1>1, OpeningPushes DEF BoardInv
<1>5. WalkFits' BY <1>2, <1>4 DEF BoardInv, WalkFits
<1>6. Undisturbed'
  <2>1. walk'.at # "idle" => walk'.opened # 0 BY <1>2, WalkHas DEF BoardInv
  <2> QED BY <2>1 DEF Undisturbed
<1>7. StillToCome'
  <2>1. Reached' = Reached BY <1>2 DEF Reached, Offset
  <2>2. Reached \in Nat BY WalkHas, OffsetsGoOn DEF Reached, BoardInv
  <2>3. \A i \in DOMAIN table : Rank(statuses, i) \in Nat BY RanksAreNumbers DEF BoardInv
  <2>4. \A i \in DOMAIN table : Rank(statuses, i)' \in Int
    <3>1. IsFiniteSet(DOMAIN table')
      <4>1. DOMAIN table' = 1 .. Len(table') /\ Len(table') \in Int
        <5>1. table' \in Seq(BoardRows) BY <1>1 DEF BoardTyped
        <5> HIDE DEF BoardRows
        <5> QED BY <5>1
      <4> QED BY <4>1, FS_Interval
    <3> SUFFICES ASSUME NEW i PROVE Rank(statuses, i)' \in Int OBVIOUS
    <3>2. {j \in Matching(statuses)' : ListedBefore(j, i)'} \in SUBSET DOMAIN table'
      BY DEF Matching
    <3>3. Cardinality({j \in Matching(statuses)' : ListedBefore(j, i)'}) \in Nat
      BY <3>1, <3>2, FS_Subset, FS_CardinalityType
    <3> QED BY <3>3 DEF Rank
  <2>5. walk.first \subseteq DOMAIN table BY DEF BoardInv, WalkFits
  <2>6. \A i \in walk.first : Rank(statuses, i) > Reached => Rank(statuses, i)' > Reached
    BY <1>4, <2>2, <2>3, <2>4, <2>5
  <2> QED BY <1>2, <1>3, <1>4, <2>1, <2>6 DEF BoardInv, StillToCome
<1> QED BY <1>1, <1>5, <1>6, <1>7 DEF BoardInv

\* A move ends what is claimed of the walk it meets.
LEMMA MoveOrderKeeps ==
  ASSUME BoundsAssumption, BoardInv, NEW i \in DOMAIN table, MoveOrder(i)
  PROVE  BoardInv'
<1>1. PICK st \in NextStatuses(table[i].status) : table' = [table EXCEPT ![i].status = st]
  BY DEF MoveOrder
<1>2. table' \in Seq(BoardRows) /\ Len(table') = Len(table) /\ DOMAIN table' = DOMAIN table
  <2>1. st \in BoardStatuses BY StatusesOfTheBoard
  <2>2. table \in Seq(BoardRows) BY DEF BoardInv, BoardTyped
  <2>3. PICK row : row = [table[i] EXCEPT !.status = st] OBVIOUS
  <2>4. table[i] \in BoardRows
    <3> HIDE DEF BoardRows
    <3> QED BY <2>2
  <2>5. row \in BoardRows BY <2>1, <2>3, <2>4 DEF BoardRows
  <2>6. table' = [table EXCEPT ![i] = row] BY <1>1, <2>3
  <2> HIDE DEF BoardRows
  <2> QED BY <2>2, <2>5, <2>6
<1>3. /\ walk'.at = walk.at /\ walk'.size = walk.size /\ walk'.page = walk.page
      /\ walk'.rows = walk.rows /\ walk'.total = walk.total /\ walk'.seen = walk.seen
      /\ walk'.first = walk.first /\ (walk.at # "idle" => walk'.moved = walk.moved + 1)
  BY DEF MoveOrder, BoardInv, BoardTyped, WalkRecords
<1>4. walk' \in WalkRecords
  <2>1. walk \in WalkRecords /\ walk.moved + 1 \in Nat BY WalkHas DEF BoardInv
  <2>2. walk' = walk \/ walk' = [walk EXCEPT !.moved = walk.moved + 1] BY DEF MoveOrder
  <2> QED BY <2>1, <2>2, WalkMeets
<1>5. walk'.at # "idle" => walk'.moved # 0 BY <1>3, WalkHas DEF BoardInv
<1>6. BoardTyped' BY <1>2, <1>4 DEF BoardInv, BoardTyped
<1>7. WalkFits' BY <1>2, <1>3 DEF BoardInv, WalkFits
<1> QED BY <1>5, <1>6, <1>7 DEF BoardInv, Undisturbed, StillToCome

\* A walk begins at offset 0, with all it must see still to come.
LEMMA StartWalkKeeps ==
  ASSUME BoundsAssumption, BoardInv, NEW filter, NEW size \in PageSizes,
         NEW goal \in {"totals", "short"}, StartWalk(filter, size, goal)
  PROVE  BoardInv'
<1>1. PICK statuses : statuses = Wanted(filter) OBVIOUS
<1>2. /\ walk' = [at |-> "reading", statuses |-> statuses, size |-> size, goal |-> goal,
                  page |-> 1, rows |-> Unread, total |-> NotRead, seen |-> << >>,
                  first |-> Matching(statuses), opened |-> 0, moved |-> 0]
      /\ table' = table
  BY <1>1 DEF StartWalk, NoWalk
<1>3. /\ statuses \in SUBSET BoardStatuses /\ size \in Nat \ {0}
      /\ Matching(statuses) \subseteq DOMAIN table /\ DOMAIN table \subseteq Nat
  BY <1>1, RowsAreNumbered DEF Wanted, BoundsAssumption, Matching, BoardInv
<1>4. Unread \in [read : BOOLEAN, ids : Seq(Nat)] /\ << >> \in Seq(Nat) /\ NotRead \in Int
      /\ Range(<< >>) = {} /\ Len(<< >>) = 0 /\ DOMAIN << >> = {}
      /\ Unread.read = FALSE /\ Unread.ids = << >>
  BY DEF Unread, NotRead, Range
<1>5. BoardTyped'
  <2>1. walk' \in WalkRecords BY <1>2, <1>3, <1>4 DEF WalkRecords
  <2> QED BY <1>2, <2>1 DEF BoardInv, BoardTyped
<1>6. WalkFits'
  <2>1. 1 <= MaxOrders + 1 BY DEF BoundsAssumption
  <2>2. /\ walk'.first = Matching(statuses) /\ walk'.seen = << >> /\ walk'.rows = Unread
        /\ walk'.page = 1 /\ walk'.total = NotRead
    BY <1>2
  <2> QED BY <1>2, <1>3, <1>4, <2>1, <2>2 DEF WalkFits
<1>7. Offset(1, size) = 0 BY <1>3 DEF Offset
<1>8. Undisturbed'
  <2>1. Len(Board(statuses)) \in Nat BY BoardIs DEF BoardInv
  <2>2. Board(statuses)' = Board(statuses) BY <1>2, BoardStays
  <2> QED BY <1>2, <1>4, <1>7, <2>1, <2>2 DEF Undisturbed
<1>9. StillToCome'
  <2>1. Matching(statuses)' = Matching(statuses) /\ \A i : Rank(statuses, i)' = Rank(statuses, i)
    BY <1>2, BoardStays
  <2>2. \A i : Rank(statuses, i) > 0
    <3>1. \A i : Rank(statuses, i) \in Nat \ {0} BY RanksAreNumbers DEF BoardInv
    <3>2. \A n \in Nat \ {0} : n > 0 OBVIOUS
    <3> QED BY <3>1, <3>2
  <2>3. Reached' = 0 BY <1>2, <1>4, <1>7 DEF Reached, Offset
  <2> QED BY <1>2, <1>4, <2>1, <2>2, <2>3 DEF StillToCome
<1> QED BY <1>5, <1>6, <1>8, <1>9 DEF BoardInv

\* A page holds the stretch of the board from its offset to the next.
LEMMA ReadRowsKeeps ==
  ASSUME BoundsAssumption, BoardInv, ReadRows
  PROVE  BoardInv'
<1>1. PICK statuses, size, page : statuses = walk.statuses /\ size = walk.size /\ page = walk.page
  OBVIOUS
<1>2. PICK ids : ids = Page(statuses, page, size) OBVIOUS
<1>3. PICK board : board = Board(statuses) OBVIOUS
<1>4. size \in Nat \ {0} /\ page \in Nat \ {0} /\ walk \in WalkRecords
  BY <1>1, WalkHas DEF BoardInv
<1>5. /\ ids \in Seq(Nat) /\ Range(ids) \subseteq DOMAIN table
      /\ Len(ids) = IF page * size < Len(board) THEN size
                    ELSE IF Offset(page, size) < Len(board) THEN Len(board) - Offset(page, size)
                    ELSE 0
      /\ \A i \in Matching(statuses) :
           Offset(page, size) < Rank(statuses, i) /\ Rank(statuses, i) <= page * size
             => i \in Range(ids)
  BY <1>2, <1>3, <1>4, PageIs DEF BoardInv
<1>6. /\ Len(board) \in Nat /\ Len(board) <= MaxOrders /\ MaxOrders \in Nat
      /\ DOMAIN board = 1 .. Len(board)
      /\ \A i \in Matching(statuses) : Rank(statuses, i) \in DOMAIN board
  <2>1. Len(table) \in Nat /\ Len(table) <= MaxOrders /\ MaxOrders \in Nat
    BY RowsAreNumbered DEF BoardInv, BoardTyped, BoundsAssumption
  <2>2. /\ Len(board) \in Nat /\ Len(board) <= Len(table) /\ DOMAIN board = 1 .. Len(board)
        /\ \A i \in Matching(statuses) : Rank(statuses, i) \in DOMAIN board
    BY <1>3, BoardIs DEF BoardInv
  <2> QED BY <2>1, <2>2
<1>7. /\ Offset(page, size) \in Nat /\ page * size \in Nat
      /\ page * size = Offset(page, size) + size
  BY <1>4, OffsetsGoOn
<1>8. Len(ids) <= size /\ (Len(ids) = size => page * size <= MaxOrders)
  BY <1>4, <1>5, <1>6, <1>7
<1>9. /\ walk' = [walk EXCEPT !.rows = [read |-> TRUE, ids |-> ids]] /\ table' = table
      /\ walk.at = "reading" /\ ~walk.rows.read
  BY <1>1, <1>2 DEF ReadRows, Reading
<1>10. /\ walk'.at = "reading" /\ walk'.statuses = statuses /\ walk'.size = size
       /\ walk'.goal = walk.goal /\ walk'.page = page /\ walk'.rows.read /\ walk'.rows.ids = ids
       /\ walk'.total = walk.total /\ walk'.seen = walk.seen /\ walk'.first = walk.first
       /\ walk'.opened = walk.opened /\ walk'.moved = walk.moved
  BY <1>1, <1>4, <1>9 DEF WalkRecords
<1>11. BoardTyped'
  <2>1. walk' \in WalkRecords BY <1>4, <1>5, <1>9, WalkReads
  <2> QED BY <1>9, <2>1 DEF BoardInv, BoardTyped
<1>12. WalkFits' BY <1>1, <1>5, <1>8, <1>9, <1>10 DEF BoardInv, WalkFits
<1>13. Undisturbed'
  <2>1. Board(statuses)' = board /\ Page(statuses, page, size)' = ids
    BY <1>2, <1>3, <1>9, BoardStays
  <2> QED BY <1>1, <1>3, <1>9, <1>10, <2>1 DEF BoardInv, Undisturbed, Offset
<1>14. StillToCome'
  <2>1. Matching(statuses)' = Matching(statuses) /\ \A i : Rank(statuses, i)' = Rank(statuses, i)
    BY <1>9, BoardStays
  <2>2. Reached = Offset(page, size) /\ Reached' = page * size
    BY <1>1, <1>9, <1>10 DEF Reached
  <2>3. ASSUME NEW i \in Matching(statuses), Rank(statuses, i) > Offset(page, size)
        PROVE  i \in Range(ids) \/ (Rank(statuses, i) > page * size /\ Len(ids) = size)
    BY <1>5, <1>6, <1>7, <2>3
  <2>4. ASSUME walk.moved = 0
        PROVE  /\ walk.first \subseteq Matching(statuses)
               /\ \A i \in walk.first : \/ i \in Range(walk.seen) \cup Range(walk.rows.ids)
                                        \/ Rank(statuses, i) > Offset(page, size)
    BY <1>1, <1>9, <2>2, <2>4 DEF BoardInv, StillToCome
  <2>5. walk.rows.ids = << >> BY <1>9 DEF BoardInv, WalkFits
  <2>6. Range(walk.rows.ids) = {} BY <2>5 DEF Range
  <2> QED BY <1>10, <2>1, <2>2, <2>3, <2>4, <2>6 DEF StillToCome
<1> QED BY <1>11, <1>12, <1>13, <1>14 DEF BoardInv

\* A total is the length of the board as it is.
LEMMA ReadTotalKeeps ==
  ASSUME BoundsAssumption, BoardInv, ReadTotal
  PROVE  BoardInv'
<1>1. PICK statuses : statuses = walk.statuses OBVIOUS
<1>2. PICK total : total = Cardinality(Matching(statuses)) OBVIOUS
<1>3. total \in Nat /\ total <= MaxOrders /\ total = Len(Board(statuses))
  <2>1. /\ total \in Nat /\ total <= Len(table) /\ total = Len(Board(statuses))
    BY <1>2, RanksAreNumbers, BoardIs DEF BoardInv
  <2>2. Len(table) \in Nat /\ Len(table) <= MaxOrders /\ MaxOrders \in Nat
    BY RowsAreNumbered DEF BoardInv, BoardTyped, BoundsAssumption
  <2> QED BY <2>1, <2>2
<1>4. /\ walk' = [walk EXCEPT !.total = total] /\ table' = table /\ walk.at = "reading"
      /\ walk \in WalkRecords
  BY <1>1, <1>2, WalkHas DEF ReadTotal, Reading, BoardInv
<1>5. /\ walk'.at = walk.at /\ walk'.statuses = statuses /\ walk'.size = walk.size
      /\ walk'.goal = walk.goal /\ walk'.page = walk.page /\ walk'.rows = walk.rows
      /\ walk'.total = total /\ walk'.seen = walk.seen /\ walk'.first = walk.first
      /\ walk'.opened = walk.opened /\ walk'.moved = walk.moved
  BY <1>1, <1>4 DEF WalkRecords
<1>6. BoardTyped'
  <2>1. walk' \in WalkRecords BY <1>3, <1>4, WalkCounts
  <2> QED BY <1>4, <2>1 DEF BoardInv, BoardTyped
<1>7. WalkFits'
  <2>1. total \in 0 .. MaxOrders BY <1>3 DEF BoundsAssumption
  <2> QED BY <1>4, <1>5, <2>1 DEF BoardInv, WalkFits
<1>8. Undisturbed'
  <2>1. Board(statuses)' = Board(statuses) BY <1>4, BoardStays
  <2>2. PICK page, size : page = walk.page /\ size = walk.size OBVIOUS
  <2>3. Page(statuses, page, size)' = Page(statuses, page, size) BY <1>4, BoardStays
  <2> QED BY <1>1, <1>3, <1>4, <1>5, <2>1, <2>2, <2>3 DEF BoardInv, Undisturbed, Offset
<1>9. StillToCome'
  <2>1. Matching(statuses)' = Matching(statuses) /\ \A i : Rank(statuses, i)' = Rank(statuses, i)
    BY <1>4, BoardStays
  <2>2. Reached' = Reached BY <1>5 DEF Reached, Offset
  <2> QED BY <1>1, <1>5, <2>1, <2>2 DEF BoardInv, StillToCome
<1> QED BY <1>6, <1>7, <1>8, <1>9 DEF BoardInv

\* The next page begins where this one ends; the last page ends with the board.
LEMMA TurnPageKeeps ==
  ASSUME BoundsAssumption, BoardInv, TurnPage
  PROVE  BoardInv'
<1>1. PICK statuses, size, page, ids, seen, total :
        /\ statuses = walk.statuses /\ size = walk.size /\ page = walk.page
        /\ ids = walk.rows.ids /\ seen = walk.seen /\ total = walk.total
  OBVIOUS
<1>2. PICK board : board = Board(statuses) OBVIOUS
<1>3. PICK more : more = IF Continues THEN TRUE ELSE FALSE
  OBVIOUS
<1>4. /\ size \in Nat \ {0} /\ page \in Nat \ {0} /\ walk \in WalkRecords
      /\ ids \in Seq(Nat) /\ Len(ids) \in Nat /\ seen \in Seq(Nat) /\ Len(seen) \in Nat
      /\ walk.goal \in {"totals", "short"}
  BY <1>1, WalkHas DEF BoardInv, WalkRecords
<1>5. /\ Offset(page, size) \in Nat /\ page * size \in Nat /\ page <= page * size
      /\ page * size = Offset(page, size) + size /\ Offset(page + 1, size) = page * size
  BY <1>4, OffsetsGoOn
<1>6. /\ Len(board) \in Nat /\ DOMAIN board = 1 .. Len(board) BY <1>2, BoardIs DEF BoardInv
<1>7. /\ walk.at = "reading" /\ walk.rows.read /\ table' = table /\ MaxOrders \in Nat
      /\ total \in 0 .. MaxOrders /\ total \in Nat
  BY <1>1 DEF TurnPage, Reading, BoardInv, WalkFits, BoundsAssumption
<1>8. /\ Len(ids) <= size /\ (Len(ids) = size => page * size <= MaxOrders)
      /\ page <= MaxOrders + 1
  BY <1>1, <1>7 DEF BoardInv, WalkFits
<1>9. walk' = [walk EXCEPT !.at = IF more THEN "reading" ELSE "done",
                           !.page = IF more THEN page + 1 ELSE page,
                           !.seen = seen \o ids, !.rows = Unread, !.total = NotRead]
  BY <1>1, <1>3 DEF TurnPage
<1>10. /\ walk'.at = (IF more THEN "reading" ELSE "done") /\ walk'.statuses = statuses
       /\ walk'.size = size /\ walk'.goal = walk.goal
       /\ walk'.page = (IF more THEN page + 1 ELSE page) /\ walk'.rows = Unread
       /\ walk'.total = NotRead /\ walk'.seen = seen \o ids /\ walk'.first = walk.first
       /\ walk'.opened = walk.opened /\ walk'.moved = walk.moved
       /\ ~walk'.rows.read /\ walk'.rows.ids = << >>
  BY <1>1, <1>4, <1>9 DEF WalkRecords, Unread
<1>11. /\ seen \o ids \in Seq(Nat) /\ Len(seen \o ids) = Len(seen) + Len(ids)
       /\ \A k \in DOMAIN (seen \o ids) :
            (seen \o ids)[k] = IF k <= Len(seen) THEN seen[k] ELSE ids[k - Len(seen)]
       /\ Range(seen \o ids) = Range(seen) \cup Range(ids)
  BY <1>4, BehindHolds
\* Where it goes on there is a page to go to, and where it stops there is none.
<1>12. /\ more => page <= MaxOrders
       /\ ~more /\ walk.goal = "totals" => total <= page * size
       /\ ~more /\ walk.goal = "short" => Len(ids) # size
  <2>1. /\ ~(page < TotalPages(total, size)) => total <= page * size
        /\ page < TotalPages(total, size) => page < total
    BY <1>4, <1>7, TotalsCountThePages
  <2>2. CASE walk.goal = "totals"
    <3>1. more <=> page < TotalPages(total, size) BY <1>1, <1>3, <2>2 DEF Continues
    <3> QED BY <1>4, <1>7, <2>1, <2>2, <3>1
  <2>3. CASE walk.goal = "short"
    <3>1. more <=> Len(ids) = size BY <1>1, <1>3, <2>3 DEF Continues
    <3> QED BY <1>4, <1>5, <1>7, <1>8, <2>3, <3>1
  <2> QED BY <1>4, <2>2, <2>3
<1>13. BoardTyped'
  <2>1. walk' \in WalkRecords
    <3>1. (IF more THEN page + 1 ELSE page) \in Nat \ {0} BY <1>4
    <3> QED BY <1>3, <1>4, <1>9, <1>11, <3>1, WalkTurns
  <2> QED BY <1>7, <2>1 DEF BoardInv, BoardTyped
<1>14. WalkFits'
  <2>1. walk'.page <= MaxOrders + 1 BY <1>4, <1>7, <1>8, <1>10, <1>12
  <2>2. Range(<< >>) = {} BY DEF Range
  <2>3. walk.first \cup Range(seen) \cup Range(ids) \subseteq DOMAIN table
    BY <1>1 DEF BoardInv, WalkFits
  <2> QED BY <1>7, <1>10, <1>11, <2>1, <2>2, <2>3 DEF WalkFits
<1>15. Undisturbed'
  <2> SUFFICES ASSUME walk.opened = 0, walk.moved = 0
               PROVE  /\ \A k \in DOMAIN (seen \o ids) :
                           k \in DOMAIN board /\ (seen \o ids)[k] = board[k]
                      /\ ~more => Len(seen \o ids) = Len(board)
                      /\ more => Len(seen \o ids) = IF page * size < Len(board) THEN page * size
                                                    ELSE Len(board)
    <3>1. Board(statuses)' = board BY <1>2, <1>7, BoardStays
    <3>2. more => Offset(walk'.page, size) = page * size BY <1>5, <1>10
    <3> QED BY <1>3, <1>10, <3>1, <3>2 DEF Undisturbed, Offset
  <2>1. /\ \A k \in DOMAIN seen : k \in DOMAIN board /\ seen[k] = board[k]
        /\ Len(seen) = IF Offset(page, size) < Len(board) THEN Offset(page, size) ELSE Len(board)
        /\ ids = Page(statuses, page, size) /\ total = Len(board)
    <3>1. walk.total # NotRead BY DEF TurnPage
    <3> QED BY <1>1, <1>2, <1>7, <3>1 DEF BoardInv, Undisturbed
  <2>2. /\ Len(ids) = IF page * size < Len(board) THEN size
                      ELSE IF Offset(page, size) < Len(board) THEN Len(board) - Offset(page, size)
                      ELSE 0
    BY <1>2, <1>4, <2>1, PageIs DEF BoardInv
  <2>7. \A k \in DOMAIN ids :
          Offset(page, size) + k \in DOMAIN board /\ ids[k] = board[Offset(page, size) + k]
    <3>1. \A k \in DOMAIN Page(statuses, page, size) :
            /\ Offset(page, size) + k \in DOMAIN Board(statuses)
            /\ Page(statuses, page, size)[k] = Board(statuses)[Offset(page, size) + k]
      BY <1>4, PageIs DEF BoardInv
    <3> QED BY <1>2, <2>1, <3>1
  <2>3. Len(seen) + Len(ids) = IF page * size < Len(board) THEN page * size ELSE Len(board)
    BY <1>4, <1>5, <1>6, <2>1, <2>2
  <2>4. ~more => ~(page * size < Len(board))
    BY <1>4, <1>5, <1>6, <1>12, <2>1, <2>2
  <2>5. DOMAIN seen = 1 .. Len(seen) /\ DOMAIN ids = 1 .. Len(ids)
        /\ DOMAIN (seen \o ids) = 1 .. Len(seen) + Len(ids)
    BY <1>4
  <2>6. ASSUME NEW k \in DOMAIN (seen \o ids)
        PROVE  k \in DOMAIN board /\ (seen \o ids)[k] = board[k]
    <3>1. k \in Nat /\ 1 <= k /\ k <= Len(seen) + Len(ids) BY <1>4, <2>5
    <3>2. CASE k <= Len(seen)
      <4>1. k \in DOMAIN seen BY <2>5, <3>1, <3>2, <1>4
      <4> QED BY <1>11, <2>1, <3>2, <4>1
    <3>3. CASE ~(k <= Len(seen))
      <4>1. k - Len(seen) \in DOMAIN ids BY <1>4, <2>5, <3>1, <3>3
      <4>2. Len(seen) = Offset(page, size)
        BY <1>4, <1>5, <1>6, <2>1, <2>2, <2>5, <3>1, <3>3
      <4>3. Offset(page, size) + (k - Len(seen)) = k BY <1>4, <1>5, <3>1, <4>2
      <4> QED BY <1>11, <2>7, <3>3, <4>1, <4>3
    <3> QED BY <3>2, <3>3
  <2> QED BY <1>11, <2>3, <2>4, <2>6
<1>16. StillToCome'
  <2> SUFFICES ASSUME walk.moved = 0
               PROVE  /\ walk.first \subseteq Matching(statuses)
                      /\ ~more /\ walk.goal = "short"
                           => walk.first \subseteq Range(seen) \cup Range(ids)
                      /\ more => \A i \in walk.first :
                                   \/ i \in Range(seen) \cup Range(ids)
                                   \/ Rank(statuses, i) > page * size
    <3>1. Matching(statuses)' = Matching(statuses) /\ \A i : Rank(statuses, i)' = Rank(statuses, i)
      BY <1>7, BoardStays
    <3>2. more => Reached' = page * size BY <1>5, <1>10 DEF Reached, Offset
    <3> QED BY <1>3, <1>10, <1>11, <3>1, <3>2 DEF StillToCome
  <2>1. /\ walk.first \subseteq Matching(statuses)
        /\ \A i \in walk.first : \/ i \in Range(seen) \cup Range(ids)
                                 \/ (Rank(statuses, i) > Reached /\ Len(ids) = size)
    BY <1>1, <1>7 DEF BoardInv, StillToCome
  <2>2. Reached = page * size BY <1>1, <1>7 DEF Reached
  <2> QED BY <1>12, <2>1, <2>2
<1> QED BY <1>13, <1>14, <1>15, <1>16 DEF BoardInv

\* A client that has done keeps nothing.
LEMMA EndWalkKeeps ==
  ASSUME BoundsAssumption, BoardInv, EndWalk
  PROVE  BoardInv'
<1>1. /\ table' \in Seq(BoardRows) /\ Len(table') <= MaxOrders /\ walk' = NoWalk
  BY DEF EndWalk, BoardInv, BoardTyped
<1>2. Unread \in [read : BOOLEAN, ids : Seq(Nat)] /\ << >> \in Seq(Nat) /\ NotRead \in Int
      /\ Range(<< >>) = {} /\ Unread.read = FALSE /\ Unread.ids = << >>
      /\ {} \in SUBSET BoardStatuses /\ {} \in SUBSET Nat
  BY DEF Unread, NotRead, Range
<1>3. walk' \in WalkRecords BY <1>1, <1>2 DEF NoWalk, WalkRecords
<1>4. BoardTyped' BY <1>1, <1>3 DEF BoardTyped
<1>5. /\ walk'.at = "idle" /\ walk'.first = {} /\ walk'.seen = << >> /\ walk'.rows = Unread
      /\ walk'.page = 1 /\ walk'.total = NotRead
  BY <1>1 DEF NoWalk
<1>6. WalkFits'
  <2>1. 1 <= MaxOrders + 1 BY DEF BoundsAssumption
  <2> QED BY <1>2, <1>5, <2>1 DEF WalkFits
<1>7. Undisturbed' /\ StillToCome' BY <1>5 DEF Undisturbed, StillToCome
<1> QED BY <1>4, <1>6, <1>7 DEF BoardInv

\* Nothing is opened and nobody walks.
LEMMA BoardBegins ==
  ASSUME BoundsAssumption, BoardInit
  PROVE  BoardInv
<1>0. table \in Seq(BoardRows) /\ Len(table) <= MaxOrders /\ walk = NoWalk
  BY DEF BoardInit, BoundsAssumption
<1>1. Unread \in [read : BOOLEAN, ids : Seq(Nat)] /\ << >> \in Seq(Nat) /\ NotRead \in Int
      /\ Range(<< >>) = {} /\ Unread.read = FALSE /\ Unread.ids = << >>
      /\ {} \in SUBSET BoardStatuses /\ {} \in SUBSET Nat
  BY DEF Unread, NotRead, Range
<1>2. walk \in WalkRecords BY <1>0, <1>1 DEF NoWalk, WalkRecords
<1>3. BoardTyped BY <1>0, <1>2 DEF BoardTyped
<1>4. /\ walk.at = "idle" /\ walk.first = {} /\ walk.seen = << >> /\ walk.rows = Unread
      /\ walk.page = 1 /\ walk.total = NotRead
  BY <1>0 DEF NoWalk
<1>5. WalkFits
  <2>1. 1 <= MaxOrders + 1 BY DEF BoundsAssumption
  <2> QED BY <1>1, <1>4, <2>1 DEF WalkFits
<1>6. Undisturbed /\ StillToCome BY <1>4 DEF Undisturbed, StillToCome
<1> QED BY <1>3, <1>5, <1>6 DEF BoardInv

\* The inductive step.
LEMMA BoardStepKeeps ==
  ASSUME BoundsAssumption, BoardInv, [BoardNext]_boardVars
  PROVE  BoardInv'
<1>1. ASSUME NEW created \in Stamps, OpenOrder(created) PROVE BoardInv' BY <1>1, OpenOrderKeeps
<1>2. ASSUME NEW i \in DOMAIN table, MoveOrder(i) PROVE BoardInv' BY <1>2, MoveOrderKeeps
<1>3. ASSUME NEW filter \in Filters, NEW size \in PageSizes,
             NEW goal \in {"totals", "short"}, StartWalk(filter, size, goal)
      PROVE  BoardInv'
  BY <1>3, StartWalkKeeps
<1>4. CASE ReadRows BY <1>4, ReadRowsKeeps
<1>5. CASE ReadTotal BY <1>5, ReadTotalKeeps
<1>6. CASE TurnPage BY <1>6, TurnPageKeeps
<1>7. CASE EndWalk BY <1>7, EndWalkKeeps
<1>8. CASE UNCHANGED boardVars
  <2>1. table' = table /\ walk' = walk BY <1>8 DEF boardVars
  <2>2. PICK statuses, page, size :
          statuses = walk.statuses /\ page = walk.page /\ size = walk.size
    OBVIOUS
  <2>3. /\ Board(statuses)' = Board(statuses) /\ Matching(statuses)' = Matching(statuses)
        /\ \A i : Rank(statuses, i)' = Rank(statuses, i)
        /\ Page(statuses, page, size)' = Page(statuses, page, size)
    BY <2>1, BoardStays
  <2>4. BoardTyped' /\ WalkFits' BY <2>1 DEF BoardInv, BoardTyped, WalkFits
  <2>5. Undisturbed' BY <2>1, <2>2, <2>3 DEF BoardInv, Undisturbed, Offset
  <2>6. StillToCome' BY <2>1, <2>2, <2>3 DEF BoardInv, StillToCome, Reached, Offset
  <2> QED BY <2>4, <2>5, <2>6 DEF BoardInv
<1> QED BY <1>1, <1>2, <1>3, <1>4, <1>5, <1>6, <1>7, <1>8 DEF BoardNext

\* What the invariant says of the pages and the walks.
LEMMA BoardInvTells ==
  ASSUME BoundsAssumption, BoardInv
  PROVE  BoardTypeOK /\ QuietWalkShowsTheBoard /\ OpeningsHideNothing
<1>1. BoardTypeOK
  <2>1. \A i \in DOMAIN table : table[i] \in BoardRows
    <3>1. table \in Seq(BoardRows) BY DEF BoardInv, BoardTyped
    <3> HIDE DEF BoardRows
    <3> QED BY <3>1
  <2>2. /\ walk.at \in {"idle", "reading", "done"} /\ walk.page \in Nat \ {0}
        /\ MaxOrders \in Nat
    BY WalkHas DEF BoardInv, BoundsAssumption
  <2>3. walk.page \in 1 .. MaxOrders + 1 BY <2>2 DEF BoardInv, WalkFits
  <2> QED BY <2>1, <2>2, <2>3 DEF BoardTypeOK, BoardRows, BoardInv, WalkFits
<1>2. QuietWalkShowsTheBoard
  <2> SUFFICES ASSUME walk.at = "done", walk.opened = 0, walk.moved = 0
               PROVE  walk.seen = Board(walk.statuses)
    BY DEF QuietWalkShowsTheBoard
  <2>1. PICK seen, board : seen = walk.seen /\ board = Board(walk.statuses) OBVIOUS
  <2>2. seen \in Seq(Nat) /\ board \in Seq(Nat) BY <2>1, WalkHas, BoardIs DEF BoardInv
  <2>3. Len(seen) = Len(board) /\ \A k \in DOMAIN seen : seen[k] = board[k]
    BY <2>1 DEF BoardInv, Undisturbed
  <2> QED BY <2>1, <2>2, <2>3
<1>3. OpeningsHideNothing BY DEF OpeningsHideNothing, BoardInv, StillToCome
<1> QED BY <1>1, <1>2, <1>3

\* For any number of work orders, any filters and any sizes of the pages: a walk
\* that meets no write shows the board once and in its order, whichever end the
\* client goes by, and openings hide nothing from one that reads on to a page
\* that is not full.
THEOREM BoardShowsAll ==
  ASSUME BoundsAssumption
  PROVE  BoardSpec => [](BoardTypeOK /\ QuietWalkShowsTheBoard /\ OpeningsHideNothing)
<1>1. BoardInit => BoardInv BY BoardBegins
<1>2. BoardInv /\ [BoardNext]_boardVars => BoardInv' BY BoardStepKeeps
<1>3. BoardInv => BoardTypeOK /\ QuietWalkShowsTheBoard /\ OpeningsHideNothing BY BoardInvTells
<1> QED BY <1>1, <1>2, <1>3, PTL DEF BoardSpec
===============================================================================
