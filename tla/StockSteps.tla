------------------------------- MODULE StockSteps -------------------------------
(***************************************************************************)
(* How the parts of one work order leave the shelf and come back to it: a  *)
(* saga across two modules that no transaction spans.                      *)
(*                                                                         *)
(* A withdrawal arms an undo step, consumes the stock, and then disarms    *)
(* the step, saves the work order and records a confirmation step in one   *)
(* transaction.  If that fails, it undoes the consumption itself.  A       *)
(* return, a delivery and a cancellation save the work order and record    *)
(* the stock step in one transaction.  Workers, which stand for the        *)
(* processor of every instance and for the attempt a request makes at its  *)
(* own step after the commit, claim the steps and apply them.              *)
(*                                                                         *)
(* The work order is one part of an approved round; WorkOrderAggregate has *)
(* the rest of it.  A request other than a withdrawal does nothing between *)
(* its read and its save, which the version guard makes one step           *)
(* (WorkOrderStore); a withdrawal consumes stock in between.               *)
(***************************************************************************)
EXTENDS StockLedger, StockOutbox

CONSTANTS
  Workers,      \* claims that may be worked on at once
  Planned,      \* the planned quantity of the part
  MaxAttempts,  \* OUTBOX_MAX_ATTEMPTS
  FaultKinds,   \* the faults that may happen
  MaxFaults     \* bound: how many of them happen

ASSUME StepsAssumption ==
  /\ Planned \in Nat
  /\ MaxAttempts \in Nat \ {0}
  /\ MaxFaults \in Nat

VARIABLES
  wo,       \* the status, the withdrawn quantity and the version of the work order
  outbox,   \* the stock steps
  request,  \* the withdrawals in flight
  worker,   \* the claims in flight
  faults    \* how many faults have happened

vars == <<quantityOnHand, movements, wo, outbox, request, worker, faults>>

NoRequest == [at |-> "idle", version |-> 0, withdrawn |-> 0]
NoClaim == [at |-> "idle", step |-> 0, attempts |-> 0, candidates |-> << >>]

Init ==
  /\ LedgerInit
  /\ wo = [status |-> "IN_EXECUTION", withdrawn |-> 0, version |-> 0]
  /\ outbox = << >>
  /\ request = [w \in Withdrawals |-> NoRequest]
  /\ worker = [k \in Workers |-> NoClaim]
  /\ faults = 0

\* A fault of one of these kinds: "crash", a process stops; "error", a call has
\* no effect and fails; "lost answer", a call takes effect and seems to fail;
\* "lost commit", the same of the transaction that saves the work order; and
\* "stall", a grace period or a lease ends while its holder is still at work.
Fault(kind) ==
  /\ kind \in FaultKinds
  /\ faults < MaxFaults
  /\ faults' = faults + 1

-------------------------------------------------------------------------------
(* The withdrawal: WithdrawPartsUseCase. *)

Goes(w, from, to) == request[w].at = from /\ request' = [request EXCEPT ![w].at = to]

Load(w) ==
  /\ request[w].at = "idle"
  /\ wo.status = "IN_EXECUTION"
  /\ wo.withdrawn + Units[w] <= Planned
  /\ request' = [request EXCEPT ![w] =
                   [at |-> "loaded", version |-> wo.version, withdrawn |-> wo.withdrawn]]
  /\ UNCHANGED <<ledgerVars, wo, outbox, worker, faults>>

Arm(w) ==
  /\ Goes(w, "loaded", "armed")
  /\ outbox' = Armed(outbox, w)
  /\ UNCHANGED <<ledgerVars, wo, worker, faults>>

ConsumeStock(w) ==
  /\ \/ Goes(w, "armed", "consumed") /\ Consume(w) /\ UNCHANGED faults
     \/ Goes(w, "armed", "undoing") /\ Consume(w) /\ Fault("lost answer")
     \/ Goes(w, "armed", "undoing") /\ Insufficient(w) /\ UNCHANGED <<ledgerVars, faults>>
     \/ Goes(w, "armed", "undoing") /\ Fault("error") /\ UNCHANGED ledgerVars
  /\ UNCHANGED <<wo, outbox, worker>>

\* Mutation: the save does not require the undo step to be armed still.
SaveClaimed(w) ==
  /\ wo.version = request[w].version
  /\ wo' = [wo EXCEPT !.withdrawn = request[w].withdrawn + Units[w], !.version = @ + 1]
  /\ outbox' = Enqueued(Disarmed(outbox, w), "CONFIRM_CONSUMPTION", w)

\* The transaction of the withdrawal: disarm, save and enqueue.
SaveWithdrawal(w) ==
  /\ IsArmed(outbox, w)
  /\ wo.version = request[w].version
  /\ wo' = [wo EXCEPT !.withdrawn = request[w].withdrawn + Units[w], !.version = @ + 1]
  /\ outbox' = Enqueued(Disarmed(outbox, w), "CONFIRM_CONSUMPTION", w)

Commit(w) ==
  /\ \/ Goes(w, "consumed", "done") /\ SaveWithdrawal(w) /\ UNCHANGED faults
     \/ Goes(w, "consumed", "undoing") /\ SaveWithdrawal(w) /\ Fault("lost commit")
     \/ Goes(w, "consumed", "undoing") /\ Fault("error") /\ UNCHANGED <<wo, outbox>>
     \/ /\ Goes(w, "consumed", "undoing")
        /\ ~IsArmed(outbox, w) \/ wo.version # request[w].version
        /\ UNCHANGED <<wo, outbox, faults>>
  /\ UNCHANGED <<ledgerVars, worker>>

\* The first read of the undo, outside its transaction.
CompensationReads(w) ==
  /\ Goes(w, "undoing", IF NothingLeftOf(w) THEN "undone" ELSE "returning")
  /\ UNCHANGED <<ledgerVars, wo, outbox, worker, faults>>

CompensationReturns(w) ==
  /\ \/ Goes(w, "returning", "undone") /\ UNCHANGED faults
     \/ Goes(w, "returning", "failed") /\ Fault("lost answer")
  /\ UndoConsumption(w)
  /\ UNCHANGED <<wo, outbox, worker>>

CompensationCompletes(w) ==
  /\ Goes(w, "undone", "done")
  /\ outbox' = Disarmed(outbox, w)
  /\ UNCHANGED <<ledgerVars, wo, worker, faults>>

CompensationFails(w) ==
  /\ \E at \in {"undoing", "returning", "undone"} : Goes(w, at, "failed")
  /\ Fault("error")
  /\ UNCHANGED <<ledgerVars, wo, outbox, worker>>

\* Mutation: a compensation that failed completes its step all the same.
HandToNobody(w) ==
  /\ Goes(w, "failed", "done") /\ outbox' = Disarmed(outbox, w) /\ UNCHANGED faults
  /\ UNCHANGED <<ledgerVars, wo, worker>>

HandToProcessor(w) ==
  /\ \/ Goes(w, "failed", "done") /\ outbox' = Released(outbox, w) /\ UNCHANGED faults
     \/ Goes(w, "failed", "done") /\ Fault("error") /\ UNCHANGED outbox
  /\ UNCHANGED <<ledgerVars, wo, worker>>

RequestStops(w) ==
  /\ request[w].at \notin {"idle", "done"}
  /\ request' = [request EXCEPT ![w].at = "done"]
  /\ Fault("crash")
  /\ UNCHANGED <<ledgerVars, wo, outbox, worker>>

-------------------------------------------------------------------------------
(* The requests that save the work order and record a step with it. *)

Saves(status, withdrawn) ==
  /\ wo' = [status |-> status, withdrawn |-> withdrawn, version |-> wo.version + 1]
  /\ UNCHANGED <<ledgerVars, request, worker, faults>>

\* A return is asked for once: its operation id is generated for the request.
ReturnParts(r) ==
  /\ \A i \in DOMAIN outbox : outbox[i].operation # r
  /\ wo.status = "IN_EXECUTION"
  /\ wo.withdrawn >= Units[r]
  /\ Saves(wo.status, wo.withdrawn - Units[r])
  /\ outbox' = Enqueued(outbox, "RESTORE", r)

CompleteWorkOrder ==
  /\ wo.status = "IN_EXECUTION"
  /\ Saves("COMPLETED", wo.withdrawn)
  /\ UNCHANGED outbox

DeliverVehicle ==
  /\ wo.status = "COMPLETED"
  /\ Saves("DELIVERED", wo.withdrawn)
  /\ outbox' = Enqueued(outbox, "SETTLE", "visit")

CancelWorkOrder ==
  /\ wo.status = "IN_EXECUTION"
  /\ Saves("CANCELED", wo.withdrawn)
  /\ outbox' = Enqueued(outbox, "WRITE_OFF", "visit")

-------------------------------------------------------------------------------
(* The workers: StockStepApplier. *)

WorkGoes(k, to) == worker' = [worker EXCEPT ![k].at = to]
StepOf(k) == outbox[worker[k].step]

Claim(k) ==
  /\ worker[k].at = "idle"
  /\ \E i \in DOMAIN outbox :
       /\ Claimable(outbox, i)
       /\ outbox' = Claimed(outbox, i)
       /\ worker' = [worker EXCEPT ![k] =
            [at |-> "claimed", step |-> i, attempts |-> outbox[i].attempts + 1,
             candidates |-> << >>]]
  /\ UNCHANGED <<ledgerVars, wo, request, faults>>

\* The first read of an undo names what to lock, or finds nothing to do.
ReadsUndo(k) ==
  /\ worker[k].at = "claimed"
  /\ StepOf(k).kind = "UNDO_CONSUMPTION"
  /\ WorkGoes(k, IF NothingLeftOf(StepOf(k).operation) THEN "applied" ELSE "reading")
  /\ UNCHANGED ledgerVars

ReadsWriteOff(k) ==
  /\ worker[k].at = "claimed"
  /\ StepOf(k).kind = "WRITE_OFF"
  /\ worker' = [worker EXCEPT ![k].at = "reading", ![k].candidates = WriteOffCandidates]
  /\ UNCHANGED ledgerVars

\* What a step does in inventory, in its last transaction or statement.
Effect(k) ==
  LET step == StepOf(k) IN
  \/ /\ worker[k].at = "reading"
     /\ \/ step.kind = "UNDO_CONSUMPTION" /\ UndoConsumption(step.operation)
        \/ step.kind = "WRITE_OFF" /\ WriteOff(worker[k].candidates)
  \/ /\ worker[k].at = "claimed"
     /\ \/ step.kind = "CONFIRM_CONSUMPTION" /\ ConfirmConsumption(step.operation)
        \/ step.kind = "RESTORE" /\ Restore(step.operation)
        \/ step.kind = "SETTLE" /\ Settle

\* A restore that no pending consumption covers throws.
Refused(k) ==
  /\ worker[k].at = "claimed"
  /\ StepOf(k).kind = "RESTORE" /\ Uncovered(StepOf(k).operation)

MovesTo(k, at) == worker' = [worker EXCEPT ![k].at = at, ![k].candidates = << >>]

Apply(k) ==
  /\ \/ (ReadsUndo(k) \/ ReadsWriteOff(k)) /\ UNCHANGED faults
     \/ Effect(k) /\ MovesTo(k, "applied") /\ UNCHANGED faults
     \/ Effect(k) /\ MovesTo(k, "failed") /\ Fault("lost answer")
     \/ Refused(k) /\ MovesTo(k, "failed") /\ UNCHANGED <<ledgerVars, faults>>
  /\ UNCHANGED <<wo, outbox, request>>

\* A call fails without effect: the step's, or the one that completes it.
WorkFails(k) ==
  /\ worker[k].at \in {"claimed", "reading", "applied"}
  /\ MovesTo(k, "failed")
  /\ Fault("error")
  /\ UNCHANGED <<ledgerVars, wo, outbox, request>>

Release(k) == worker' = [worker EXCEPT ![k] = NoClaim]

CompleteStep(k) ==
  /\ worker[k].at = "applied"
  /\ outbox' = Completed(outbox, worker[k].step)
  /\ Release(k)
  /\ UNCHANGED <<ledgerVars, wo, request, faults>>

Fail(k) ==
  /\ worker[k].at = "failed"
  /\ outbox' = Failed(outbox, worker[k].step, worker[k].attempts >= MaxAttempts)
  /\ Release(k)
  /\ UNCHANGED <<ledgerVars, wo, request, faults>>

WorkerStops(k) ==
  /\ worker[k].at # "idle"
  /\ Release(k)
  /\ Fault("crash")
  /\ UNCHANGED <<ledgerVars, wo, outbox, request>>

-------------------------------------------------------------------------------
(* Time, and the operator. *)

Running(w) == request[w].at \notin {"idle", "done"}

\* Somebody still works on a step: the request that armed it, or a claim.
Held(i) ==
  \/ outbox[i].status = "ARMED" /\ Running(outbox[i].operation)
  \/ \E k \in Workers : worker[k].at # "idle" /\ worker[k].step = i

\* The grace period of an armed step, or the lease of a claimed one, ends.
FallsDue(i) ==
  /\ outbox[i].status \in Unclosed /\ ~outbox[i].due
  /\ outbox' = [outbox EXCEPT ![i].due = TRUE]
  /\ UNCHANGED <<ledgerVars, wo, request, worker>>

TimePasses == \E i \in DOMAIN outbox : ~Held(i) /\ FallsDue(i) /\ UNCHANGED faults
TimeOutruns == \E i \in DOMAIN outbox : Held(i) /\ FallsDue(i) /\ Fault("stall")

\* An operator sets a failed step back to pending.
OperatorRetries ==
  /\ \E i \in DOMAIN outbox :
       /\ outbox[i].status = "FAILED"
       /\ outbox' = [outbox EXCEPT ![i].status = "PENDING", ![i].due = TRUE]
  /\ UNCHANGED <<ledgerVars, wo, request, worker, faults>>

Withdraw(w) ==
  \/ Arm(w) \/ ConsumeStock(w) \/ Commit(w)
  \/ CompensationReads(w) \/ CompensationReturns(w) \/ CompensationCompletes(w)
  \/ HandToProcessor(w)
Work(k) == Claim(k) \/ Apply(k) \/ CompleteStep(k) \/ Fail(k)

Next ==
  \/ \E w \in Withdrawals : Load(w) \/ Withdraw(w) \/ CompensationFails(w) \/ RequestStops(w)
  \/ \E r \in Returns : ReturnParts(r)
  \/ CompleteWorkOrder \/ DeliverVehicle \/ CancelWorkOrder
  \/ \E k \in Workers : Work(k) \/ WorkFails(k) \/ WorkerStops(k)
  \/ TimePasses \/ TimeOutruns \/ OperatorRetries

Spec == Init /\ [][Next]_vars

\* A request that has started goes on, the processor of a running instance goes
\* on polling and applying, and the clock goes on.  Nobody has to send a request
\* or to operate anything, and no fault has to happen.
Fairness ==
  /\ \A w \in Withdrawals : WF_vars(Withdraw(w))
  /\ \A k \in Workers : WF_vars(Work(k))
  /\ WF_vars(TimePasses)
FairSpec == Spec /\ Fairness

-------------------------------------------------------------------------------
(* Properties. *)

RequestAt == {"idle", "loaded", "armed", "consumed", "undoing", "returning", "undone",
              "failed", "done"}
WorkerAt == {"idle", "claimed", "reading", "applied", "failed"}

\* The columns of the tables and the state of the requests and the workers.
TypeOK ==
  /\ quantityOnHand \in Nat
  /\ movements \in Seq(Consumption)
  /\ wo \in [status : {"IN_EXECUTION", "COMPLETED", "DELIVERED", "CANCELED"},
             withdrawn : 0 .. Planned, version : Nat]
  /\ outbox \in Seq([kind : StepKind, operation : Operations \cup {"visit"},
                     status : StepStatus, due : BOOLEAN, attempts : Nat])
  /\ request \in [Withdrawals -> [at : RequestAt, version : Nat, withdrawn : Nat]]
  /\ \A k \in Workers :
       /\ worker[k].at \in WorkerAt
       /\ worker[k].step \in DOMAIN outbox \cup {0}
       /\ worker[k].attempts \in Nat
       /\ DOMAIN worker[k].candidates \subseteq DOMAIN movements
  /\ faults \in 0 .. MaxFaults

Recorded(kind, op) == \E i \in DOMAIN outbox : outbox[i].kind = kind /\ outbox[i].operation = op

\* A withdrawal reached the work order: its confirmation was recorded with the save.
Saved(w) == Recorded("CONFIRM_CONSUMPTION", w)
SavedRows == {i \in DOMAIN movements : Saved(movements[i].operation)}

\* An undone operation never reached the work order, whichever of the request
\* and the workers undid it, and however late.
UndoneNeverSaved ==
  \A i \in DOMAIN movements :
    LET w == movements[i].operation IN movements[i].returned[w] > 0 => ~Saved(w)

\* Every unit is on the shelf or in a consumption, and no consumption gives
\* back more than it took, by restores and undos together.
UnitsAreConserved ==
  /\ quantityOnHand + Outstanding(DOMAIN movements) = OnHand
  /\ \A i \in DOMAIN movements : Remaining(movements[i]) >= 0

\* Units returned to the work order's ledger that inventory has yet to restore.
Owed == SumFunctionOnSet(Units, {r \in Returns : Recorded("RESTORE", r) /\ ~HasReturnOf(r)})

\* The two ledgers agree at all times: what inventory holds for the saved
\* withdrawals is what the work order says is withdrawn, and what it is owed.
LedgersAgree == Outstanding(SavedRows) = wo.withdrawn + Owed

\* A restore always finds the consumptions it undoes: the error that the two
\* ledgers disagree is never thrown.
RestoresAreCovered ==
  \A k \in Workers :
    worker[k].at = "claimed" /\ StepOf(k).kind = "RESTORE" => ~Uncovered(StepOf(k).operation)

\* A delivery and a cancellation leave alone what no work order confirmed: a
\* withdrawal that loses the race against them has its units back.
OnlySavedIsClosed ==
  \A i \in DOMAIN movements : movements[i].status # "PENDING" => i \in SavedRows

Lost == [i \in DOMAIN movements |-> movements[i].lost]
Applied(kind) == \E i \in DOMAIN outbox : outbox[i].kind = kind /\ outbox[i].status = "DONE"

\* A settlement leaves no saved consumption pending, and a write-off loses
\* exactly what the canceled work order still had withdrawn.
VisitIsClosed ==
  /\ Applied("SETTLE") => \A i \in SavedRows : movements[i].status = "SETTLED"
  /\ Applied("WRITE_OFF") => SumFunction(Lost) = wo.withdrawn

Quiet ==
  /\ \A w \in Withdrawals : ~Running(w)
  /\ \A k \in Workers : worker[k].at = "idle"
  /\ \A i \in DOMAIN outbox : outbox[i].status = "DONE"

\* When nothing is left to do, a withdrawal that never reached the work order
\* holds no units.
NothingIsOrphaned ==
  Quiet => \A i \in DOMAIN movements \ SavedRows : Remaining(movements[i]) = 0

\* Every step is applied in the end, unless one fails for good and holds the
\* others until an operator sets it back.
StepsAreApplied ==
  <>[]Quiet \/ <>[](\E i \in DOMAIN outbox : outbox[i].status = "FAILED")
===============================================================================
