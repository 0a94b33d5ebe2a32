---------------------------- MODULE WorkOrderStore ----------------------------
(***************************************************************************)
(* Concurrent requests over one stored work order.  A request reads the    *)
(* work order row and then, one query after another and outside any        *)
(* transaction, its services, its parts and its budgets; it calls one      *)
(* command on the aggregate those four reads make up; and it saves the     *)
(* result in one transaction whose update only lands while the row still   *)
(* has the version that was read.                                          *)
(*                                                                         *)
(* wo and links are the variables of WorkOrder: wo is the stored rows, and *)
(* the store implements WorkOrder when every save is one of its commands.  *)
(* A request changes its aggregate in memory by itself, so the command and *)
(* the save are one action.                                                *)
(***************************************************************************)
EXTENDS WorkOrder

CONSTANTS
  Requests,    \* requests that may be in flight at once
  MaxVersion   \* bound: how many times the work order is saved

ASSUME MaxVersionAssumption == MaxVersion \in Nat

VARIABLES
  version,   \* the version column of the work order row
  request    \* what each request has read: its step, the version and its copy

storeVars == <<wo, links, version, request>>

Idle == [at |-> "idle", version |-> 0, copy |-> Opened]

StoreInit ==
  /\ Init
  /\ version = 0
  /\ request = [c \in Requests |-> Idle]

-------------------------------------------------------------------------------
(* findByNumber: four reads, each of what is committed when it runs. *)

\* What the row alone tells of the work order.
RowOf(w) ==
  [status |-> w.status, mechanic |-> w.mechanic, services |-> Opened.services,
   parts |-> Opened.parts, budgets |-> Opened.budgets,
   executionStarted |-> w.executionStarted, discount |-> w.discount, charged |-> w.charged]

ReadRow(c) ==
  /\ request[c].at = "idle"
  /\ request' = [request EXCEPT ![c] =
                   [at |-> "row", version |-> version, copy |-> RowOf(wo)]]
  /\ UNCHANGED <<wo, links, version>>

\* A later read fills in more of the copy; the version stays the row's.
ReadNext(c, from, to, copy) ==
  /\ request[c].at = from
  /\ request' = [request EXCEPT ![c] =
                   [at |-> to, version |-> @.version, copy |-> copy]]
  /\ UNCHANGED <<wo, links, version>>

ReadServices(c) ==
  ReadNext(c, "row", "services", [request[c].copy EXCEPT !.services = wo.services])
ReadParts(c) ==
  ReadNext(c, "services", "parts", [request[c].copy EXCEPT !.parts = wo.parts])

\* Mutation: the version is taken with the last read instead of the first.
ReadBudgetsAndVersion(c) ==
  /\ request[c].at = "parts"
  /\ request' = [request EXCEPT ![c] = [at |-> "loaded", version |-> version,
       copy |-> [request[c].copy EXCEPT !.budgets = wo.budgets]]]
  /\ UNCHANGED <<wo, links, version>>

ReadBudgets(c) ==
  ReadNext(c, "parts", "loaded", [request[c].copy EXCEPT !.budgets = wo.budgets])

-------------------------------------------------------------------------------
(* The command and the save. *)

\* Mutation: the update of the row is not guarded by the version.
LandsUnguarded(c) ==
  /\ request[c].at = "loaded"
  /\ version < MaxVersion
  /\ version' = version + 1
  /\ request' = [request EXCEPT ![c] = Idle]

\* The guarded update: one row affected, and the version bumped with it.
Lands(c) ==
  /\ request[c].at = "loaded"
  /\ request[c].version = version
  /\ version < MaxVersion
  /\ version' = version + 1
  /\ request' = [request EXCEPT ![c] = Idle]

SaveEdit(c) ==
  LET copy == request[c].copy IN
  /\ Lands(c)
  /\ AddService(copy, wo') \/ PlanPart(copy, wo') \/ RemoveItem(copy, wo')
       \/ AssignMechanic(copy, wo')
  /\ UNCHANGED links

SaveDiagnose(c) == Lands(c) /\ StartDiagnosis(request[c].copy, wo') /\ UNCHANGED links

\* The quoted round is mailed once the save has committed.
SaveQuote(c) ==
  LET copy == request[c].copy IN
  /\ Lands(c)
  /\ CompleteDiagnosis(copy, wo') \/ SubmitSupplementaryBudget(copy, wo')
  /\ links' = links \cup Mailed(wo')

SaveDecide(c) ==
  LET copy == request[c].copy IN
  /\ Lands(c)
  /\ ApproveBudget(copy, wo', links) \/ RejectBudget(copy, wo', links)
  /\ UNCHANGED links

SaveMoveParts(c) ==
  LET copy == request[c].copy IN
  /\ Lands(c)
  /\ WithdrawParts(copy, wo') \/ ReturnParts(copy, wo')
  /\ UNCHANGED links

SaveClose(c) ==
  LET copy == request[c].copy IN
  /\ Lands(c)
  /\ ApplyDiscount(copy, wo') \/ Complete(copy, wo') \/ Deliver(copy, wo') \/ Cancel(copy, wo')
  /\ UNCHANGED links

\* Nothing is written: an authorizer or the aggregate refused the command, the
\* guarded update affected no row, or the process stopped.
GiveUp(c) ==
  /\ request[c].at # "idle"
  /\ request' = [request EXCEPT ![c] = Idle]
  /\ UNCHANGED <<wo, links, version>>

Read(c) == ReadRow(c) \/ ReadServices(c) \/ ReadParts(c) \/ ReadBudgets(c)
Save(c) == SaveEdit(c) \/ SaveDiagnose(c) \/ SaveQuote(c) \/ SaveDecide(c)
             \/ SaveMoveParts(c) \/ SaveClose(c)

StoreNext == \E c \in Requests : Read(c) \/ Save(c) \/ GiveUp(c)

StoreSpec == StoreInit /\ [][StoreNext]_storeVars

-------------------------------------------------------------------------------
(* Properties. *)

Steps == {"idle", "row", "services", "parts", "loaded"}

\* The types of the stored rows and of what each request has read so far.  A
\* copy read in four queries has the columns of a work order, whatever they say.
StoreTypeOK ==
  /\ TypeOK
  /\ version \in 0 .. MaxVersion
  /\ request = [c \in Requests |-> [at |-> request[c].at, version |-> request[c].version,
                                    copy |-> request[c].copy]]
  /\ \A c \in Requests : /\ request[c].at \in Steps
                         /\ request[c].version \in 0 .. version
                         /\ IsWorkOrder(request[c].copy)

\* A request whose version is still the stored one has read nothing but the
\* stored work order, although its four reads were four transactions: a read
\* torn by the save of another request can never be saved back.
CurrentCopyIsStored ==
  \A c \in Requests :
    request[c].at = "loaded" /\ request[c].version = version => request[c].copy = wo

\* Every save is one command applied to the work order as it is at that
\* moment: the store implements the work order of WorkOrder.tla.
ImplementsWorkOrder == Spec
===============================================================================
