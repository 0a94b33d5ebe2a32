---------------------------- MODULE WorkOrderTrail ----------------------------
(***************************************************************************)
(* The trail of one work order: the entries every save appends in its own  *)
(* transaction, and the listing that gives them back in the order of the   *)
(* moment stamped on them.  A request loads the work order, reads the      *)
(* clock, calls one command and saves under the version guard, so the      *)
(* stamps of two requests may be taken in the other order than their       *)
(* saves.  Of the aggregate only what its entries tell is kept: the status *)
(* and the number of budget rounds.                                        *)
(***************************************************************************)
EXTENDS Integers, FiniteSets, SequencesExt

CONSTANTS
  Writers,     \* requests that may be in flight at once
  MaxVersion,  \* bound: how many times the work order is saved
  MaxClock     \* bound: how often the clock moves on to another instant

\* What an instance must make of the constants.
TrailAssumption == MaxVersion \in Nat /\ MaxClock \in Nat

VARIABLES
  order,    \* the stored status and number of rounds
  version,  \* the version column of the work order row
  trail,    \* work_order_events, by ascending id
  clock,    \* the clock all requests read
  request   \* the step of each request, its copy and the moment it read

trailVars == <<order, version, trail, clock, request>>

Null == "null"
Statuses == {"RECEIVED", "IN_DIAGNOSIS", "AWAITING_APPROVAL", "IN_EXECUTION",
             "COMPLETED", "DELIVERED", "CANCELED"}

Move(type, from, to) == [type |-> type, from |-> from, to |-> to]
Fact(type) == Move(type, Null, Null)
ExecutionStarted == Move("EXECUTION_STARTED", "AWAITING_APPROVAL", "IN_EXECUTION")

Stamped(events, now) ==
  [i \in DOMAIN events |-> [type |-> events[i].type, from |-> events[i].from,
                            to |-> events[i].to, at |-> now]]

Opened == [status |-> "RECEIVED", rounds |-> 0]
AtRest == [at |-> "idle", version |-> 0, order |-> Opened, now |-> 0]

\* The opening is saved with its entry before anyone can load the work order.
TrailInit ==
  /\ order = Opened
  /\ version = 0
  /\ trail = Stamped(<<Move("WORK_ORDER_CREATED", Null, "RECEIVED")>>, 0)
  /\ clock = 0
  /\ request = [c \in Writers |-> AtRest]

-------------------------------------------------------------------------------
(* A request: load, clock, command and save. *)

Tick == clock < MaxClock /\ clock' = clock + 1 /\ UNCHANGED <<order, version, trail, request>>

Load(c) ==
  /\ request[c].at = "idle"
  /\ request' = [request EXCEPT ![c] =
                   [at |-> "loaded", version |-> version, order |-> order, now |-> 0]]
  /\ UNCHANGED <<order, version, trail, clock>>

ReadClock(c) ==
  /\ request[c].at = "loaded"
  /\ request' = [request EXCEPT ![c].at = "stamped", ![c].now = clock]
  /\ UNCHANGED <<order, version, trail, clock>>

\* The command, allowed from these statuses, and the save of what it made: the
\* row and the entries of its events commit together, if the version still holds.
Save(c, from, next, events) ==
  /\ request[c].at = "stamped"
  /\ request[c].version = version /\ version < MaxVersion
  /\ request[c].order.status \in from
  /\ order' = next
  /\ version' = version + 1
  /\ trail' = trail \o Stamped(events, request[c].now)
  /\ request' = [request EXCEPT ![c] = AtRest]
  /\ UNCHANGED clock

Moved(c, status) == [request[c].order EXCEPT !.status = status]

\* Every command that records one fact and leaves the status: items, parts, the
\* mechanic and the discount.  Some are refused earlier than others.
RecordFact(c) ==
  Save(c, Statuses \ {"DELIVERED", "CANCELED"}, request[c].order, <<Fact("ANOTHER_FACT")>>)

StartDiagnosis(c) ==
  Save(c, {"RECEIVED"}, Moved(c, "IN_DIAGNOSIS"),
       <<Move("DIAGNOSIS_STARTED", "RECEIVED", "IN_DIAGNOSIS")>>)

\* The first round, generated again in place after a rejection.
CompleteDiagnosis(c) ==
  Save(c, {"IN_DIAGNOSIS"}, [status |-> "AWAITING_APPROVAL", rounds |-> 1],
       <<Move("DIAGNOSIS_COMPLETED", "IN_DIAGNOSIS", "AWAITING_APPROVAL"),
         Fact("BUDGET_GENERATED"), Fact("BUDGET_SENT")>>)

ApproveBudget(c) ==
  Save(c, {"AWAITING_APPROVAL"}, Moved(c, "IN_EXECUTION"),
       <<Move("BUDGET_APPROVED", "AWAITING_APPROVAL", "IN_EXECUTION"), ExecutionStarted>>)

\* Round one goes back to the diagnosis, a later one to the execution.
RejectBudget(c) ==
  LET first == request[c].order.rounds = 1
      destination == IF first THEN "IN_DIAGNOSIS" ELSE "IN_EXECUTION"
      rejected == Move("BUDGET_REJECTED", "AWAITING_APPROVAL", destination)
  IN Save(c, {"AWAITING_APPROVAL"}, Moved(c, destination),
          IF first THEN <<rejected>> ELSE <<rejected, ExecutionStarted>>)

SubmitSupplementaryBudget(c) ==
  Save(c, {"IN_EXECUTION"},
       [status |-> "AWAITING_APPROVAL", rounds |-> request[c].order.rounds + 1],
       <<Fact("SUPPLEMENTARY_BUDGET_GENERATED"), Fact("BUDGET_SENT")>>)

Complete(c) ==
  Save(c, {"IN_EXECUTION"}, Moved(c, "COMPLETED"),
       <<Move("WORK_ORDER_COMPLETED", "IN_EXECUTION", "COMPLETED")>>)

Deliver(c) ==
  Save(c, {"COMPLETED"}, Moved(c, "DELIVERED"),
       <<Move("VEHICLE_DELIVERED", "COMPLETED", "DELIVERED")>>)

Cancel(c) ==
  Save(c, {"RECEIVED", "IN_DIAGNOSIS", "AWAITING_APPROVAL", "IN_EXECUTION"},
       Moved(c, "CANCELED"),
       <<Move("WORK_ORDER_CANCELED", request[c].order.status, "CANCELED")>>)

\* The command was refused, or the guarded update affected no row.
GiveUp(c) ==
  /\ request[c].at = "stamped"
  /\ request' = [request EXCEPT ![c] = AtRest]
  /\ UNCHANGED <<order, version, trail, clock>>

Command(c) ==
  \/ RecordFact(c) \/ StartDiagnosis(c) \/ CompleteDiagnosis(c) \/ ApproveBudget(c)
  \/ RejectBudget(c) \/ SubmitSupplementaryBudget(c) \/ Complete(c) \/ Deliver(c) \/ Cancel(c)

TrailNext == Tick \/ \E c \in Writers : Load(c) \/ ReadClock(c) \/ Command(c) \/ GiveUp(c)

TrailSpec == TrailInit /\ [][TrailNext]_trailVars

-------------------------------------------------------------------------------
(* The listing. *)

\* Mutation: nothing but the moment orders the entries of one instant.
ComesBeforeNewestFirst(i, j) ==
  trail[i].at < trail[j].at \/ (trail[i].at = trail[j].at /\ i > j)

ComesBefore(i, j) == trail[i].at < trail[j].at \/ (trail[i].at = trail[j].at /\ i < j)

\* The ids of the entries as listTrail orders them: the place of an entry is one
\* more than the number of those that come before it.
Place(i) == Cardinality({j \in DOMAIN trail : ComesBefore(j, i)}) + 1
ListedIds ==
  LET placed == {<<i, Place(i)>> : i \in DOMAIN trail}
  IN [k \in DOMAIN trail |-> CHOOSE i \in DOMAIN trail : <<i, k>> \in placed]
ListTrail == LET ids == ListedIds IN [k \in DOMAIN ids |-> trail[ids[k]]]

-------------------------------------------------------------------------------
(* Properties. *)

\* The types of the stored work order, of its trail and of what is in flight.
TrailTypeOK ==
  /\ order.status \in Statuses /\ order.rounds \in 0 .. version
  /\ version \in 0 .. MaxVersion /\ clock \in 0 .. MaxClock
  /\ \A i \in DOMAIN trail : /\ {trail[i].from, trail[i].to} \subseteq Statuses \cup {Null}
                             /\ trail[i].at \in 0 .. clock
  /\ \A c \in Writers : /\ request[c].at \in {"idle", "loaded", "stamped"}
                         /\ request[c].version \in 0 .. version
                         /\ request[c].now \in 0 .. clock

\* The listing by moment gives the saves back in the order they committed,
\* although a request stamps its entries before it saves them: a save that
\* commits later than another has loaded, and so stamped, later.
TrailIsInOrderOfSaves == ListedIds = [i \in DOMAIN trail |-> i]

\* What a reader of the listing takes the status to be after one more entry.
Lost == "lost"
Tell(told, entry) ==
  IF entry.type = "SUPPLEMENTARY_BUDGET_GENERATED"
  THEN IF told = "IN_EXECUTION" THEN "AWAITING_APPROVAL" ELSE Lost
  ELSE IF entry.to = Null THEN told
  ELSE IF told \in {entry.from, entry.to} THEN entry.to ELSE Lost

\* Read from its first entry to its last, a supplementary round taken for the
\* move it comes with, the listing tells every move of the work order and ends
\* in the stored status: each entry goes on from where the one before it left.
TrailTellsEveryMove == FoldLeft(Tell, Null, ListTrail) = order.status

\* The trail of a visit tells every move of its status in the order of the saves.
TrailIsWhole == TrailTypeOK /\ TrailIsInOrderOfSaves /\ TrailTellsEveryMove

===============================================================================
