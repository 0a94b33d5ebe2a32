---------------------------- MODULE StockShortages ----------------------------
(***************************************************************************)
(* The shortage report of one inventory item: the outstanding demand is    *)
(* read from the work orders, and then the shelf from the inventory, with  *)
(* no shared snapshot.  A withdrawal takes its units off the shelf before  *)
(* the work order says so, and a return writes the work order before its   *)
(* units are on the shelf, so the report also meets movements half done.   *)
(***************************************************************************)
EXTENDS Integers, FiniteSets, FiniteSetsExt

CONSTANTS
  Orders,    \* work orders that plan the item
  Planned,   \* the quantity each of them plans
  MaxShelf   \* bound: how many units a replenishment or an adjustment may make of all

\* What an instance must make of the constants.
QuantitiesAssumption ==
  /\ IsFiniteSet(Orders) /\ Planned \in [Orders -> Nat] /\ MaxShelf \in Nat

VARIABLES
  round,     \* of each work order: its round not approved, in execution, closed
  withdrawn,  \* the withdrawn_quantity of each
  taken,      \* units each has consumed in a withdrawal not saved yet
  stale,      \* whether a return was saved since the withdrawal loaded the order
  owed,       \* units each has given back that are not on the shelf yet
  shelf,      \* quantity_on_hand
  report      \* the report being read

stock == <<round, withdrawn, taken, stale, owed, shelf>>
shortageVars == <<round, withdrawn, taken, stale, owed, shelf, report>>

InExecution == {o \in Orders : round[o] = "executing"}

\* outstandingDemand: what the approved rounds in execution plan and have not
\* withdrawn.
OutstandingDemand ==
  SumFunctionOnSet([o \in Orders |-> Planned[o] - withdrawn[o]], InExecution)

\* What the workshop is really short of: units on their way count where they go.
ReallyShort ==
  SumFunctionOnSet([o \in Orders |-> Planned[o] - withdrawn[o] - taken[o]], InExecution)
    > shelf + SumFunctionOnSet(owed, Orders)

-------------------------------------------------------------------------------
(* The report. *)

\* standing: the item was really short at every moment since the demand was
\* read.  cameIn: units were put on the shelf since.  stirred: a movement was
\* half done when the report began, or anything was written since.
NoReport == [at |-> "idle", demand |-> 0, short |-> FALSE, standing |-> FALSE,
             cameIn |-> FALSE, stirred |-> FALSE]

ReadDemand ==
  /\ report.at = "idle"
  /\ report' = [NoReport EXCEPT !.at = IF OutstandingDemand = 0 THEN "done" ELSE "demand",
                                !.demand = OutstandingDemand, !.standing = ReallyShort,
                                !.stirred = \E o \in Orders : taken[o] + owed[o] > 0]
  /\ UNCHANGED stock

ReadShelf ==
  /\ report.at = "demand"
  /\ report' = [report EXCEPT !.at = "done", !.short = report.demand > shelf]
  /\ UNCHANGED stock

Answer == report.at = "done" /\ report' = NoReport /\ UNCHANGED stock

-------------------------------------------------------------------------------
(* The work orders and the shelf. *)

\* A write while the report is read; one after its last read is no concern.
During(puts) ==
  /\ report.at # "done"
  /\ report' = IF report.at = "idle" THEN report
               ELSE [report EXCEPT !.standing = @ /\ ReallyShort', !.stirred = TRUE,
                                   !.cameIn = @ \/ puts]

Approve(o) ==
  /\ round[o] = "awaiting" /\ round' = [round EXCEPT ![o] = "executing"]
  /\ UNCHANGED <<withdrawn, taken, stale, owed, shelf>> /\ During(FALSE)

EndOrder(o) ==
  /\ round[o] # "closed" /\ round' = [round EXCEPT ![o] = "closed"]
  /\ UNCHANGED <<withdrawn, taken, stale, owed, shelf>> /\ During(FALSE)

\* A withdrawal: the units are consumed in a transaction of their own, and then
\* the work order is saved, or refused and the units given back.  Its version
\* refuses it when a return or a closing was saved since it was loaded.
Consume(o, q) ==
  /\ round[o] = "executing" /\ taken[o] = 0
  /\ withdrawn[o] + q <= Planned[o] /\ q <= shelf
  /\ taken' = [taken EXCEPT ![o] = q]
  /\ stale' = [stale EXCEPT ![o] = FALSE]
  /\ shelf' = shelf - q
  /\ UNCHANGED <<round, withdrawn, owed>> /\ During(FALSE)

SaveWithdrawal(o) ==
  /\ round[o] = "executing" /\ taken[o] > 0 /\ ~stale[o]
  /\ withdrawn' = [withdrawn EXCEPT ![o] = @ + taken[o]]
  /\ taken' = [taken EXCEPT ![o] = 0]
  /\ UNCHANGED <<round, stale, owed, shelf>> /\ During(FALSE)

UndoConsumption(o) ==
  /\ taken[o] > 0
  /\ taken' = [taken EXCEPT ![o] = 0]
  /\ shelf' = shelf + taken[o]
  /\ UNCHANGED <<round, withdrawn, stale, owed>> /\ During(TRUE)

\* A return: the work order is saved with a step that restores the units.
SaveReturn(o, q) ==
  /\ round[o] = "executing" /\ q <= withdrawn[o]
  /\ withdrawn' = [withdrawn EXCEPT ![o] = @ - q]
  /\ owed' = [owed EXCEPT ![o] = @ + q]
  /\ stale' = [stale EXCEPT ![o] = TRUE]
  /\ UNCHANGED <<round, taken, shelf>> /\ During(FALSE)

Restore(o) ==
  /\ owed[o] > 0
  /\ owed' = [owed EXCEPT ![o] = 0]
  /\ shelf' = shelf + owed[o]
  /\ UNCHANGED <<round, withdrawn, taken, stale>> /\ During(TRUE)

\* A replenishment, or a count of the shelf that finds another quantity.
Adjust(q) ==
  /\ q # shelf
  /\ q + SumFunctionOnSet([o \in Orders |-> withdrawn[o] + taken[o] + owed[o]], Orders)
       <= MaxShelf
  /\ shelf' = q
  /\ UNCHANGED <<round, withdrawn, taken, stale, owed>> /\ During(q > shelf)

ShortagesInit ==
  /\ round = [o \in Orders |-> "awaiting"]
  /\ withdrawn = [o \in Orders |-> 0]
  /\ taken = [o \in Orders |-> 0]
  /\ stale = [o \in Orders |-> FALSE]
  /\ owed = [o \in Orders |-> 0]
  /\ shelf \in 0 .. MaxShelf
  /\ report = NoReport

ShortagesNext ==
  \/ ReadDemand \/ ReadShelf \/ Answer
  \/ \E o \in Orders : Approve(o) \/ EndOrder(o) \/ SaveWithdrawal(o) \/ UndoConsumption(o)
                         \/ Restore(o)
  \/ \E o \in Orders : \E q \in 1 .. Planned[o] : Consume(o, q) \/ SaveReturn(o, q)
  \/ \E q \in 0 .. MaxShelf : Adjust(q)

ShortagesSpec == ShortagesInit /\ [][ShortagesNext]_shortageVars

-------------------------------------------------------------------------------
(* Properties. *)

Reports == [at : {"idle", "demand", "done"},
            demand : 0 .. SumFunctionOnSet(Planned, Orders), short : BOOLEAN,
            standing : BOOLEAN, cameIn : BOOLEAN, stirred : BOOLEAN]

\* No work order withdraws or consumes more than it plans.
ShortagesTypeOK ==
  /\ round \in [Orders -> {"awaiting", "executing", "closed"}]
  /\ withdrawn \in [Orders -> Nat] /\ taken \in [Orders -> Nat]
  /\ \A o \in Orders : withdrawn[o] + taken[o] <= Planned[o]
  /\ stale \in [Orders -> BOOLEAN] /\ owed \in [Orders -> Nat] /\ shelf \in Nat
  /\ report \in Reports

\* A shortage that stood for as long as the report was read is in it, unless
\* units were put on the shelf between its two reads: a withdrawal leaves the
\* shelf before it leaves the demand, so one half done hides nothing.
StandingShortageIsReported ==
  report.at = "done" /\ report.standing /\ ~report.cameIn => report.short

\* With no movement half done and nothing written between its reads, the report
\* says that the item is short exactly when it is.
QuietReportIsExact ==
  report.at = "done" /\ ~report.stirred => (report.short <=> report.standing)
===============================================================================
