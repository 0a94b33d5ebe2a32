------------------------------ MODULE MCReports ------------------------------
(***************************************************************************)
(* What is told of the records: the aggregate that the rows of a work      *)
(* order load as, the board, the report of shortages, the reports of the   *)
(* security scan and what the architecture checks say.  They are put       *)
(* beside one another as in MCIdentity: a behaviour belongs to one.        *)
(***************************************************************************)
EXTENDS WorkOrderRows, TLC

CONSTANTS
  Components,   \* those that may move
  u1, s1, p1, p2

VARIABLES
  part,                                                            \* the component that moves
  table, walk,                                                     \* WorkOrderBoard
  round, withdrawn, taken, stale, owed, shelf, shortages,         \* StockShortages
  flaws, host, files, summary, scan, left,                         \* SecurityScan
  server, account, prep, runsLeft,                                 \* ScanAccount
  moduleOf, dependencies, cycles,                                  \* ArchitectureChecks,
  literal, touched, runtime, cte, pieces, known, findings          \* its two checks

-------------------------------------------------------------------------------
(* One work order and its rows. *)

MCServicePrice == s1 :> 3
MCPartPrice == p1 :> 1 @@ p2 :> 1

-------------------------------------------------------------------------------
(* All work orders: the board and the report of shortages. *)

Board == INSTANCE WorkOrderBoard WITH
  MaxOrders <- 3, MaxWrites <- 1, Stamps <- {1, 2}, PageSizes <- {2},
  Filters <- {{}, {"RECEIVED", "COMPLETED", "CANCELED"}}

PlannedUnits == [o \in {"first", "second"} |-> 2]

Shortages == INSTANCE StockShortages WITH
  Orders <- {"first", "second"}, Planned <- PlannedUnits, MaxShelf <- 5, report <- shortages

-------------------------------------------------------------------------------
(* The tools. *)

\* Two advisories on one package, on whose severity the NVD and the npm registry do not
\* agree; two rules of one name, each matched in a place; and an alert.
NpmSeverities == [c \in {"c1", "c2"} |-> IF c = "c1" THEN 2 ELSE 1]
NvdSeverities == [c \in {"c1", "c2"} |-> IF c = "c1" THEN 0 ELSE 3]
Advisories == {[kind |-> "advisory", package |-> "lib", name |-> c] : c \in {"c1", "c2"}}
MatchOf(pack) == [kind |-> "match", rule |-> <<pack, "rule">>, place |-> "file"]
RuleMatches == {MatchOf("pack"), MatchOf("other")}
AppAlert == [kind |-> "alert", alert |-> "ref", title |-> "alert"]
EveryTool == {"npm audit", "Semgrep", "OWASP Dependency-Check", "OWASP ZAP"}

\* One scan, in which one thing fails and which may be killed; one advisory has no CVE.
Scans == INSTANCE SecurityScan WITH
  NpmSeverity <- NpmSeverities, NvdSeverity <- NvdSeverities,
  NpmNames <- {"c1"}, NvdNames <- {"c1"}, Flaws <- Advisories \cup {AppAlert},
  Enabled <- EveryTool, ZapMode <- "auto", Selections <- {{}, {"npm audit", "OWASP ZAP"}},
  MaxScans <- 1, MaxChanges <- 0, MaxHostChanges <- 1, MaxFaults <- 1, MaxCrashes <- 1

\* Two scans, whole or partial, while a flaw appears or goes and one thing fails, beside
\* an application that is down. One CVE of two may go, or one match of two of one name.
ComparedProjects == {Advisories \cup {MatchOf("pack")}, RuleMatches}
Comparisons == INSTANCE SecurityScan WITH
  NpmSeverity <- NpmSeverities, NvdSeverity <- NvdSeverities,
  NpmNames <- {"c1", "c2"}, NvdNames <- {"c1", "c2"},
  Flaws <- Advisories \cup RuleMatches,
  Enabled <- EveryTool, ZapMode <- "auto", Selections <- {{}, {"npm audit", "Semgrep"}},
  MaxScans <- 2, MaxChanges <- 1, MaxHostChanges <- 0, MaxFaults <- 1, MaxCrashes <- 0

\* The account that the dynamic scan signs in as.
Preparation == INSTANCE ScanAccount WITH
  Authentication <- TRUE, MaxRuns <- 2, MaxFaults <- 2, left <- runsLeft

TableOwners == [t \in {"customers", "work_orders"} |->
                  IF t = "customers" THEN "customers" ELSE "work-orders"]

\* Four modules; two files of one module; a file outside of all.
Checks == INSTANCE ArchitectureChecks WITH
  Layouts <- {<<1, 2, 3, 4>>, <<1, 1, 2>>, <<2, 0, 1>>}, report <- cycles,
  TABLE_OWNERS <- TableOwners, Unlisted <- {"audits"}, Common <- {"recent", "customers"},
  Module <- "work-orders", MaxPieces <- 3

ASSUME MaxKeyAssumption /\ Board!BoundsAssumption /\ Shortages!QuantitiesAssumption
ASSUME Scans!ScanAssumption /\ Comparisons!ScanAssumption /\ Preparation!AccountAssumption

-------------------------------------------------------------------------------
(* The composition. *)

ReportsInit ==
  /\ part \in Components
  /\ RowsInit /\ Board!BoardInit
  /\ Shortages!ShortagesInit /\ (part # "shortages" => shelf = 0)
  /\ CASE part = "scans" -> Scans!Init
       [] part = "comparisons" -> Comparisons!Init /\ flaws \in ComparedProjects
                                  /\ host.docker /\ host.semgrep /\ ~host.app
       [] OTHER -> Scans!Init /\ flaws = {} /\ host.docker /\ host.semgrep /\ host.app
  /\ Preparation!Init /\ (part # "preparations" => ~server.up /\ ~server.migrated)
  /\ Checks!CyclesInit /\ (part # "cycles" => moduleOf = <<1, 1, 2>> /\ dependencies = {})
  /\ Checks!LiteralsInit /\ (part # "literals" => known = {})

ofBoard == <<table, walk>>
ofShortages == <<round, withdrawn, taken, stale, owed, shelf, shortages>>
ofScans == <<flaws, host, files, summary, scan, left>>
ofPreparations == <<server, account, prep, runsLeft>>
ofCycles == <<moduleOf, dependencies, cycles>>
ofLiterals == <<literal, touched, runtime, cte, pieces, known, findings>>
reportVars == <<part, rowVars, ofBoard, ofShortages, ofScans, ofPreparations, ofCycles,
  ofLiterals>>

\* Nothing but this component moves.
Only(p) ==
  /\ part = p /\ UNCHANGED part
  /\ p # "rows" => UNCHANGED rowVars
  /\ p # "board" => UNCHANGED ofBoard
  /\ p # "shortages" => UNCHANGED ofShortages
  /\ p \notin {"scans", "comparisons"} => UNCHANGED ofScans
  /\ p # "preparations" => UNCHANGED ofPreparations
  /\ p # "cycles" => UNCHANGED ofCycles
  /\ p # "literals" => UNCHANGED ofLiterals

ReportsNext ==
  \/ Only("rows") /\ RowsNext
  \/ Only("board") /\ Board!BoardNext
  \/ Only("shortages") /\ Shortages!ShortagesNext
  \/ Only("scans") /\ Scans!Next
  \/ Only("comparisons") /\ Comparisons!Next
  \/ Only("preparations") /\ Preparation!Next
  \/ Only("cycles") /\ Checks!CheckModuleCycles
  \/ Only("literals") /\ Checks!LiteralsNext

ReportsSpec == ReportsInit /\ [][ReportsNext]_reportVars

-------------------------------------------------------------------------------
(* Properties; those of WorkOrderRows hold of all behaviours. *)

\* What is listed while it moves: a walk over the board that nothing disturbed shows
\* it all, openings hide nothing, and a shortage that stands is reported.
ListingsAreTrue ==
  /\ part = "board" =>
       Board!BoardTypeOK /\ Board!QuietWalkShowsTheBoard /\ Board!OpeningsHideNothing
  /\ part = "shortages" =>
       Shortages!ShortagesTypeOK /\ Shortages!StandingShortageIsReported /\ Shortages!QuietReportIsExact

\* What the security scan tells: every answer of a scanner is in the report and is of
\* that run, what is missing has its cause, and the comparison of two runs follows the
\* flaws, whatever scanners each of them had. And the token a scan is given reaches the
\* routes it is for, whatever an earlier preparation left half done.
ScansAreTrue ==
  /\ part = "scans" => Scans!ReportsHold
  /\ part = "comparisons" => Comparisons!ReportsHold
  /\ part = "preparations" => Preparation!PreparationHolds

\* The architecture checks report every module cycle once, and every foreign table that no
\* expression of the literal hides by its name, and report nothing else.
ChecksAreTrue ==
  /\ part = "cycles" =>
       Checks!FailsOnCycles /\ Checks!EveryClosingEdgeIsShown /\ Checks!CyclesAreReportedOnce
  /\ part = "literals" => Checks!FailsOnForeignTables /\ Checks!ReportsOnlyForeignTables
===============================================================================
