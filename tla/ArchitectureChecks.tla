-------------------------- MODULE ArchitectureChecks --------------------------
(***************************************************************************)
(* Two checks of npm run lint:architecture.  They share nothing but the    *)
(* command that runs them, and neither has processes: a behaviour is one   *)
(* run of a check over a tree or a text it finds.                          *)
(*                                                                         *)
(* The module cycle check collapses the dependencies between files to an   *)
(* edge per pair of modules, keeps for each edge the first pair of files   *)
(* it stands for, and gives for every edge that closes a cycle its         *)
(* shortest one.  Files and modules are numbers in the order of their      *)
(* names; module 0 is a file outside src/modules and src/shared.           *)
(*                                                                         *)
(* The table ownership check reads the SQL literals of a module's adapters *)
(* as text: the word after FROM, JOIN, INTO and UPDATE is a table, unless  *)
(* the literal names it WITH ... AS (.  A literal is a sequence of words;  *)
(* the clauses below give the literals of a small grammar together with    *)
(* the tables PostgreSQL would touch, which is what the check is measured  *)
(* against.                                                                *)
(***************************************************************************)
EXTENDS Integers, Sequences, SequencesExt

CONSTANTS
  Layouts,        \* the trees checked: each gives every file its module
  TABLE_OWNERS,   \* the module that owns each listed table
  Unlisted,       \* tables the owner map does not list
  Common,         \* names queries give to common table expressions, of tables too
  Module,         \* the module whose adapter is read
  MaxPieces       \* bound: pieces a literal is put together from

VARIABLES
  moduleOf,       \* the module of each file
  dependencies,   \* which file imports which
  report,         \* the cycles found, or nothing yet
  literal,    \* the words of the literal written so far
  touched,    \* history: the tables its statement touches
  runtime,    \* history: whether a table of it is named at runtime
  cte,        \* history: the common table expressions in scope
  pieces,
  known,      \* the findings known-table-findings.json tolerates
  findings    \* what the ownership check reports, or nothing yet

Files == DOMAIN moduleOf

-------------------------------------------------------------------------------
(* moduleGraph. *)

\* The imports that count: from one module to another.
Crossing == {d \in dependencies :
  moduleOf[d[1]] # 0 /\ moduleOf[d[2]] # 0 /\ moduleOf[d[1]] # moduleOf[d[2]]}
StepsBetween(a, b) == {d \in Crossing : moduleOf[d[1]] = a /\ moduleOf[d[2]] = b}

Precedes(d, e) == d[1] < e[1] \/ (d[1] = e[1] /\ d[2] < e[2])
FirstStep(a, b) == CHOOSE d \in StepsBetween(a, b) :
                     \A e \in StepsBetween(a, b) : e # d => Precedes(d, e)

Modules == {moduleOf[f] : f \in Files} \ {0}
Edges == {<<a, b>> \in Modules \X Modules : StepsBetween(a, b) # {}}

-------------------------------------------------------------------------------
(* shortestPath: a breadth-first search that remembers how it arrived. *)

RECURSIVE Arrivals(_, _, _), PathBack(_, _, _)

\* The modules an arrival leads on to, in the order of their names.
Reached(current, seen) ==
  SetToSortSeq({b \in Modules : <<current, b>> \in Edges /\ b \notin seen}, <)

\* queue holds the modules still to expand, arrived the module each was reached from.
Arrivals(queue, arrived, goal) ==
  IF queue = << >> \/ goal \in DOMAIN arrived THEN arrived
  ELSE LET new == Reached(Head(queue), DOMAIN arrived)
           more == [b \in DOMAIN arrived \cup {new[i] : i \in DOMAIN new} |->
                      IF b \in DOMAIN arrived THEN arrived[b] ELSE Head(queue)]
       IN Arrivals(Tail(queue) \o new, more, goal)

PathBack(arrived, start, current) ==
  IF current = start THEN <<start>> ELSE Append(PathBack(arrived, start, arrived[current]), current)

\* The start has arrived from itself.
ShortestPath(start, goal) ==
  LET arrived == Arrivals(<<start>>, [b \in {start} |-> start], goal) IN
  IF goal \in DOMAIN arrived THEN PathBack(arrived, start, goal) ELSE << >>

-------------------------------------------------------------------------------
(* findCycles. *)

\* Mutation: a cycle starts where its edge starts.
AsFound(cycle) == cycle

\* The rotation that starts at its first module.
Rotated(cycle) ==
  LET first == CHOOSE i \in DOMAIN cycle : \A j \in DOMAIN cycle : cycle[i] <= cycle[j] IN
  SubSeq(cycle, first, Len(cycle)) \o SubSeq(cycle, 1, first - 1)

\* The cycle of an edge is the edge and the way back, which ends where it began.
FindCycles ==
  {Rotated(<<e[1]>> \o SubSeq(ShortestPath(e[2], e[1]), 1, Len(ShortestPath(e[2], e[1])) - 1)) :
     e \in {e \in Edges : ShortestPath(e[2], e[1]) # << >>}}

\* Each step of a cycle names a file that imports and the file it imports.
StepsOf(cycle) ==
  [i \in DOMAIN cycle |-> FirstStep(cycle[i], cycle[IF i = Len(cycle) THEN 1 ELSE i + 1])]

-------------------------------------------------------------------------------

CyclesNotRun == [exitCode |-> -1, cycles |-> {}, steps |-> {}]

CyclesInit ==
  /\ moduleOf \in Layouts
  /\ dependencies \in SUBSET {d \in Files \X Files : d[1] # d[2]}
  /\ report = CyclesNotRun

CheckModuleCycles ==
  /\ report = CyclesNotRun
  /\ report' = [exitCode |-> IF FindCycles = {} THEN 0 ELSE 1, cycles |-> FindCycles,
                steps |-> {StepsOf(c) : c \in FindCycles}]
  /\ UNCHANGED <<moduleOf, dependencies>>

-------------------------------------------------------------------------------
(* What the cycle check promises. *)

CyclesDone == report # CyclesNotRun

\* Walks of up to n edges, by repeated composition: the reference the search
\* is compared with, which knows nothing of queues.
Walks[n \in Nat] ==
  IF n = 1 THEN Edges
  ELSE Walks[n - 1] \cup {<<a, c>> \in Modules \X Modules :
                            \E b \in Modules : <<a, b>> \in Walks[n - 1] /\ <<b, c>> \in Edges}
Distance(a, b) == CHOOSE n \in 1 .. 5 : /\ <<a, b>> \in Walks[n]
                                        /\ n > 1 => <<a, b>> \notin Walks[n - 1]
OnCycle(e) == <<e[2], e[1]>> \in Walks[5]

\* The check fails exactly when modules depend on each other in a circle,
\* however many files the circle runs through.
FailsOnCycles == CyclesDone => (report.exitCode = 1 <=> \E e \in Edges : OnCycle(e))

\* Every dependency on a cycle is on a reported one that is as short as any
\* cycle through it.
EveryClosingEdgeIsShown ==
  CyclesDone => \A e \in Edges : OnCycle(e) =>
    \E c \in report.cycles :
      /\ Len(c) = Distance(e[2], e[1]) + 1
      /\ \E i \in DOMAIN c : c[i] = e[1] /\ c[IF i = Len(c) THEN 1 ELSE i + 1] = e[2]

\* A reported cycle passes no module twice, two reports are not one cycle read
\* from two starts, and each step names two files that really are so related.
CyclesAreReportedOnce ==
  CyclesDone =>
    /\ \A c \in report.cycles : \A i, j \in DOMAIN c : c[i] = c[j] => i = j
    /\ \A c, d \in report.cycles :
         (\E i \in DOMAIN c : SubSeq(c, i, Len(c)) \o SubSeq(c, 1, i - 1) = d) => c = d
    /\ \A s \in report.steps : \A i \in DOMAIN s : s[i] \in Crossing

-------------------------------------------------------------------------------
(* The table ownership check. *)

Tables == DOMAIN TABLE_OWNERS \cup Unlisted
Hole == "${}"
KEYWORDS == {"FROM", "JOIN", "INTO", "UPDATE"}

-------------------------------------------------------------------------------
(* referencesIn. *)

Word(i) == IF i \in DOMAIN literal THEN literal[i] ELSE ""
IsName(word) == word \in Tables \cup Common \cup {"unnest"}

CommonTableExpressions ==
  {literal[i] : i \in {i \in DOMAIN literal : /\ Word(i - 1) \in {"WITH", ","}
                                              /\ IsName(Word(i))
                                              /\ Word(i + 1) = "AS" /\ Word(i + 2) = "("}}

\* FOR UPDATE and DO UPDATE lock or upsert, they name no table.
NamesATable(i) ==
  /\ literal[i] \in KEYWORDS
  /\ literal[i] = "UPDATE" => Word(i - 1) \notin {"FOR", "KEY", "DO"}

Named == {i \in DOMAIN literal : NamesATable(i)}

\* The literal ends at the keyword, or the name is built in place.
RuntimeNames == {i \in Named : Word(i + 1) \in {"", Hole}}

IsFunction(i) == Word(i + 2) = "(" /\ literal[i] \in {"FROM", "JOIN"}

References ==
  {Word(i + 1) : i \in {i \in Named : IsName(Word(i + 1)) /\ ~IsFunction(i)}}
    \ CommonTableExpressions

-------------------------------------------------------------------------------
(* scanTableOwnership and checkTableOwnership. *)

KindOf(table) == IF table \in DOMAIN TABLE_OWNERS THEN "foreign-table" ELSE "unknown-table"

ScanTableOwnership ==
  {[kind |-> KindOf(t), table |-> t] :
     t \in {t \in References : t \in DOMAIN TABLE_OWNERS => TABLE_OWNERS[t] # Module}}
  \cup {[kind |-> "runtime-table", table |-> Hole] : i \in RuntimeNames}

LiteralsNotRun == {[kind |-> "not-run", table |-> ""]}

\* A finding of the known list is tolerated, and only a fresh one fails.
CheckTableOwnership ==
  /\ findings = LiteralsNotRun
  /\ findings' = ScanTableOwnership \ known
  /\ UNCHANGED <<literal, touched, runtime, cte, pieces, known>>

-------------------------------------------------------------------------------
(* The literals of the adapters. *)

Add(words, tables, atRuntime, names) ==
  /\ findings = LiteralsNotRun /\ pieces < MaxPieces
  /\ pieces' = pieces + 1
  /\ literal' = literal \o words
  /\ touched' = touched \cup tables
  /\ runtime' = (runtime \/ atRuntime)
  /\ cte' = cte \cup names
  /\ UNCHANGED <<known, findings>>

\* Clauses the adapters are written with.  Who reads a name that a common table
\* expression took reads that expression; who writes, writes a table.
Reading(t) ==
  LET touches == {t} \ cte IN
  \/ Add(<<"SELECT", "FROM", t>>, touches, FALSE, {})
  \/ Add(<<"JOIN", t>>, touches, FALSE, {})
Writing(t) ==
  \/ Add(<<"INSERT", "INTO", t, "(", ")">>, {t}, FALSE, {})
  \/ Add(<<"UPDATE", t, "SET">>, {t}, FALSE, {})
  \/ Add(<<"DELETE", "FROM", t>>, {t}, FALSE, {})
Lock == Add(<<"FOR", "UPDATE">>, {}, FALSE, {})
Upsert == Add(<<"ON", "CONFLICT", "DO", "UPDATE", "SET">>, {}, FALSE, {})
OfFunction == Add(<<"FROM", "unnest", "(", ")">>, {}, FALSE, {})
BuiltAtRuntime == Add(<<"FROM", Hole>>, {}, TRUE, {})
\* The expression is a query of its own, in which its name still means the table.
WithExpression(c, t) ==
  Add(<<"WITH", c, "AS", "(", "SELECT", "FROM", t, ")">>, {t} \ cte, FALSE, {c})

LiteralsInit ==
  /\ literal = << >> /\ touched = {} /\ runtime = FALSE /\ cte = {} /\ pieces = 0
  /\ known \in SUBSET {[kind |-> KindOf(t), table |-> t] : t \in Tables}
  /\ findings = LiteralsNotRun

LiteralsNext ==
  \/ \E t \in Tables \cup cte : Reading(t)
  \/ \E t \in Tables : Writing(t)
  \/ Lock \/ Upsert \/ OfFunction \/ BuiltAtRuntime
  \/ \E c \in Common, t \in Tables \cup cte : c \notin cte /\ WithExpression(c, t)
  \/ CheckTableOwnership

-------------------------------------------------------------------------------
(* What the ownership check promises. *)

LiteralsDone == findings # LiteralsNotRun
Foreign == {t \in touched : t \in DOMAIN TABLE_OWNERS /\ TABLE_OWNERS[t] # Module}
Passes == findings = {}

\* "It fails on a table another module owns, a table the owner map does not
\* list and a table name built at runtime": a literal that touches one and
\* passes has every such table on the known list, but for those whose name it also
\* gives to an expression of its own, which hides the table wherever the literal
\* reads or writes it.
FailsOnForeignTables ==
  LiteralsDone =>
    /\ \A t \in (Foreign \cup (touched \cap Unlisted)) \ cte :
         [kind |-> KindOf(t), table |-> t] \in findings \cup known
    /\ runtime => ~Passes

\* What is reported is so: the literal touches that table, which is not of its module,
\* or has a name built at runtime. Its locks, its upserts, its functions and the
\* names of its expressions raise nothing.
ReportsOnlyForeignTables ==
  LiteralsDone =>
    \A f \in findings :
      IF f.kind = "runtime-table" THEN runtime ELSE f.table \in Foreign \cup (touched \cap Unlisted)
===============================================================================
