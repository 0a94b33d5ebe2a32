---------------------------- MODULE WorkOrderBoard ----------------------------
(***************************************************************************)
(* The board of work orders, read page by page while work orders are       *)
(* opened and moved.  Every page is two queries with no shared snapshot:   *)
(* one reads the rows at an offset of the whole order, one counts the      *)
(* matches.  A client walks the pages from the first, to the last page the *)
(* totals speak of or to the first page that is not full.                  *)
(***************************************************************************)
EXTENDS Integers, Sequences, FiniteSets, Functions

CONSTANTS
  MaxOrders,  \* bound: how many work orders are ever opened
  MaxWrites,  \* bound: how many openings and moves one walk meets
  Stamps,     \* the moments an opening may have read before it is saved
  Filters,    \* the sets of statuses a client asks for; {} asks for none
  PageSizes   \* the page sizes a client asks for

\* What an instance must make of the constants.
BoundsAssumption ==
  {MaxOrders, MaxWrites} \subseteq Nat /\ Stamps \subseteq Nat /\ PageSizes \subseteq Nat \ {0}

VARIABLES
  table,  \* work_orders, by ascending id: the status and created_at of each
  walk    \* the client's walk over the pages

boardVars == <<table, walk>>

BOARD_STATUS_ORDER == <<"IN_EXECUTION", "AWAITING_APPROVAL", "IN_DIAGNOSIS", "RECEIVED",
                        "COMPLETED", "DELIVERED", "CANCELED">>
OPEN_STATUSES == {"IN_EXECUTION", "AWAITING_APPROVAL", "IN_DIAGNOSIS", "RECEIVED"}

BoardStatuses == Range(BOARD_STATUS_ORDER)

\* The statuses a request lists.
Wanted(filter) == BoardStatuses \cap (IF filter = {} THEN OPEN_STATUSES ELSE filter)

\* The statuses listed are a part of BOARD_STATUS_ORDER in its order, so their
\* positions order them as their positions in the whole do.
Position(status) ==
  CHOOSE k \in DOMAIN BOARD_STATUS_ORDER : BOARD_STATUS_ORDER[k] = status

Matching(statuses) == {i \in DOMAIN table : table[i].status \in statuses}

\* The position of the status, then the oldest, then the id.
ListedBefore(i, j) ==
  LET p == Position(table[i].status)  q == Position(table[j].status) IN
  \/ p < q
  \/ p = q /\ table[i].created < table[j].created
  \/ p = q /\ table[i].created = table[j].created /\ i < j

Rank(statuses, i) == Cardinality({j \in Matching(statuses) : ListedBefore(j, i)}) + 1

Board(statuses) ==
  [k \in 1 .. Cardinality(Matching(statuses)) |->
     CHOOSE i \in Matching(statuses) : Rank(statuses, i) = k]

\* LIMIT size OFFSET (page - 1) * size; a page past the last is empty.
Page(statuses, page, size) ==
  LET board == Board(statuses) IN
  SubSeq(board, (page - 1) * size + 1,
         IF page * size < Len(board) THEN page * size ELSE Len(board))

\* Mutation: a last page that is not full is not counted.
FullPages(total, size) == total \div size

TotalPages(total, size) == (total + size - 1) \div size

-------------------------------------------------------------------------------
(* The work orders. *)

\* Where a work order goes from each status.
NextStatuses(status) ==
  CASE status = "RECEIVED" -> {"IN_DIAGNOSIS", "CANCELED"}
    [] status = "IN_DIAGNOSIS" -> {"AWAITING_APPROVAL", "CANCELED"}
    [] status = "AWAITING_APPROVAL" -> {"IN_EXECUTION", "IN_DIAGNOSIS", "CANCELED"}
    [] status = "IN_EXECUTION" -> {"AWAITING_APPROVAL", "COMPLETED", "CANCELED"}
    [] status = "COMPLETED" -> {"DELIVERED"}
    [] OTHER -> {}

\* created_at is read from the clock before the insert, so ids and moments need
\* not agree.
OpenOrder(created) ==
  /\ Len(table) < MaxOrders /\ walk.opened + walk.moved < MaxWrites
  /\ table' = Append(table, [status |-> "RECEIVED", created |-> created])
  /\ walk' = IF walk.at = "idle" THEN walk ELSE [walk EXCEPT !.opened = @ + 1]

MoveOrder(i) ==
  /\ walk.opened + walk.moved < MaxWrites
  /\ \E status \in NextStatuses(table[i].status) :
       table' = [table EXCEPT ![i].status = status]
  /\ walk' = IF walk.at = "idle" THEN walk ELSE [walk EXCEPT !.moved = @ + 1]

-------------------------------------------------------------------------------
(* The walk. *)

Reading == walk.at = "reading"
NotRead == -1
Unread == [read |-> FALSE, ids |-> << >>]

\* goal: the client stops at the last page the totals speak of, or at a page
\* that is not full.  opened and moved: the writes the walk has met.
NoWalk == [at |-> "idle", statuses |-> {}, size |-> 1, goal |-> "totals", page |-> 1,
           rows |-> Unread, total |-> NotRead, seen |-> << >>, first |-> {},
           opened |-> 0, moved |-> 0]

StartWalk(filter, size, goal) ==
  /\ walk.at = "idle"
  /\ walk' = [NoWalk EXCEPT !.at = "reading", !.statuses = Wanted(filter), !.size = size,
                            !.goal = goal, !.first = Matching(Wanted(filter))]
  /\ UNCHANGED table

ReadRows ==
  /\ Reading /\ ~walk.rows.read
  /\ walk' = [walk EXCEPT !.rows = [read |-> TRUE,
                                    ids |-> Page(walk.statuses, walk.page, walk.size)]]
  /\ UNCHANGED table

ReadTotal ==
  /\ Reading /\ walk.total = NotRead
  /\ walk' = [walk EXCEPT !.total = Cardinality(Matching(walk.statuses))]
  /\ UNCHANGED table

Continues ==
  IF walk.goal = "totals"
  THEN walk.page < TotalPages(walk.total, walk.size)
  ELSE Len(walk.rows.ids) = walk.size

\* Both queries are answered: the client has one more page and its totals.
TurnPage ==
  /\ Reading /\ walk.rows.read /\ walk.total # NotRead
  /\ walk' = [walk EXCEPT !.at = IF Continues THEN "reading" ELSE "done",
                          !.page = IF Continues THEN @ + 1 ELSE @,
                          !.seen = @ \o walk.rows.ids, !.rows = Unread, !.total = NotRead]
  /\ UNCHANGED table

EndWalk == walk.at = "done" /\ walk' = NoWalk /\ UNCHANGED table

BoardInit == table = << >> /\ walk = NoWalk

BoardNext ==
  \/ \E created \in Stamps : OpenOrder(created)
  \/ \E i \in DOMAIN table : MoveOrder(i)
  \/ \E filter \in Filters, size \in PageSizes, goal \in {"totals", "short"} :
       StartWalk(filter, size, goal)
  \/ ReadRows \/ ReadTotal \/ TurnPage \/ EndWalk

BoardSpec == BoardInit /\ [][BoardNext]_boardVars

-------------------------------------------------------------------------------
(* Properties. *)

\* The types of the rows and of what the client has read.
BoardTypeOK ==
  /\ \A i \in DOMAIN table : /\ table[i].status \in BoardStatuses
                             /\ table[i].created \in Stamps
  /\ walk.at \in {"idle", "reading", "done"}
  /\ walk.page \in 1 .. MaxOrders + 1
  /\ walk.total \in {NotRead} \cup 0 .. MaxOrders
  /\ Range(walk.seen) \cup walk.first \subseteq DOMAIN table

\* A walk during which nothing is written shows every matching work order once,
\* in the order of the board, whichever end the client goes by: the pages cut
\* the board without a gap or an overlap and the totals count its pages.
QuietWalkShowsTheBoard ==
  walk.at = "done" /\ walk.opened = 0 /\ walk.moved = 0 => walk.seen = Board(walk.statuses)

\* An opening only pushes work orders to later pages: as long as none changes
\* its status, a client that reads on to a page that is not full misses none of
\* those there were when it began, though it may see one twice.
OpeningsHideNothing ==
  walk.at = "done" /\ walk.moved = 0 /\ walk.goal = "short"
    => walk.first \subseteq Range(walk.seen)
===============================================================================
