---------------------------- MODULE ConnectionPool ----------------------------
(***************************************************************************)
(* The connections of the database, as the requests of all modules share   *)
(* them.  A transaction holds a connection until it ends.  A read made     *)
(* inside it joins it when the code that opened the transaction published  *)
(* its manager as the ambient one and the code that reads asks for it; any *)
(* other query takes a connection of its own, and waits for one with no    *)
(* timeout.  The stock transactions also lock rows of inventory_items.     *)
(*                                                                         *)
(* A request is the sequence of its queries; queries of the same sort that *)
(* follow each other, which take and return a connection again and again,  *)
(* are one.  No request of this program runs the TransactionRunner inside  *)
(* a transaction, so its refusal is left out.                              *)
(***************************************************************************)
EXTENDS Naturals, Sequences, Functions

CONSTANTS
  Requests, Connections,
  Items,   \* the internal ids of the inventory items
  Kinds,   \* what the requests may be, of AllKinds
  None     \* no connection, no owner of a row

(* "query": on an injected repository or the data source.  "read": on      *)
(* currentEntityManager() or else the data source.  "run": the transaction *)
(* of a use case.  "own": the inTransaction of a repository.  "begin":     *)
(* dataSource.transaction.  "lock": the rows, for update.                  *)
Program == [
  \* SaveItem: a replenishment, an adjustment, an edit of one item.
  SaveItem |-> <<"query", "own", "lock", "read", "commit">>,
  ConsumeStockBatch |-> <<"run", "lock", "own", "read", "commit">>,
  RestoreStockBatch |-> <<"run", "lock", "read", "own", "read", "commit">>,
  UndoConsumption |-> <<"read", "run", "lock", "read", "own", "read", "commit">>,
  SaveWorkOrder |-> <<"query", "read", "own", "commit">>,
  CloseWithdrawal |-> <<"run", "read", "own", "read", "commit">>,
  SaveSession |-> <<"query", "begin", "commit">>,
  SaveRole |-> <<"query", "begin", "commit">>,
  RegisterCustomer |-> <<"run", "read", "commit">>,
  \* The roles of the user are not cached, and are read from the data source.
  RegisterOverExistingUser |-> <<"run", "read", "query", "read", "commit">>,
  \* The default role is found by repositories that do not ask for the manager.
  RegisterUser |-> <<"query", "run", "read", "query", "read", "query", "read", "commit">>]

AllKinds == DOMAIN Program
OneItem == {"SaveItem"}
Batches == {"ConsumeStockBatch", "RestoreStockBatch", "UndoConsumption"}

ASSUME PoolAssumption ==
  /\ Kinds \subseteq AllKinds /\ Items \subseteq Nat
  /\ None \notin Connections \cup Requests

VARIABLES
  stage,    \* of each request: new, running or done
  steps,    \* what it still has to do
  rows,     \* the rows it still has to lock
  tx,       \* the connection its transaction holds
  ambient,  \* whether the manager of its transaction is the ambient one
  conn,     \* the connection of a query outside of its transaction
  free,     \* the idle connections
  waiting,  \* the requests that wait for a connection, first come first served
  owner     \* who holds the lock of each row

poolVars == <<stage, steps, rows, tx, ambient, conn, free, waiting, owner>>

PoolInit ==
  /\ stage = [r \in Requests |-> "new"]
  /\ steps = [r \in Requests |-> <<>>]
  /\ rows = [r \in Requests |-> {}]
  /\ tx = [r \in Requests |-> None]
  /\ ambient = [r \in Requests |-> FALSE]
  /\ conn = [r \in Requests |-> None]
  /\ free = Connections
  /\ waiting = <<>>
  /\ owner = [i \in Items |-> None]

-------------------------------------------------------------------------------
(* What a step does with the connections. *)

Next1(r) == Head(steps[r])

\* r goes on with what is left to do.
Continue(r, left) ==
  /\ steps' = [steps EXCEPT ![r] = left]
  /\ stage' = [stage EXCEPT ![r] = IF left = <<>> THEN "done" ELSE "running"]

\* Mutation: the connection is not returned.
ReleaseNothing(c, r) ==
  /\ conn' = [conn EXCEPT ![r] = None]
  /\ UNCHANGED <<free, waiting>>

\* r returns c, and holds no connection but its transaction's after it.  A
\* connection that comes back goes to who has waited longest.
Release(c, r) ==
  IF waiting = <<>>
  THEN /\ free' = free \cup {c}
       /\ conn' = [conn EXCEPT ![r] = None]
       /\ UNCHANGED waiting
  ELSE /\ conn' = [q \in Requests |-> IF q = Head(waiting) THEN c
                                      ELSE IF q = r THEN None ELSE conn[q]]
       /\ waiting' = Tail(waiting)
       /\ UNCHANGED free

\* currentEntityManager() ?? dataSource, or the transaction of a repository.
JoinsAmbient(r) == ambient[r] /\ Next1(r) \in {"read", "own"}

NeedsConnection(r) ==
  /\ Next1(r) \in {"query", "read", "own", "run", "begin"}
  /\ ~JoinsAmbient(r)

Ask(r) ==
  /\ stage[r] = "running" /\ conn[r] = None /\ r \notin Range(waiting)
  /\ NeedsConnection(r)
  /\ \/ /\ free # {}
        /\ \E c \in free : conn' = [conn EXCEPT ![r] = c] /\ free' = free \ {c}
        /\ UNCHANGED waiting
     \/ /\ free = {}
        /\ waiting' = Append(waiting, r)
        /\ UNCHANGED <<conn, free>>
  /\ UNCHANGED <<stage, steps, rows, tx, ambient, owner>>

Query(r) ==
  /\ stage[r] = "running" /\ conn[r] # None /\ Next1(r) \in {"query", "read"}
  /\ Release(conn[r], r)
  /\ Continue(r, Tail(steps[r]))
  /\ UNCHANGED <<rows, tx, ambient, owner>>

\* runInNewTransaction publishes the manager, and dataSource.transaction does not.
Publishes(step) == step \in {"run", "own"}

OpenTransaction(r) ==
  /\ stage[r] = "running" /\ conn[r] # None /\ Next1(r) \in {"run", "own", "begin"}
  /\ tx' = [tx EXCEPT ![r] = conn[r]]
  /\ conn' = [conn EXCEPT ![r] = None]
  /\ ambient' = [ambient EXCEPT ![r] = Publishes(Next1(r))]
  /\ Continue(r, Tail(steps[r]))
  /\ UNCHANGED <<rows, free, waiting, owner>>

\* A query on the manager of the transaction.
Join(r) ==
  /\ stage[r] = "running" /\ JoinsAmbient(r)
  /\ Continue(r, Tail(steps[r]))
  /\ UNCHANGED <<rows, tx, ambient, conn, free, waiting, owner>>

\* findAllByIdsForUpdate locks the rows in the order of their ids.
MayLock(r) == {i \in rows[r] : \A j \in rows[r] : i <= j}

LockRow(r) ==
  /\ stage[r] = "running" /\ Next1(r) = "lock"
  /\ \E i \in MayLock(r) :
       /\ owner[i] = None
       /\ owner' = [owner EXCEPT ![i] = r]
       /\ rows' = [rows EXCEPT ![r] = @ \ {i}]
       /\ Continue(r, IF rows[r] = {i} THEN Tail(steps[r]) ELSE steps[r])
  /\ UNCHANGED <<tx, ambient, conn, free, waiting>>

\* The transaction commits, or rolls back after a query that failed.
EndTransaction(r) ==
  /\ stage[r] = "running" /\ Next1(r) \in {"commit", "rollback"}
  /\ Release(tx[r], r)
  /\ tx' = [tx EXCEPT ![r] = None]
  /\ ambient' = [ambient EXCEPT ![r] = FALSE]
  /\ owner' = [i \in Items |-> IF owner[i] = r THEN None ELSE owner[i]]
  /\ Continue(r, Tail(steps[r]))
  /\ UNCHANGED rows

-------------------------------------------------------------------------------
(* The requests. *)

Start(r, k, ids) ==
  /\ stage[r] = "new"
  /\ stage' = [stage EXCEPT ![r] = "running"]
  /\ steps' = [steps EXCEPT ![r] = Program[k]]
  /\ rows' = [rows EXCEPT ![r] = ids]
  /\ UNCHANGED <<tx, ambient, conn, free, waiting, owner>>

ItemsOf(k) == IF k \in Batches THEN (SUBSET Items) \ {{}}
              ELSE IF k \in OneItem THEN {{i} : i \in Items} ELSE {{}}

Receive(r) == \E k \in Kinds : \E ids \in ItemsOf(k) : Start(r, k, ids)

\* A query on a connection of its own fails, or the transaction cannot begin.
FailQuery(r) ==
  /\ stage[r] = "running" /\ conn[r] # None
  /\ Release(conn[r], r)
  /\ Continue(r, IF tx[r] = None THEN <<>> ELSE <<"rollback">>)
  /\ rows' = [rows EXCEPT ![r] = {}]
  /\ UNCHANGED <<tx, ambient, owner>>

\* A query of the transaction fails, or a rule of the domain stops the request.
FailInTransaction(r) ==
  /\ stage[r] = "running" /\ tx[r] # None /\ conn[r] = None
  /\ JoinsAmbient(r) \/ Next1(r) = "commit"
  /\ Continue(r, <<"rollback">>)
  /\ rows' = [rows EXCEPT ![r] = {}]
  /\ UNCHANGED <<tx, ambient, conn, free, waiting, owner>>

Step(r) ==
  \/ Ask(r) \/ Query(r) \/ OpenTransaction(r) \/ Join(r) \/ LockRow(r) \/ EndTransaction(r)

\* Bound: a request runs once.
AllAnswered == (\A r \in Requests : stage[r] = "done") /\ UNCHANGED poolVars

PoolNext ==
  \/ \E r \in Requests : Step(r) \/ Receive(r) \/ FailQuery(r) \/ FailInTransaction(r)
  \/ AllAnswered

PoolSpec == PoolInit /\ [][PoolNext]_poolVars /\ \A r \in Requests : WF_poolVars(Step(r))

-------------------------------------------------------------------------------
AllSteps == {"query", "read", "own", "run", "begin", "lock", "commit", "rollback"}

PoolTypeOK ==
  /\ stage \in [Requests -> {"new", "running", "done"}]
  /\ steps \in [Requests -> Seq(AllSteps)]
  /\ rows \in [Requests -> SUBSET Items]
  /\ tx \in [Requests -> Connections \cup {None}]
  /\ ambient \in [Requests -> BOOLEAN]
  /\ conn \in [Requests -> Connections \cup {None}]
  /\ free \subseteq Connections
  /\ waiting \in Seq(Requests)
  /\ owner \in [Items -> Requests \cup {None}]

UsedBy(r) == {tx[r], conn[r]} \ {None}

(* No connection is lost or used by two: it is idle, or one request that   *)
(* is not done holds it, for its transaction or for a query and not for    *)
(* both; and nobody waits while one is idle.  However a request ends, by a *)
(* commit, a rollback or a failed query, what it held goes to the next     *)
(* (runInNewTransaction, and the pool below it).                           *)
ConnectionsAreAccountedFor ==
  /\ \A c \in Connections : c \in free <=> \A r \in Requests : c \notin UsedBy(r)
  /\ \A q, r \in Requests : q # r => UsedBy(q) \cap UsedBy(r) = {}
  /\ \A r \in Requests : tx[r] # None => tx[r] # conn[r]
  /\ \A r \in Requests : stage[r] # "running" => UsedBy(r) = {}
  /\ free # {} => waiting = <<>>

(* A request whose transaction holds a connection neither takes nor waits  *)
(* for a second one: what it reads on the way joins the transaction        *)
(* (ADR 0032, the comments of typeorm-transaction-runner.ts).              *)
HoldersTakeNoSecondConnection ==
  \A r \in Requests : tx[r] # None => conn[r] = None /\ r \notin Range(waiting)

WaitsForRow(r) ==
  /\ Next1(r) = "lock"
  /\ \A i \in MayLock(r) : owner[i] # None

Busy == {r \in Requests : stage[r] = "running"}

(* The requests never all wait, for connections that those who wait hold   *)
(* or for rows they have locked: there is no timeout that would end it     *)
(* (ADR 0032; findAllByIdsForUpdate).                                      *)
PoolIsNeverStuck ==
  Busy # {} => \E r \in Busy : r \notin Range(waiting) /\ ~WaitsForRow(r)

(* Every request is answered, however many connections the others take     *)
(* and whichever rows they lock.                                           *)
EveryRequestEnds == \A r \in Requests : stage[r] = "running" ~> stage[r] = "done"
===============================================================================
