# Formal models of the Workshop Management API

This directory holds TLA+ models of the workshop API and of the programs kept beside it, the TLC
configurations that check them on small instances, and proofs of their main properties for
instances of any size. The API is a NestJS modular monolith over PostgreSQL and Redis; its modules
lie under `src/src/modules/`. Paths below are relative to that directory unless they start with
`src/` (`src/src/` is the program's own source, `src/security/` its security tool).

- [The system](#the-system)
- [The models](#the-models)
- [What the runs check](#what-the-runs-check)
- [Disagreements between the code and what is said of it](#disagreements-between-the-code-and-what-is-said-of-it)
- [What is proved](#what-is-proved)
- [Not modelled, and why](#not-modelled-and-why)
- [Plan](#plan)
- [Running it](#running-it)

## The system

A **work order** is one visit of a vehicle to the shop. Services and parts are added to it, a
mechanic diagnoses, a **budget round** is quoted to the customer, who approves or rejects it in
the application or through a link in an e-mail; parts are withdrawn from the shelf and come back;
the visit is completed, delivered, or canceled. Parts live in another module, **inventory**, with
which no transaction is shared. Customers, vehicles, services and accounts are modules of their
own, and call each other through ports.

| Component | State | Operations | Talks to |
| --- | --- | --- | --- |
| Work order aggregate (`work-orders/domain`) | status, mechanic, items with their round, budgets, discount, charged total | add, plan, remove, assign, diagnose, quote, decide, withdraw, return, discount, complete, deliver, cancel | nobody: it runs in memory |
| Work order repository and use cases | four tables, with a `version` | four reads, one guarded save | PostgreSQL; each use case is an HTTP request |
| Stock saga (`withdraw-parts`, `return-parts`, `deliver-vehicle`, `cancel-work-order`, `stock-step-applier`) | where each request is | consume, save, compensate, apply | work order store, outbox, inventory |
| Stock step outbox (`work_order_stock_steps`) | kind, status, due time, attempts of each step | arm, enqueue, disarm, complete, release, claim, fail | a processor on a timer in every instance |
| Inventory ledger | count of an item, stock movements | consume, undo, confirm, restore, settle, write off | PostgreSQL |
| Inventory catalog | name, SKU, price, status, count | create, update, deactivate, replenish, adjust, batches | ledger rows of the same items |
| Work order opening | the new work order | create, with checks in other modules | customers, vehicles, services, inventory |
| Reads (`work-orders/infrastructure`, shortages) | none | trail, board, summary, shortage report | rows of the above, query by query |
| Status mail and dispatcher | none | one mail after each commit | SMTP |
| Sessions | refresh tokens, revocation, marks in Redis | log in, refresh, revoke, log out everywhere | users, access tokens |
| Authorization | roles, permissions, a Redis cache with a time to live | read through, invalidate, assign, create, rename, delete | Redis, events |
| Routes and guards | none | authenticate, check permissions, authorize | sessions, authorization |
| Users, customers, vehicles, services | single rows | register, update, deactivate, discard | each other, through ports |
| Customer registration saga | customer, account, its own outbox | arm, open account, save, discard | users |
| Connections and transactions | a pool of ten connections, row locks | run, join, query | everything above |
| Migrations | tables, columns, the record of what was applied | run, revert | every table |
| Seed | none | create what is missing | accounts, catalogs, registry |
| Readiness probe | none | ask the database and Redis | the orchestrator |
| Security scan (`src/security/scripts`) | report files, snapshots, a test account | prepare, scan, consolidate, snapshot, compare | four scanners, Docker, the API |
| Architecture checks (`src/scripts/architecture`) | none | module cycles, table ownership | the source tree |

What is hard, and not reached by unit tests of single calls:

- **Interleaving.** A request is a chain of awaits. Only the work order has a version; every other
  save overwrites all columns with a copy read earlier, and only unique indexes and foreign keys
  refuse one. A withdrawal races its own armed undo step, another withdrawal, a return, a delivery
  and a cancellation.
- **Partial failure.** A withdrawal and a registration write to two modules. Each of their calls
  can fail, can take effect and seem to fail, and the process can stop between any two.
- **Timeouts.** The grace period of an armed step and the lease of a claimed one are guesses: the
  holder may be slow, not dead. A check of the readiness probe may be answered after its timeout.
- **Ordering.** Steps of one work order are applied in the order they were recorded, except the
  undo, while retries, failures and two processors try to reorder them. Mails, trail entries and
  invalidations come after the save they tell of.
- **Staleness.** A cached access, a session's mark, a report file of an earlier scan, a page of a
  board that moves.
- **Protocol.** Rounds are rejected, generated again under the same id, and supplemented; the total
  the customer saw must be the total the customer decided on.
- **Limits.** A pool whose connections are all held by who waits for one more.

`PROJECT.json` lists these hazards with their lines and the properties that watch it.

What makes each component correct:

- *aggregate*: one pending round at most, exactly while approval is awaited; nothing executed or
  withdrawn without approval; totals that stay what was quoted and decided; a charge that follows
  from the approved rounds;
- *repository*: concurrent requests come to the same as commands run one at a time, and a load
  gives back what the last save was given;
- *stock saga*: a withdrawal is undone or saved, never both, and in the end one of them;
- *ledger*: units are conserved, and agree with what the work order says is withdrawn;
- *outbox*: every step is applied, or fails in front of an operator;
- *catalog, registry, services*: the count is that of the movements, active names and SKUs and
  plates are unique, requests come to their end;
- *reads*: an undisturbed reader sees what is stored, a disturbed one nothing impossible;
- *sessions*: one usable refresh token per session, no access after an answered revocation, no
  token that outlives its session;
- *authorization*: nobody but a super administrator makes administrators, however stale the cache;
- *registration saga*: an opened account becomes a customer's, is used, or is gone again;
- *pool*: a transaction takes no second connection, and no connection is lost;
- *migrations*: the schema is that of the record, and fits the entities;
- *scan*: what a scanner answered is in the report, nothing is missing without a cause, and what two
  reports compare is what their scanners answered.

## The models

| Module | Extends | Models |
| --- | --- | --- |
| `WorkOrderAggregate` | | the aggregate: each command is a relation `Cmd(w, v)` |
| `WorkOrder` | `WorkOrderAggregate` | commands one at a time: the abstract specification |
| `WorkOrderStore` | `WorkOrder` | requests, four reads, the guarded save |
| `WorkOrderRows` | `WorkOrder` | how a save takes the aggregate apart into four tables and a load puts it together |
| `WorkOrderView` | `StatusMail` | the summary of a work order, read in four queries while commands are saved; requests, mails and summary together |
| `WorkOrderTrail` | | the trail: moments stamped before the save, entries listed by moment |
| `WorkOrderBoard` | | the board, read page by page while work orders move |
| `StockLedger` | | inventory's side of one work order |
| `StockOutbox` | | the statements on the outbox, as operators on its value |
| `StockSteps` | `StockLedger`, `StockOutbox` | the saga: requests, workers, faults, time |
| `StockShortages` | | the shortage report beside withdrawals and returns half done |
| `InventoryCatalog` | | the items, the requests of the catalog, the row locks of batches |
| `ServiceCatalog` | | the services on offer |
| `CustomerRegistry` | | customers and their vehicles |
| `WorkOrderOpening` | `CustomerRegistry` | the opening of work orders over registry and catalogs |
| `UserAggregate`, `Users` | | the account as a value; accounts under concurrent requests |
| `Registration` | | the promise of the registration saga: its abstract specification |
| `CustomerRegistration` | | the saga: requests, discard steps, workers, faults |
| `Sessions` | `UserAggregate` | the session as a value; logins, refreshes, revocations, the guard |
| `AccessControl` | | roles, assignments, the access cache and its invalidation |
| `Routes`, `RouteAccess` | | every route with its guard; guards, authorizers and roles that change |
| `StatusMail` | `WorkOrderStore` | events of a committed change, their publication, the subscriber |
| `ConnectionPool` | | the pool, the ambient transaction, row locks |
| `SchemaMigrations` | | the statements of every migration, the entities, runners that overlap |
| `Seed` | | the seed's queries beside other seeds, edits and stops |
| `Readiness` | | the readiness probe and its timers |
| `SecurityScan` | | normalisation and merging of findings; a scan from the command line to the comparison |
| `ScanAccount` | | the preparation of a scan and its account |
| `ArchitectureChecks` | | two architecture checks against reference definitions |
| `WorkOrderProofs` | `WorkOrderRows`, `WorkOrderView` | the proofs about the work order, its store, its rows, its summaries and its mails |
| `StockStepsProofs` | `StockSteps` | the proofs about the stock saga |
| `StockBooksProofs` | `StockStepsProofs` | the two ledgers of the stock saga |
| `IdentityProofs` | `AccessControl`, `Sessions`, `Users` | the proofs about grants, sessions and accounts |
| `RecordsProofs` | `InventoryCatalog`, `ServiceCatalog`, `WorkOrderOpening`, `WorkOrderTrail`, `StockShortages`, `Seed` | the proofs about the catalogs, the registry, the openings, the trail, the report of shortages and the seed |
| `RouteProofs` | `RouteAccess` | the proofs about the router, the guards and the authorizers |
| `PromisesProofs` | `CustomerRegistration`, `ConnectionPool`, `Readiness`, `WorkOrderBoard` | the proofs about these four |
| `SumLemmas` | | sums over finite sets |
| `MCWorkOrder`, `MCStockSteps` | the module they instantiate | values of the constants for TLC |
| `MCWorkOrderStore`, `MCIdentity`, `MCRecords`, `MCReports`, `MCPromises` | | several components, beside one another, for TLC |

**WorkOrderAggregate** has no variables because the aggregate has none outside its object: a
command takes it from `w` to `v`, and an error relates `w` to nothing. The columns kept are the
ones that a guard reads or a total counts. `budgetRound` and `budgetedUnitPrice` are one number:
the round an item is attached to, `Draft` for null, `Absent` for no item. The price snapshot an
item takes when it is added is the constant price of its identity. A budget's `generatedAt`, which
the link's hash covers, is a generation counter. Names, notes, times, the trail and the domain
events are left out, except that a quoted round's mail puts its link in `links`. `decision` is a
history field: how a round was decided, and on which total.

**WorkOrder** runs the commands one at a time on `wo`.

**WorkOrderStore** adds `version` and, for each request, what it has read so far. `findByNumber` is
four actions (`ReadRow`, `ReadServices`, `ReadParts`, `ReadBudgets`). Between the last read and
the save a request only changes its own copy, so command and save are one action, `Save...`, whose
`Lands` is the update guarded by the version. `GiveUp` is every way to write nothing.

**StockLedger** keeps one inventory item and the movements one work order made on it. A
consumption is a record; the returns that undo it are its column `returned`, by operation. Every
use case is one transaction with the item locked, except the read of an undo and that of a
write-off, which the code makes outside the lock: `StockSteps` separates them.

**StockOutbox** has the SQL statements of `typeorm-pending-stock-steps.ts`. `Claimable` is the
`WHERE` of `CLAIM_DUE`. Time is a Boolean, `due`: whether `due_at` has passed.

**StockSteps** composes both with the work order, of which it keeps the status, the withdrawn
quantity of one approved part, and the version. `request[w]` is a withdrawal:

```
idle -Load-> loaded -Arm-> armed -ConsumeStock-> consumed -Commit-> done
                             |                      |
                             +------> undoing <-----+
     undoing -CompensationReads-> returning -CompensationReturns-> undone -CompensationCompletes-> done
     any of these -fails-> failed -HandToProcessor-> done
```

`worker[k]` is one claimed step on its way through `StockStepApplier`. A worker stands for one
step of a batch of the processor, of any instance, and for the attempt that a request makes at
its own step after the commit: all three go through the same claim. The steps of a batch that
are claimed but not begun are workers at `claimed`.

Faults, each counted in `faults`: `crash` (a process stops; this is also what a failing
`recordFailure` comes to), `error` (a call fails without effect), `lost answer` (a call takes
effect in inventory and seems to fail), `lost commit` (the same of the transaction that saves the
work order), `stall` (a grace period or a lease ends while its holder is at work). Without a stall,
`TimePasses` lets a period end only when nobody holds the step.

Simplifications: a return, a completion, a delivery and a cancellation are one action from their
read to their save, because they do nothing in between and `WorkOrderStore` shows that the guard
makes them one step. A retry delay ends at once: a due step may be claimed arbitrarily later, so
nothing is lost. An operator who sets a failed step back to pending is external to the code.

**WorkOrderRows** keeps the aggregate as the loads and saves see it, in `rows`: the row of the work
order, the rows of rounds and items with internal keys, which the save itself assigns to rounds
and then writes into the items. `wo` is what the last save was given. Names, moments and the keys
of other modules' rows are columns copied as they are; a command adds at most one row per table.

**WorkOrderView**, **WorkOrderTrail** and **WorkOrderBoard** model the readers. A reader's query is a step, and
commands run between two. The trail keeps of the aggregate only what its entries tell, on one
clock that all requests share. The board keeps the status and the moment by which it is ordered.
`ReadersSpec` in `WorkOrderView` is the composition of all those a work order is told to: requests that save, mails of what they
saved, and a summary read meanwhile.

**StockShortages** reads the demand from the work orders and then the shelf from inventory. An
order has one withdrawal or return under way at a time; `stale` stands for the version guard.

**InventoryCatalog** gives every request of the catalog its copy of the item: the read, the lock
and the save are steps, the count is taken from the locked row and every other column from the
copy. A batch locks its items one by one in the order of their keys. It moves the same units of each
item; what it does to the consumptions is in `StockLedger`.

**CustomerRegistry**, **ServiceCatalog** and **Users** have the same shape: a read, a copy, and a save of
all columns that only an index or a foreign key refuses. Generated ids are chosen by `CHOOSE` from
those not in use. The lookups of an e-mail and of a document are one step. The check and the
deletion of a discarded account are two steps in `Users` and one in `CustomerRegistration`.

**WorkOrderOpening** adds to the registry the lookups of an opening, its items in one step, and the
save under a number that may be taken and is drawn again at most five times.

**Registration** has one variable, what has become of each opened account. **CustomerRegistration**
implements it: the account is `opened` while a row exists that no customer and no session uses,
`kept` when one does, and so on; its mapping is at the end of the module. Its faults are those of
`StockSteps`. A worker claims one step at a time.

**Sessions** runs logins, refreshes, logouts, deactivations and password changes as chains of
steps with a clock. Redis marks are written after the rows. The two rows read by
`findByRefreshTokenHash` are read at once.

**AccessControl** has the guard as a step before each command: it reads the cache or fills it from
what it read from the database. An assignment invalidates after its answer, and may fail to. Entries expire at
no particular moment.

**Routes** is the table of all routes in the order the router tries them and of the seeded roles.
**RouteAccess** sends requests through the three guards and through the authorizers of completion,
decision and cancellation, over one work order reduced to what an authorizer asks of it. A change of
password and the logout that follows are one action; role changes are an action of the environment.

**StatusMail** runs on `WorkOrderStore`: a save leaves an event with its request, which publishes it after its stock
step; the subscriber reads the customer, sends, and logs. Answers of the mail server may be lost.

**ConnectionPool** reduces a request to the sequence of its queries: those of its transaction,
those of other connections, rows to lock. Consecutive queries of a sort are one. Queries that run
in parallel outside a transaction are left out. PostgreSQL would abort one of two requests that
wait for each other's rows; the model lets them wait, and shows that it does not come to that.

**SchemaMigrations** is the statements of `up()` and `down()` on tables, columns, which of them may
be empty, and references, and beside them the columns of every entity. A transaction is one step.
A revert runs alone; runs may overlap.

**Seed** has one step per query, for two seeds, `seed:admin`, and people who deactivate rows. The
look and the unique index of a creation are one step.

**Readiness** keeps, beside the probe that waits, how many questions of earlier probes are still
open (`late`), whose answers must not count. Timers fire on time.

**SecurityScan** runs the four scanners one after the other over report files that outlive a run.
Flaws of the project are a small set, so what every tool would report is known, and the report can
be compared with it. The first part of the module normalises, merges and compares them: an advisory has a CVE only where the
tool names it by one, and a match is titled by the last word of its rule. A scanner can fail, answer a part (Semgrep with
errors of its own, an interrupted container), answer nothing that can be read as findings (npm's account of an error, which is readable
JSON), or leave the file of an earlier run to be read; `troubled` is a history of which did. `ScanAccount` has the preparation
in detail, and `SecurityScan` takes it as one step that succeeds or does not.

**ArchitectureChecks** has no processes: its behaviours are one run of a check, for module cycles or for foreign
tables, over an input, and TLC enumerates the inputs. A literal is put together of clauses, and beside its words the model keeps what
it touches: who reads a name that a common table expression took reads that expression, who writes it writes the table.

## What the runs check

| Run | Specification | What it shows |
| --- | --- | --- |
| `work_order` | `WorkOrder!Spec` | the invariants of the aggregate over every order of its commands |
| `work_order_store` | `MCWorkOrderStore` | two requests refine `WorkOrder!Spec`; no torn read is ever saved; summary and mails can be relied on |
| `stock_stalls` | `StockSteps!Spec` | no withdrawal undone and saved; both ledgers agree at all times, whatever outruns whatever |
| `stock_crashes` | `StockSteps!Spec` | with processes that stop but timers that hold, no unit is orphaned |
| `stock_liveness` | `FairSpec` | every step is applied, or one fails for good |
| `identity` | `MCIdentity` | sessions, access, accounts, routes: who may do what, under requests that overtake each other |
| `records` | `MCRecords` | catalogs, registry, openings, trail, schema, seed, pool: what races never break |
| `reports` | `MCReports` | rows, board, shortages, scan and its account, architecture checks: what is put together of pieces tells the truth |
| `promises` | `MCPromises` | what must end, ends, and ends well; the registration saga implements `Registration` |
| `stalled_stop`, `lost_commit`, `pool_stuck` | | a counterexample each, see [below](#disagreements-between-the-code-and-what-is-said-of-it) |

`work_order_store`, `identity`, `records`, `reports` and `promises` put components beside one another that share no variable in the code's state they
model: the tables of one are no tables of the other, or the other is reduced to what the first reads
of it. `part`, chosen at the start, says which one moves; the states of a composition are the
sum of its components', not their product, and nothing is lost by it, since a property is about one
component. Where components do interact, a module models the interaction: `WorkOrderOpening` over
`CustomerRegistry`, `StatusMail` over `WorkOrderStore`, `StockSteps` over ledger and outbox, `Sessions` and `Users` over the
account, `ConnectionPool` under all requests. One cfg may run a single component: `Parts` or
`Components` names those that may move.

Deadlock is not checked (`CHECK_DEADLOCK FALSE`), because the models do stop: a visit is delivered, the
requests of the instance are answered, the scan is over, a bound is reached. That nothing waits for
ever is said by properties: `PoolIsNeverStuck`, `RequestsFinish`, `EveryRequestEnds`, `NothingIsOrphaned`.

**work_order.** `PendingWhileAwaiting` and `ExecutionIsApproved` tie the status to the rounds.
`QuoteStillHolds` says the total of a round remains the price of its items, through rejection and
generation again. `DecidedOnQuotedTotal` says a decision by link is about the total that was
mailed. `WithdrawnPartsAreApproved`, `FrozenCharge` and `ChargedWithinApproval` tie parts and
charge to approval. `ApprovedRoundIsLocked` says no command changes what was approved.

**work_order_store.** `ImplementsWorkOrder` is `WorkOrder!Spec` as a property of the store with the
identity mapping on `wo` and `links`: each save is one command applied to the stored work order at
that moment. `CurrentCopyIsStored` is why: a request whose version is current has read
nothing else. `ReadersAreToldTheTruth` is about those who only read: a summary put together from four moments
shows a status with its rounds and a charge that adds up, and a closed one is exact; a mail tells of the
change it was sent for; and of two mails about one round, quoted, rejected and quoted again, at most one has a link that still
decides it. The run puts the summary beside the commands that requests amount to, and the mails beside requests that come
one after another; the theorem is about `ReadersSpec`, in which all of them run at once.

**stock_stalls, stock_crashes.** `UndoneNeverSaved` is the promise of the armed step.
`UnitsAreConserved` is inventory's own count. `LedgersAgree` ties inventory to the work order:
what is left of the saved withdrawals is what the work order says is withdrawn, plus the returns
not yet restored. `RestoresAreCovered` says a restore never throws that no pending consumption covers its
return (`restore-stock-batch.use-case.ts:66-74`).
`OnlySavedIsClosed` and `VisitIsClosed` are about delivery and cancellation racing a withdrawal, a
step whose lease ran out, and each other. `NothingIsOrphaned`: once nothing is left to do, an
unsaved withdrawal holds no units; `stalled_stop` shows what it costs when a timer is outrun.

**identity.** `SessionsAreSafe` says of sessions that an ACTIVE one has one usable token
(`ActiveSessionHasOneToken`), that two refreshes with one token do not both succeed
unless the session was revoked in between (`OneExchangePerToken`), that once a revocation has been answered no access token of the session gets past
the guard, in whatever order marks and tokens were made (`AccessEndsWithTheAnswer`), and that no token
outlives its session. `GrantsAreSafe`: nobody but who was a super administrator makes an administrator,
although the rule is checked against a cache and the role is looked up again. `AccountsAreSafe`: no
two live accounts of an e-mail or a document, no discard of an account that a customer or a session points
at, no generated password without its duty to change. `RoutesAreGuarded` sends every kind of person
through every route: none is shadowed by an earlier one, strangers learn nothing, a visit comes to its end
without an administrator, and losses and completions stay authorized whatever overtakes the check.

**records.** `ItemsAreSafe`: the count of an item is what its movements add up to and never negative, although every other
column may be stale, and active SKUs stay unique. `ServicesAreSafe`: so do active names, and a service can be deactivated
whatever its name has become. `CustomersAreSafe`: one customer per user,
one vehicle per plate, one open visit per vehicle, by a customer who owned it; three requests of the registry race, and
one races two openings. `TrailIsWhole` ties the
listing by moment to the sequence of saves. `DatabaseIsWhole`: migrations back and forth, by two
runners one of which may stop, leave the schema of their record and the columns the entities name; seeds write nothing
twice; and the requests, but for the registration of users, lose no connection, take no second one while they hold one, and never
all wait.

**reports.** `RowsTellTheOrder`: a load gives back what was saved. `KeepsWorkOrder`: each save of rows
is a step of `WorkOrder!Spec` under the mapping that loads them. `RowsKeepTheirKeys`: items and rounds
keep the keys by which others name them. `ListingsAreTrue`: a walk over the board that nothing disturbs
shows it all, and openings never push a work order past a reader; a shortage that stands is reported.

`ScansAreTrue` says of a scan that every answer of a scanner is in the report once, no less severe and with all its CVEs
(`EveryAnswerIsInTheReport`), that only a container in which something went wrong can bring an answer of an earlier run
(`AnswersAreOfTheRun`), and that what is missing has its cause. Of a comparison, whatever scanners the two runs had, it
says (`ComparisonFollowsTheFlaws`) that a finding reported again is still open, that one on whose subject nothing is
reported any more is resolved, that the first on a subject is introduced, and that each scanner that had reported what is listed as resolved
either answered the second run without it or is declared missing there: "resolved" says no more than that. Of a preparation it says that
the token handed on reaches the routes, and that nothing an interrupted preparation left stops the next one.

`ChecksAreTrue` is about the two architecture checks over all small inputs: every module cycle is reported, once; every
foreign table is, unless the literal gives its name to an expression of its own; and nothing else is.

**promises.** `KeepsPromise` is `Registration!Spec` with its fairness: an opened account is used in
the end, or gone, unless its step failed for good. `UsedAccountsExist`, `ConnectionsAreAccountedFor` and
`ReadyMeansAllAnswered` are the invariants that are also proved. `RequestsEnd` is about those who wait for what others hold:
requests for connections and rows, openings for a number that is free, movements of the stock for the locks of several
items. `SilenceIsSurvived` is about those who wait for an answer: a probe is answered whatever its dependencies do, and every mail
ends sent, logged or lost with its process.

The type invariants `TypeOK` of `WorkOrder` and `StockSteps` and `StoreTypeOK` of `WorkOrderStore` are no properties of the runs: they are proved.

Each run has, for each of its properties, one change of the model that breaks it, listed under `mutants`
in `PROJECT.json`: a guard dropped, a copy saved, a step forgotten.

### Bounds

| Bound | Value | Why it is enough |
| --- | --- | --- |
| `Services`, `Parts` | 1 and 2 | a round with a service and a part, and a second round with another part |
| `MaxPlanned` | 2 | a part withdrawn and returned in two goes |
| `MaxGenerations` | 2 | a first round rejected and generated again, with the old link in the mailbox |
| `Discounts` | 1 and 4 | one below and one above what a return can leave as charge |
| prices | 3; 1 and 2 | totals that differ for different sets of items |
| `Requests` | 2 | a save between the reads, or between read and save, of another |
| `MaxVersion` | 7 | diagnosis, quote, rejection, quote, approval, withdrawal, completion |
| `Withdrawals`, `Returns` | 2 and 1 | withdrawals that race each other, a return that draws from both |
| `Units`, `OnHand`, `Planned` | 1 or 2; 1 to 3 | a shelf that covers both withdrawals, one, or one after the other's undo; a return of unequal consumptions |
| `Workers` | 2 | a lease that ends while its holder goes on, and a second claim |
| `MaxAttempts` | 1 or 2 | the last attempt with and without one before it |
| `MaxFaults`, `FaultKinds` | 1 or 2 | each kind, and two faults in one behaviour; the kinds are split over the runs because together they do not finish |

`MaxGenerations`, `MaxVersion` and `MaxFaults` are guards in the modules. Nothing of the code stops
there. The proofs hold for all their values.

For the other modules:

| Module | Instance | Why it is enough |
| --- | --- | --- |
| `WorkOrderRows`, `WorkOrderView` | 1 service, 2 parts or 1, `MaxKey` 2 | a rejected round generated again in place, a second round, an item removed and another added |
| `WorkOrderTrail` | 2 requests, `MaxVersion` 5, `MaxClock` 1 | stamps in one order and saves in the other, and equal stamps |
| `WorkOrderBoard` | 3 orders, pages of 2, `MaxWrites` 1 in one walk | a full, a short and an empty last page; an opening or a move between two pages |
| `StockShortages` | 2 orders, `MaxShelf` 5 | an order half withdrawn beside one half returned |
| `InventoryCatalog` | 3 items, 2 of one SKU; 3 requests | two batches over common items and a save between; a stale copy, the new owner of its SKU, and the save |
| `CustomerRegistry`, `ServiceCatalog`, `Users` | 3 requests over 2 or 3 rows | a check, the deactivation, the new owner of the name, and the stale save |
| `WorkOrderOpening` | 2 openings, 2 numbers, or 1 of each | two openings of one vehicle; `MaxDraws` 2 so that a draw collides, 5, the code's value, where the answer is at stake |
| `CustomerRegistration` | 2 registrations of one e-mail; 2 workers; 2 faults | a second registration that uses the account of the first; a lease that ends |
| `Sessions` | 1 user, 2 sessions, 3 tokens, 3 requests, `MaxTime` 2 | two rotations of a token, or a login and a rotation, and a logout; users share no row |
| `AccessControl` | 2 users, 2 or 3 roles, 2 requests | an actor and a subject, a system role of each rank and a custom one |
| `RouteAccess` | all routes and 4 people, or 2 requests over the racing routes | every guard alone, and every pair of a decision and what overtakes it |
| `StatusMail` | 1 service; `MaxMailed` 5, `MaxOnTheWay` 2, `MaxUnsent` 1; or `MaxVersion` 2 | for what mails tell: an item added, a diagnosis, a round quoted (version 3), rejected and quoted again (5), with the first mail still on its way; for their end, where what they say is no matter: two changes beside each other |
| `ConnectionPool` | 3 requests, 2 connections, 2 rows | everybody holds one and somebody waits; the code's ten differ in number only, and what is proved is proved for any number |
| `SchemaMigrations` | 2 runners, 12 or 4 reverts, 1 crash | all eleven migrations down and up again |
| `Seed` | 2 seeds and `seed:admin`, 2 starts, 1 stop, 1 edit | a seed that stops, one beside it or after it |
| `Readiness` | 2 dependencies, `CHECK_TIMEOUT` 2, `MaxTime` 5, `MaxLate` 2 | two probes in a row, with the first one's question still open |
| `SecurityScan` | 1 scan, 1 fault, 1 change of the machine, 1 crash, 2 advisories and an alert | two tools that disagree on a severity, one advisory without a CVE, and everything that can go wrong in one run |
| `SecurityScan` | 2 scans of all tools or of two, 1 fault, 1 change, 2 advisories and 2 rules of one short name | a file of the first scan read in the second, two runs of different scanners, a partial answer, one CVE of two that is fixed, one of two matches that share a name |
| `ScanAccount` | 2 preparations, 2 faults | a registration or a grant whose answer is lost, and the preparation that finds the account |
| `ArchitectureChecks` | 4 files in 3 layouts; 3 pieces; an expression with a name of its own or that of a table | two cycles that share an edge; a foreign table behind each other clause, read and written, hidden and not |

`MaxTime`, `MaxLate`, `MaxClock`, `MaxWrites`, `MaxUnits`, `MaxShelf`, `MaxKey`, `MaxMailed`, `MaxOnTheWay`, `MaxUnsent`, `MaxStarts`, `MaxStops`, `MaxEdits`,
`MaxReverts`, `MaxCrashes`, `MaxRuns`, `MaxScans`, `MaxChanges` and `MaxHostChanges` are guards too.
`SYMMETRY` is used where ids are interchangeable and no run with it checks a temporal property.

### Fairness

`FairSpec` assumes weak fairness of `Withdraw(w)`, `Work(k)` and `TimePasses` only. A request that
has begun goes on because Node.js runs it to its end; the processor polls on a timer
(`stock-step-processor.ts:29-37`) and works each claim to its end; the clock goes on. Fairness is
assumed of the union of the steps of a request and of a worker, not of each alone, and of no
fault, no new request and no operator. `StepsAreApplied` therefore has two ends: all is quiet for
good, or a step has failed for good, which `markFailed` leaves in front of an operator.

The other modules assume the same and no more. `Sessions`, `Users`, `RouteAccess`, the registry,
`AccessControl`, the readers, the scan and its preparation have no liveness property and no fairness. In `MCPromises` each fairness is that of
its component, for as long as that component is the one that moves. `CustomerRegistration` is fair to each
request, each worker and the clock, as `StockSteps` is. `InventoryCatalog`, `WorkOrderOpening` and
`ConnectionPool` are fair to each request that has begun: PostgreSQL grants a lock to who waits for
it, and the pool serves its queue in order, which `ConnectionPool` has as a queue.
`StatusMail` is fair to the request and to the subscriber of each change, and
not to their failing; a process that stops is one of the ends `ChangesAreTold` allows. `Readiness` is fair to the
clock, its timers, the late answers and the report.

## Disagreements between the code and what is said of it

The first three have a run that finds them and an entry under `findings` in `PROJECT.json`, with the
line that says otherwise. The others are behaviours of the modules named, met while they were
written; no run is kept for them, because they are decided: each follows from what the invariants above leave out. Most need no fault: two requests at once, or one, suffice.

**A stalled request that stops (`stalled_stop`).** `withdraw-parts.use-case.ts:33-35` says: "A
process that stops between the steps leaves the armed step behind, and the processor undoes the
consumption once the grace period has passed." In the run, the request arms its step and stalls
until the grace period has passed, before it consumes. The processor claims the step, finds
nothing to undo and completes it. The request then consumes, and its process stops before the last
transaction, which would have found the step gone and compensated. The units stay off the shelf
with no step to bring them back. It takes both a stall longer than the grace period and a stop.
ADR 0033 names another case, a compensation that fails, as left to an operator; not this one.

**A commit whose answer is lost (`lost_commit`).** `typeorm-inventory-item.repository.ts:140-143`
says: "An undone operation never reached the work order, so its consumptions are unconfirmed". If
the last transaction commits and the connection is lost before the answer arrives, the `catch` at
`withdraw-parts.use-case.ts:104` compensates a withdrawal that was saved: the units are back on the
shelf, and the work order counts them as withdrawn.

**A pool whose holders wait (`pool_stuck`).** `RegisterUserUseCase` (`identity/users/application/commands/register-user/register-user.use-case.ts:58`)
assigns the default role inside its transaction, by repositories that do not ask for the ambient
manager: each query takes a connection of its own. As many registrations at once as the pool has
connections hold them all and wait for one more, with no timeout.
`src/src/shared/infrastructure/database/typeorm-transaction-runner.ts:9` says that the reads inside it "hold no second connection". The check
of a user's role in a registration of a customer does the same on a cache miss
(`typeorm-effective-access.reader.ts:35`).

**Copies that overwrite.** A save writes every column of a copy read earlier, with no version. In
`Sessions` a rotation of a refresh token brings back a session that a logout ended (ADR 0022:33 says "There
is no case where a user believes they are out and a session survives"); an update brings back a deactivated account (`Users`),
customer (`CustomerRegistry`), service (`ServiceCatalog`) or inventory item (`InventoryCatalog`), all of which the glossaries in
`docs/ubiquitous-language/` call terminal; in `Users` an update undoes a change of password, or brings back a discarded
account without a role; in `AccessControl` renaming a role brings back its old permissions.

**Checks that are not repeated.** What a request looked up may have changed when it saves: a login of
an account deactivated since (`Sessions`), a vehicle of a customer deactivated since
(`CustomerRegistry`), a work order of such a customer or with a service off the list
(`WorkOrderOpening`), a plan of an item out of the catalog (`InventoryCatalog`). A late reader fills the
access cache after its invalidation (`AccessControl`), until the entry expires.

**Permissions and roles (`RouteAccess`).** The glossary gives planning parts to advisors and mechanics, completion to the
assigned mechanic and administrators, deactivating a customer and creating roles to administrators, and only
the password change to a temporary password. The mechanic may not plan, an advisor may complete and deactivate, only the super
administrator creates roles, and the logout of every session allows a temporary password too.

**The trail (`WorkOrderTrail`).** A supplementary budget moves the work order to awaiting approval, and no entry
says so.

**Migrations (`SchemaMigrations`).** Reverting the migration of the work orders leaves movements that refuse its foreign key
afterwards. The migration that confirms all consumptions also confirms one whose withdrawal is not saved yet.

**The seed (`Seed`).** Stopped between an item and its opening stock, it never completes them. Once the demo
customer has been deactivated, it fails.

**The scan (`SecurityScan`, `ScanAccount`).** A container that writes no report leaves that of an earlier scan to be
read, as an answer of this one. JSON that can be read is an answer: npm's account of its own error becomes an answer
without findings, and a Semgrep report with errors one with fewer. The count of these errors goes to the terminal and the dump; the
reports show how long the scanner took, although `src/security/scripts/scanners/semgrep.ts:123` says that the errors are "surfaced so a partial scan is not
read as a clean one", and `src/security/README.md:57-58` that "A scanner that did not run is never presented as an absence of vulnerabilities". A finding of a scanner
that did not run the second time, or of two CVEs of which one is fixed, is listed as resolved, and the comparison states
in any case that both runs used the same four tools (`src/security/scripts/summary-report.ts:255`). The comparison knows
a match by the last word of its rule alone, so a rule that matches for the first time is taken for another one of that name that was fixed.
Two CVEs of one package are two rows. A snapshot may be of another run than the report. The scan may revoke its own session.
An error before a scanner starts ends the whole scan. A repeated preparation migrates and seeds again.

**The ownership check (`ArchitectureChecks`).** A common table expression named like a foreign table hides that table
wherever the literal names it, in the query of the expression itself and where it is written, too
(`src/scripts/architecture/check-table-ownership.ts:96-123`). `FailsOnForeignTables` excludes exactly these names.

## What is proved

The theorems hold for all constants that satisfy the modules' assumptions: any sets of services,
parts, users and requests, any prices and any bounds. The assumptions say only that prices, units and
bounds are natural numbers, that a null is not one of the values it stands apart from, and that the ids of
withdrawals and returns differ; for the seed, that no two accounts share an e-mail or a document, that the customer's
comes last, and that `seed:admin` is given nobody else's document. Sets of items and of operations are finite, for a sum over them to mean anything.

`SumLemmas` proves what the proofs need of sums: that the order in which the fold takes the elements does not matter,
that the sum over a union of disjoint sets is the sum of the sums, that larger summands give a larger sum, and that a sum
over groups is the sum of the sums of the groups. The induction over the set is the theorem that < is well-founded
on the naturals, applied to the numbers of elements: a least set without the property is a contradiction, and no lemma with an operator
parameter is needed. That the fold has a value at all (`FoldExists`) is such an induction too.

`WorkOrderProofs` proves, for `WorkOrder!Spec`, `IInv`, the conjunction of `TypeOK`,
`PendingWhileAwaiting`, `ExecutionIsApproved`, `WithdrawnPartsAreApproved`, `QuoteStillHolds`,
`DecidedOnQuotedTotal`, `FrozenCharge` and `LinksMailed`. None but the first is inductive by
itself. Decisions keep `ExecutionIsApproved` only because the pending round is the last one;
`QuoteStillHolds` survives a new round only because no item is attached to a round that does not
exist yet, and generation again finds the rejected first round the only one because
`ExecutionIsApproved` says a second exists only after the first was approved; and
`DecidedOnQuotedTotal` needs `LinksMailed`: a mailed link of the current generation of a round
shows the current total, and no link is of a later generation. There is one lemma per
group of commands (`EditKeeps`, `DiagnoseKeeps`, `MovePartsKeeps`, `CloseKeeps`, `DecideKeeps`,
`QuoteKeeps`). `ChargeApproved` follows from
`FrozenCharge`, `QuoteStillHolds` and the sums: the charge counts the approved rounds' services and what was withdrawn of their parts, the totals
count what was planned, and no part has more withdrawn than planned. `ApprovedRoundsStay` proves the action property `ApprovedRoundIsLocked` from `IInv`.

For `StoreSpec` it proves `SInv`: `IInv`, `StoreTypeOK` and `IsCurrent`, which
says that a request whose version is current holds in its copy exactly the columns it has read so
far. `CurrentCopyIsStored` is its case of a finished read. From it, every save is a command on
the stored work order (`SaveIsCommand`), and the refinement `StoreImplementsWorkOrder` follows:
a save maps to a step of `WorkOrder`, a read and a refusal to a stutter.

For `RowsSpec` it proves `RowsTellTheOrder`, `KeepsWorkOrder` and `RowsKeepTheirKeys`, for every number of items and rounds;
the module assumes of `MaxKey` only that it is positive. The invariant `RowsInv` says what the tables hold: each item
there is has one row, whose key for its round is that of the one row the round has (`ServicesStored`, `PartsStored`,
`BudgetsStored`), and the keys of a table are distinct and below the next one (`Keyed`). It needs `IInv`, and that an item
is attached only to a round there is and an absent part is the part a load makes of no row (`ItemsHaveRounds`). From
it, `Loaded = wo` (`RowsLoad`): the rows of the rounds are as many as the rounds, by a bijection. A save gives no key twice
because a command adds at most one service, one part and one round (`CommandAdds`, `AddsAtMostOne`), which is
a fact about all fifteen commands. The refinement then maps a save to the command it runs; `PromisedCommands` shows that the
commands of the instance are those of `WorkOrder`.

The readers come last. For `ViewSpec` it proves `SummaryIsTrue`. A summary is put together from queries between which commands
may be saved, so its invariant `VInv` says which answers still stand: rounds are only added, and an approved first round stays
approved, so the status shown keeps its rounds (`HasRounds`); a completed order keeps its items, rounds and
discount, so what was charged still adds up from answers that came later; a closed one does not move at all (`ClosedStays`). For
`MailSpec` it proves `MailsTellCommittedChanges` and `OneCurrentLink`, from `MInv`: an event belongs to one save, and an event
that asks for a decision names a generation of its round no other event names. That holds because only quoting comes to
`AWAITING_APPROVAL`, and quoting raises the generation of the round it leaves to decide
(`GenerationsGoOn`), and a save that changes no status has no event. `ReadersStayTold` puts the two together for `ReadersSpec`: its invariant
is both, because to a summary a step of a request is a command, by `SaveIsCommand`, or nothing, and a query changes nothing a
mail is made of. `ReadersAreToldTheTruth`, which `work_order_store` checks, has all three.

`StockStepsProofs` proves `UndoneNeverSaved` and `OnlySavedIsClosed` for `StockSteps!Spec` with any number of
withdrawals, returns, workers, attempts and faults of every kind but the lost commit, with which the first is false
(`lost_commit`). Neither is inductive. The strengthening `IInv` says where the undo step of a withdrawal stands: it exists
before anything is consumed, no worker holds it while it is armed, a save closes it, and what has been
undone is past saving, because its request has left the way to the save or its step is armed no longer
(`UndoneIsPastSaving`). `ConfirmedIsSaved` says that only the step recorded with the save confirms, and that the candidates of a
write-off were confirmed when they were read. Three actions touch that (`ArmKeeps`,
`ConsumeKeeps`, `SaveKeeps`); the others leave the rows' kinds, the claims and the order of the requests
alone, which `QuietKeeps` shows once for all of them. The counts of the ledger are no part of this
invariant: its records range over any set of values.

The counts are proved in two layers. The second part of `StockStepsProofs` has the first, `Base`, which holds under every fault: the types, the
conservation of the units, that a copy of the work order with the current version is the work order (`VersionsTell`), that a request past
its reading has armed its step, and that a claim names a step there is. The units are conserved because the lines of a consumption,
a restore and an undo never take more from a row than is left in it.

`StockBooksProofs` compares the ledger with the work order, which takes `Books`: `Base`, the `IInv` above, and
what the order of the steps brings about. A step in line is claimed and done only when those before it are
done (`TurnsAreTaken`), a settlement or a write-off is the last in line (`ClosingIsLast`), a step that is done had its effect
(`FinishedTookEffect`), and what is confirmed or closed was so by a step whose turn had come (`EffectsHaveSteps`).
`RestoresHaveCover` says of each open restore that the rows saved before it have left what it takes, and what the restores
before it take; with the order of the turns, this is `RestoresAreCovered`. `VisitIsClosed` needs in addition that the candidates
a write-off has read are all it has to write off, and keep what they had left until it writes (`ReadingsHold`).

`NothingIsOrphaned` has an invariant of its own, `Undos`: as long as a withdrawal runs, its undo step waits, and an undo that is
done left nothing, unless the withdrawal is saved. The first part fails when a grace period ends under a running request; `stalled_stop` shows the units
this can leave. So this theorem leaves out the stall as well as the lost commit.

`PromisesProofs` proves, for `CustomerRegistration`, type correctness, `UsedAccountsExist`, and `SagaKeepsPromise`: every step of the saga is a
step of `Registration` under its mapping, or a stutter. That is the safety part of
`KeepsPromise`, which `promises` checks with fairness. A discard deletes nothing that is used because it checks in the
statement that deletes; the proof needs that an account which a customer uses has a row.

`IdentityProofs` proves `GrantsAreSafe` for `AccessControl`, with any number of people, roles, permissions and requests: the
seeded roles stay, under their names, and whoever holds ADMIN was given it by a SUPER_ADMIN of the beginning. The
argument needs nothing of the cache but its types, however stale it is: its entries are read from the tables, and in the tables
nobody becomes SUPER_ADMIN. So the invariant `AInv` says of every cached entry (`CacheSound`) and of
every access a request has read (`AskSound`), current or not, that whom it calls SUPER_ADMIN was one at the start. A request that is cleared to
assign ADMIN was cleared by such an access, an answered request stays as the witness of what it
assigned (`HoldsSound`), and a copy that waits to be saved has the name of the seeded role it will overwrite.

For `Sessions` it proves `SessionsAreSafe`, for any number of users, sessions, tokens and requests, and all lifetimes. It assumes
that there are finitely many tokens, which a count of them needs, and that "no session" is no session. The invariant
`SInv` relates the rows to the copies that requests are about to write over them. Rows only move on (`RowsMove`), so a
copy, however stale, agrees with them on what never changes: whose a token is, whose the session is and when it ends
(`CopyFits`). Two requests that hold one token hold one that has a row (`Apart`), so a generated id is nobody else's. A copy
about to be saved with an ACTIVE token has a fresh one, or its session was revoked (`Given`), and a token that was exchanged is not
ACTIVE any more, with the same exception (`PresentedFits`). `PresentedWasActive` is the argument from the index: if the token a refresh
read as ACTIVE were not ACTIVE when the refresh saves, the session's one ACTIVE token would be another, the new token would be
a second, and the save would be refused. `MarkFits` says that the mark is there when a revocation is answered, and that later marks only
extend it; no access token signed by then outlives it.

For `Users` it proves `AccountsAreSafe`, for any accounts at the start that registrations could have left. What a request holds is
an account whose password fits its duty to change it (`SavingSound`), so no save, however late, brings a misfit; the
uniqueness rests on the two indexes alone, as a row is written only where they do not break (`RowKeeps`).

`RecordsProofs` proves `ServicesAreSafe`, `ItemsAreSafe` and `CustomersAreSafe`, for every list of services, inventory and registry and
any number of requests. The names of services and the counts and SKUs of items are kept by the save alone, whatever a copy holds:
these invariants are inductive with the types, but that a batch moves units of a sign its operation gives (`ItemsInv`). The deactivation is
saved because the step to the end is the request's own, and the index looks at active rows only.
The registry and the openings need more. A foreign key is never broken because a customer or a vehicle that has
a row keeps it and a copy never has none to save (`Fits`). Two requests never add one vehicle (`AddersDiffer`). The owner a
request is about to save is the one its vehicle has, unless somebody transfers (`OwnerIsKept`); so between any two steps of an opening the
vehicle stays with its customer (`VehiclesStay`, `OpeningFits`), and `CustomerOwnedVehicle` follows at the save.

`RouteProofs` proves `RequestsFindTheirRoute`: a request sent to any of the 69 routes is resolved to that route. The table is never
unfolded. Two routes can be confused only if they have the same verb and length and agree wherever both have a fixed
segment (`Meets`); within a controller's part no route meets an earlier one (`Ordered`), no route of a part meets one of an
earlier part, and `Extended` carries both over the concatenation of the parts. Where two routes do meet, as `users/me` and `users/:userId`, the
one with the fixed segment comes first, and it is this order that is proved. From it follows which route each handler of a work order
is (`CommandsStand`, `ReadsStand`), and so which permission it requires (`CommandsNeed`).

`RoutesAreSafe` is then `RoutesAreGuarded` for any number of people and of requests in flight, with roles that change between any two
steps. The invariant `RoutesInv` says of a person that the access token tells no role that was never held and that a generated password
leaves a mark in the account or the token (`PeopleFine`), of the order that whoever closed it was allowed to when asked (`OrderFine`), and of
a request what it has passed: from the guards on, the sender is who the token says and held the permission of the route; after
the authorizer, the decision it allowed (`CallFine`). What a command leaves of an order is a lemma on all commands (`EffectsKeep`), and
`VisitsGoOn` finds for each status the step that a customer, an advisor or a mechanic may take.

For `WorkOrderTrail` it proves `TrailIsWhole`, for any number of requests. Moments never go back along the trail (`InOrder`), because a
request whose version is current has loaded, and so read the clock, after the last save (`Follows`); then an entry's place in the
listing is its id (`ListedInOrder`). What a reader is told is a fold over the listing; the lemmas from `ToldUnfolds` to
`ToldAppended` show that it has a value and that one more entry is told after those before it, by induction on the ids as in
`SumLemmas`. So each command needs only that its own events tell the move it makes (`CommandKeeps`).

For `StockShortages` it proves `StandingShortageIsReported` and `QuietReportIsExact`, for any number of work orders that plan an item.
What is really short is a difference of sums over the work orders; `DemandIs` compares it with the demand the report reads, term by term
by the lemmas of `SumLemmas`, and `ReportFits` carries the comparison to the second read: until units come in, the shelf only shrinks.

For `Seed` it proves `SeedsLeaveItWhole`, for any accounts, catalogs and vehicles to create and any number of runs, stops and
deactivations: `SeededOnce`, `FinishedRunsLeaveItWhole` and `OnlyDisturbedRunsFail`. The invariant `SeedInv` says that live rows go by
their keys (`OneOfEach`), that an item without its opening stock is in the hands of the one run that created it (`StockIsComing`,
`OneHandEach`), that a run past a task leaves it done while nobody deactivates a row (`RunHasDone`), and that a run beside which nobody wrote
finds what it looked for as it was (`RunIsAlone`), which is why its inserts succeed. `TasksAreLaidOut` says where in
the list the tasks of each table stand; a run that is past the accounts holds the customer's account because that one is the last.

For `Readiness`, `PromisesProofs` proves type correctness, `ReadyMeansAllAnswered` and `ProbeEndsInTime`. The invariant adds
that an `up` check was answered since its probe began, and that there is room to count a check that waits as late.

For `ConnectionPool` it proves type correctness and `ConnectionsAreAccountedFor`, and, where all kinds of requests join their transaction (`Kinds \subseteq JoiningOnly`),
`HoldersTakeNoSecondConnection`. The invariant ties the place of a request in its queries to what it
holds (`Shape`), the queue to who asks (`AskersNeed`, `QueueOK`), and each connection to one holder (`Accounted`).

Under the same assumption, with at least one connection and finitely many items, `SomebodyGoesOn` proves `PoolIsNeverStuck`: the
requests never all wait. The invariant `LInv` says of what is left of a request that it locks once at most, inside its transaction,
and of every row locked that its holder is in a transaction and that the row is below all that the holder still wants. The argument
follows who waits for whom. Who waits for a connection waits for a holder of one, and holders do not wait for connections; so
if all wait, somebody waits for a row. Of the rows waited for, which are finitely many, take the greatest: its holder runs, waits for no
connection, and if it waits for a row, that row is a greater one (`GreaterRowIsWanted`). This rests on the
order of the ids in `findAllByIdsForUpdate`; that it needs the assumption on the kinds is what `pool_stuck` shows.

For `WorkOrderBoard`, `PromisesProofs` proves `BoardShowsAll`: `BoardTypeOK`, `QuietWalkShowsTheBoard` and `OpeningsHideNothing`, for any
number of work orders and writes, any filters and any sizes of the pages. The rows a page skips are counted: the rank of a work order
is one more than the number of those listed before it. `BoardIsInOrder` says that the order has no ties, from which `RanksFillTheBoard`
concludes that every rank is taken once, by an injection between finite sets of one size. A page then is the ranks between two
offsets (`PageIs`), and the totals count the pages (`TotalsCountThePages`). The invariant says of a walk that met no
write that what was seen are the ranks before its page (`Undisturbed`), and of one that met no move that whoever was there at its
beginning was read or has a rank still to be read (`StillToCome`): an opening makes no rank smaller (`OpeningPushes`).

Only model-checked:

- liveness under fairness (`StepsAreApplied`, the fair part of `KeepsPromise`, `EveryRequestEnds` and the others), which TLAPS does not prove;
- the algorithms (`ArchitectureChecks`, the merging and comparing of `SecurityScan`), which are defined by recursion over their input;
- the migrations (the rest of `DatabaseIsWhole`), a fixed list of statements, all of whose runs and reverts TLC goes through
  within the bounds on reverts and stops, and the scan and its preparation (`ScansAreTrue`).

## Not modelled, and why

- *HTTP layer and configuration*: filters, pipes, DTOs and Swagger map one request to one answer, and the
  configuration is read once at the start. The guards, which read state, are in `RouteAccess`.
- *Within the stock ledger*: a batch over several items. Items share no row of movements, so a batch is a conjunction of the
  operations of `StockLedger`; its locks are in `InventoryCatalog` and `ConnectionPool`.
- *Reads*: the average execution time is one SQL query whose meaning is that query; listings of users, sessions,
  customers, vehicles and services are one or two queries that change nothing. The board's totals are of another moment than its rows,
  which ADR 0035 says.
- *Transactions, clock, ids*: the clock and the id generator are inputs where they are used. The
  transaction runner refuses to run inside another run, which no request of the program does.
- *Architecture checks*: the tables a migration creates, joins by comma, which the check's own comment excludes, and the
  reading of source files.
- *Security scan*: `deliverable.ts`, which lays a report out as a document; descriptions, CWE and OWASP columns; the order of
  findings of one severity; the validation of the tool's own configuration. A Docker client that is killed leaves a container
  that may write its file later; the model says only that the file may have been written.
- *Mail*: wording and layout. A mail lost with its process and mails out of order are accepted by ADR 0036.
- *Orphans that are accepted*: a registration that stalls beyond its grace period and whose own discard fails leaves an
  account to an operator, as ADR 0033 says.
- *Migrations*: types, indexes and checks of columns.

## Plan

Done: the work order, its repository and its rows; the stock saga with its outbox and ledger; the catalogs, the registry,
accounts, sessions, access and routes; the registration saga with its refinement; the readers; mail, pool,
probe, migrations, seed, scan and architecture checks; the proofs above.

Next:

1. An abstract specification of the stock saga, in which a withdrawal is one step on both ledgers,
   and `StockSteps` shown to implement it without the lost commit.
2. `StockLedger` over several items, once its sums can be kept per item in a run of a few minutes.
3. `Sessions` with two users, for the logout of one during the login of the other.

## Running it

```
tlc -workers 2 -config MCWorkOrder.cfg MCWorkOrder
tlc -workers 2 -config MCStockStepsStalls.cfg MCStockSteps
tlc -workers 2 -config MCIdentity.cfg MCIdentity
tlapm WorkOrderProofs.tla
tlapm StockStepsProofs.tla
tlapm IdentityProofs.tla
```

A configuration `MCxY.cfg` belongs to the module `MCx`; `PROJECT.json` lists the pairs. The runs take from a second to a
few minutes on two cores. To run one component of a composition, leave only its name in `Parts`.
