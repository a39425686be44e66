# Verification of the DataFriday back end

DataFriday runs the food and drink sales of venues: tills, stock rooms, events,
analyses. This directory holds TLA+ models of the parts of its back end
(`src/backend`, NestJS, Prisma on PostgreSQL, BullMQ, Redis) that are hard to get
right and hard to test, the TLC runs that check them on small instances, and
proofs that TLAPS checks for every value of the constants.

Paths below are relative to `src/backend/src/` unless they begin with `src/`.

## How to run

    tlc -config ledger_serial.cfg MCStockLedger      # one run: see the table of runs
    tlapm StockLedger_proofs.tla                     # the proofs of one module

Every `.cfg` names its specification and its properties; `PROJECT.json` lists the
runs, the code each definition stands for (`map`), for each property a plausible
bug that breaks it (`mutants`), the hazards, and the disagreements between the code
and its comments that the models show (`findings`).

## The system: inventory

| Part | State it keeps | Operations | Meets others through | Hard behaviour | What makes it correct |
|---|---|---|---|---|---|
| **Stock ledger** (`features/logistics/`) | `StockMovement`, `StockLevel`, `StockTransferLoss`, `StockReset` rows | create, transfer, confirm, reverse, deposit, cancel, reset | tasks, inventory counts, availability read its levels | read-compute-write at READ COMMITTED, status checked before the transaction, packs broken into units | level = sum of movements; a transfer is credited once or given back; a deposit is reversed once; a partial reset changes nobody else's expected stock |
| **Restocking tasks** (`features/logistic-tasks/`) | `LogisticTask` rows | createBatch, pickup, drop, undoPickup | calls the ledger, then updates its own row; notifies the creator | two statements per call, a crash between them, a clerk acting on the same transfer | status of a task and place of its goods agree; creator notified once all is delivered |
| **Sales of the tills** (`features/pos/sales/`) | `SalesTransaction` rows of provider POS | createSale, cancel, restore | guest windows (is the till open), price aggregate, live trigger | retries under a client identifier, count under an advisory lock, conditional flips, deltas left running | tickets numbered 1, 2, 3…; one sale per identifier; retries agree |
| **Price aggregate** (`shared/pricing/`) | `SalesPriceAgg` | applyDelta, purge, refreshForIntegration | tills, Weezevent writers | unordered best-effort deltas racing a delete-and-rebuild | counts follow the sales |
| **Live aggregation** (`features/aggregation/`, `features/weezevent/services/live/`) | `SpaceRevenueMinuteAgg` and its sisters, `Event.revenue`, `Event.calculatedAt`, Redis watermark and pending key | trigger, minute job, rebuild, reconciliation cron | BullMQ queue, Redis, the sales rows | coalescing, a watermark on `updatedAt`, delete then insert, partial failures | the view settles on the rows, whatever was lost is within reach of the next job |
| Aggregation: sources, daily tables, baskets, purge | daily aggregates, job logs | processEvents, synchronize | the same queue | sweep of stale rows while rebuilds run | a sweep removes only what no source owns any more |
| **Weezevent synchronisation and webhooks** (`features/weezevent/services/`) | `WeezeventSyncJob` and its chunks, `WeezeventSyncState`, `WeezeventWebhookEvent`, rows and lines of the sales | start, cancel, delete a job; collect by bisection, insert; incremental pass; webhook ingest | Weezevent API, the scheduler, live trigger, price aggregate | writers of one page in two processes, lines written after rows, updates of a job that do not look at its status, a cursor that jumps to the present | every validated sale ends with its row and its lines, once; a COMPLETED job is complete; a job ends |
| Weezevent catalogue, analyses, cadence of the scheduler | events, products, locations | upserts, reports | the above | none of its own | rows follow the API |
| Digifood synchronisation (`features/digifood/`) | same kind | same kind | same kind | same kind | same |
| **Inventory windows** (`features/guest-pin-access/`) | `InventoryWindow`, `GuestPinAccess`, markers in `KvStore` | start, stop, reopen a phase or one point of sale; login by PIN; crons on show, sale, delivery, end | tills (is it open), counts | directors, managers and crons between each other's statements; marker written before the act | a stopped window lets nobody in but whom a director let in; an automatic act happens once; nothing stays open |
| Counts by PIN (`features/guest-pin-access/`) | counts, their validation | submit, validate, reopen a count | windows, inventory counting | a count validated while it is saved | a validated count stays |
| **Inventory counting** (`features/inventory/`) | `InventoryCount` rows and their versions, markers in `KvStore`, the sheet of a match (`StockReconciliation`) | saveCount, regenerate, flush, push to the ledger | ledger resets, windows | a count corrected while it is sent, a send repeated, a marker claimed before the work, calls that take turns and one that does not | what is marked as sent is what Logistics has; a level is reset once per count; every count gets there |
| Redis, locks, single-flight cache (`core/redis`, `core/cache`) | keys with a time to live, in-process flights | acquire, release, getOrSet, delete | everybody | lock outlived by its owner, value stored after an invalidation | only the owner releases; no value older than an invalidation is kept |
| Job queues (`core/queue`) | BullMQ jobs | add with identity, retry | processors | identity by minute | no two equal jobs at once |
| Semaphore (`shared/utils/semaphore.ts`) | counter, queue of waiters | run | analysis endpoints | release, wake-up and arrivals in different turns | never more than the limit, nobody forgotten |
| Database access, authentication, RBAC, tenants, platform services | requests' scope | guards, interceptors, CRUD | every request | none of its own | tenant isolation (per request) |
| Spaces, builder, menus, ingredients, market prices, events, mappings, staffing, cost tracking, analysis, restock plans, notifications, integrations | rows of a form or a read model | CRUD, reports, formulas | the parts above | last writer wins | per-request validation |
| Front end (`src/frontend`) | screens | calls the API | the API | none | out of scope |

Parts interact in four ways: **calls** inside one process (a task calls the ledger), **rows** of
PostgreSQL read and written by overlapping transactions (everything), **jobs and keys** (trigger,
queue and worker), and **things left running** (deltas, notifications, triggers behind an answer).
The hard behaviours come from PostgreSQL's default isolation level: nothing in the
code asks for more than READ COMMITTED, so what a request has read may be stale when it writes.

## Modules

| Module | Stands for | Extends |
|---|---|---|
| `StockUnits` | packs, loose units, levels: `normalizeLevel`, the strict check and the level computation of `applyLevelDelta` | |
| `StockLedger` | requests on the ledger of one article, resets, sales | `StockUnits` |
| `StockCustody` | abstract: goods are held, or on their way, and arrive once | |
| `StockLedgerCustody` | refinement mapping from `StockLedger` to `StockCustody` | `StockLedger` |
| `LogisticTasks` | tasks on top of the ledger, composed with it | `StockLedger` |
| `TicketRoll` | abstract: each till tears its tickets off one numbered roll | |
| `PosSale` | requests of the tills, the lock, the deltas, crashes; refinement mapping to `TicketRoll` | |
| `LiveAggregation` | triggers, key, queue, worker, watermark of the live view | |
| `SalesWriter` | the two writers of rows and lines every Weezevent path goes through: `processBatchTransactions` and `syncSingleTransaction` | |
| `ChunkedImport` | abstract: inserters write, in any order, what the API has answered for their dates | `SalesWriter` |
| `SyncJob` | one manual job: its row, its collector, its inserter, its chunks; shown to implement `ChunkedImport` | `SalesWriter` |
| `WeezeventImport` | jobs (as `ChunkedImport`), incremental passes and webhooks, side by side with Weezevent itself | `ChunkedImport` |
| `InventoryWindows` | windows and accesses of a space, the directors, the managers and the two crons | |
| `InventoryCounts` | counts of a match, markers, turns, the sheet and the levels they reset | |
| `MCStockLedger`, `MCLogisticTasks`, `MCPosSale`, `MCLiveAggregation`, `MCSyncJob`, `MCWeezeventImport`, `MCInventoryWindows`, `MCInventoryCounts` | values of the constants for TLC | the above |
| `StockLedger_proofs` | theorems about `StockUnits`, `StockLedger`, its refinement of `StockCustody` and `LogisticTasks` | `StockLedgerCustody`, `LogisticTasks`, `TLAPS` |
| `PosSale_proofs`, `LiveAggregation_proofs`, `InventoryWindows_proofs`, `InventoryCounts_proofs` | theorems about the module of that name | that module, `TLAPS` |
| `SalesWriter_proofs`, `SyncJob_proofs`, `WeezeventImport_proofs` | lemmas about the writers, theorems about the two modules that use them | that module, `TLAPS` |

`StockLedger`, `LogisticTasks`, `PosSale`, `LiveAggregation`, `SyncJob`, `WeezeventImport`,
`InventoryWindows` and `InventoryCounts` follow the code step by step; `StockCustody`, `TicketRoll` and
`ChunkedImport` say what the ledger, the tills and a manual job promise to the rest, without
requests, locks, workers or counters, and are checked as refinements. `ChunkedImport` has a second
use: `WeezeventImport` composes it, and not the whole `SyncJob`, with the passes and the webhooks, and
`SyncJob_proofs!JobImplementsChunks` is what makes that sound. No module declares a RECURSIVE operator.

## How the models correspond to the code

One action is one thing the code does without giving way: a call to the database, a
transaction's commit, a call to Redis. Whatever a request holds between two of them is
in a variable of the request.

### StockUnits

`NormalizeLevel` is `normalizeLevel`, `Insufficient` the refusal of `strict`,
`LevelAfter` the row `applyLevelDelta` writes (`features/logistics/services/stock-item-identity.service.ts`).
Loose quantities are integers: the code rounds them to two decimals and compares with a
margin of 1e-9. A pack size of 0 and no pack size are kept apart, as `??` and `upp > 0` do.

### StockLedger

One article, any number of elements. `level` is the `StockLevel` rows; `posted` the sum
of the `StockMovement` rows of each element; `transfer` and `deposit` the movements that
later requests look up, with what was written for them; `sold` the sales after the anchor
of the last reset; `req` and `recount` what each request and each reset has read.

| Actions | Code |
|---|---|
| `Add`, `Remove`, `Deposit`, `Ship`, then `CommitPlain`, `CommitDeposit`, `CommitShip` | `createMovement` and the ventilation deposits: the transaction's read, then its commit |
| `ConfirmRead`, `ConfirmBegin`, `ConfirmCommit` | `confirmTransfer`: check before the transaction, read inside it, commit |
| `ReverseBegin`, `ReverseCommit` | `reverseMovement` of a PENDING transfer |
| `CancelBegin`, `CancelCommit` | `VentilationDepositsService.cancel`, `writeReversal` |
| `Rollback` | any transaction that fails |
| `Sell` | a sale of a till or of Weezevent: no level is written |
| `ResetRead`, `ResetCommit`, `ResetAbort` | `StockReconciliationService.reset` |

Two steps per transaction are enough because READ COMMITTED lets a transaction compute
from a row that another one changes before its own update; the row lock of the update
delays it, but the value written is the one computed before. `absorbed` and `raced` are
history variables: the sales an anchor has swallowed, and the elements whose row was
written from a stale read. So is the field `atOnce` of a transfer: how many requests had found it
PENDING and were settling it when the first of them committed (`Settlers`).

### LogisticTasks

The tasks of one batch over the actions of `StockLedger`. `call` is where each worker's
request stands: `pickup` is `Pickup`, `PickupShip`, `PickupCommit`, `PickupUpdate`; `drop`
is `Drop`, `DropRead`, `DropConfirm`, `DropCommit`, `DropUpdate`,
`NotifyBatchCompletedIfDone`; `undoPickup` is `UndoPickup`, `UndoReverse`, `UndoCommit`,
`UndoUpdate`. `Throw` is an exception of the ledger that leaves the task row as it is,
`Crash` the death of the process. `Clerks` use the Logistic screen: they take the steps of
`StockLedger` on the same transfers. `disturbed` remembers whether either has happened.

The notification of the end of a batch is best-effort. Rows without a creator (`CreatedBy`) notify nobody, and
a count or an insert that fails is caught: the drop answers all the same and nobody tries again (`NotifyFails`).
`missed` remembers that everything was delivered and the last call that was to count it died or failed so
(`ToTell`): `BatchEventuallyNotified` excepts that and nothing else. Every row has the `batchId` of the batch.

### PosSale

`sales` is the committed rows of provider POS, `lock` the advisory transaction locks,
`open` the inventory windows of the tills, `pc`, `job`, `number`, `told` a request,
`delta` the `applyDeltaSafe` it left running, `agg` the `SalesPriceAgg` count.

| Actions | Code |
|---|---|
| `StartSale`, `FindExisting`, `AssertCashOpen`, `Refuse` | `createSale` up to its transaction |
| `Lock`, `CountTickets`, `Reread`, `Write`, `Abort` | the transaction: advisory lock, `reserveTicketNumber`, re-read, insert |
| `AnswerRace` | `findExisting` after `ReplayRace` or P2002 |
| `StartFlip`, `AssertCashOpen`, `ReadSale`, `Flip` | `cancel` and `restore` |
| `UpsertDelta`, `PurgeEmpty`, `LoseDelta` | `applyDeltaSafe` behind the answer |
| `SwitchTill`, `Crash` | the manager stops or starts a till; the process dies |

### LiveAggregation

`row` is the sales rows with `updatedAt`, `change` the writes that are not committed yet,
`trig` the trigger that follows each commit, `pending` the coalescing key, `queue` and
`worker` the jobs, `view` the minute aggregates, `revenue` and `calculatedAt` the columns
of `Event`, `watermark` the Redis key. `Coalesce`, `TriggerHas`, `TriggerSet`,
`TriggerEnqueue` are the trigger; `Take`, `Lift`, `ReadTouched`, `DeleteCells`,
`InsertCells`, `Rollup`, `Mark` a minute job; `StartRebuild` and the same steps after it a
rebuild. The actions `...Blind` are Redis calls that fail: `RedisService` swallows the
error, so `has` answers false, `get` null, and `set` and `delete` do nothing.

Time is in ticks. `updatedAt` is set by Prisma when the statement is built, so a row may
commit later than its `updatedAt` says, by at most `CommitLag`; the worker spends at most
`JobTime` on one event. The assumption `CommitLag + JobTime < Overlap` is what makes the
watermark safe. In the code the overlap is 60 s (`OVERLAP_MS`), and its comments measure
rebuilds of 22 to 45 s: the assumption is a condition on deployment, not something
the code enforces.

### SalesWriter, ChunkedImport

`row` is the `WeezeventTransaction` rows, `lines[x]` how often the lines of a sale are there.
`batch[w]` is one call of `processBatchTransactions` and `single[c]` one of `syncSingleTransaction`
(`features/weezevent/services/sync/`).

| Actions | Code |
|---|---|
| `ReadKnown`, `CreateRows`, `ReadBare`, `InsertLines` | `existingTransactionIds`; `createMany` that skips what exists; the read of which rows have no line; the insert of the lines of those |
| `HoldSale`, `UpsertRow`, `WipeLines`, `RecreateLines` | the answer of the API; upsert of the row; its lines deleted, then created again |
| `DropBatch`, `DropSingle`, `DropAll` | a statement that fails, the death of the process |

In `ChunkedImport` an inserter has the answer of the API for its dates (`held`), and writes it, or gives up, or
starts again; `collecting` says whether some job is COLLECTING, which keeps the passes away.

### SyncJob

`job[j]` is the row, `chunk[j][r]` the chunks, `start` and `node` the collector (`node[j][r]` is the
call of `fetchChunk` on range `r`), `watch` and `task` the inserter.

| Actions | Code |
|---|---|
| `CheckRunning`, `CreateJob`, `CancelRead`, `CancelWrite`, `DeleteJob` | `WeezeventSyncJobService` |
| `CollectBegin`, `Check`, `AcquireSlot`, `Answer`, `CreateChunk`, `CountChunk`, `CollectDone`, `CollectRejected`, `CollectFail` | `WeezeventCollectWorkerService` |
| `Take`, `Claim`, `InsertBegin`, `InsertGoesOn`, `InsertEnds`, `InsertThrows`, `ChunkDone`, `ChunkCounted`, `ChunkFailed`, `RoundOver`, `ReadJob`, `Complete`, `CountFailures`, `GiveUp`, `Fatal` | `WeezeventInsertWorkerService` |
| `Crash` | the process dies; nobody takes the job up again |

An update of the job's row by its id throws when the row was deleted; none looks at the status it
overwrites. Whether an answer reaches the API's cap is left open, so every bisection of the tree is tried.

### WeezeventImport

`sold` and `gone` are Weezevent's; `synced` and `below` the cursor, as the set of sales it has passed;
`runner[u]` a pass of `syncTransactionsIncremental`; `event[d]` a webhook from its sending to its
processing. `RunStart`, `RunFetch`, `RunFilter`, `RunWrite`, `RunEnd`, `RunFails` are a pass; `Receive`,
`SyncById`, `HookWrites`, `MarkDeleted`, `Left` a webhook. The overlap of five minutes is modelled by what it
does: a sale made during a pass is not below the cursor that pass writes.

### InventoryWindows

An actor (a director, a manager's phone, one of the crons) makes its first reads, which fix its
`script`: the statements still to come, each of which may put others in its place. Whatever others do comes
between two statements, as no transaction is held.

| Actions | Code |
|---|---|
| `StartWindow`, `ReopenWindow`, `StopWindow` | `GuestPinWindowService`, with `stopOtherPhase` |
| `StartElement`, `StopElement`, `DecideAccess` | `GuestPinElementAccessService` and the accesses of a window |
| `Login`, `CreateAccess` | the login by PIN |
| `StartPost`, `StopOnDelivery`, `StopOnSale`, then `ClaimStart`, `ClaimDelivery`, `ClaimSale`, `StartNext`, `StopFresh` | the jobs of `InventoryCycleCron`; a claim is the `create` of a marker |
| `Expire` | `closeExpiredWindows` of the lifecycle cron |
| `Supersede`, `Close`, `Shut`, `RevokeAll`, `Open`, `ActivateAll`, `Allow`, `GiveBack`, `Cut`, `Mark`, `RegainPost` | the statements |
| `Fails`, `ApiDies` | one actor's statement fails, all of them vanish |

`byHand`, `torn` and `settled` are history variables: the accesses a director gave to one point of sale, the
windows whose closing was cut in half or met an access being written, the points of sale reopened for good.

### InventoryCounts

A count is the version of its row (`updatedAt`), never a quantity: `row[i].sent` says that `logisticPushedAt` is
as recent, `level[i].count` which version the level was reset to, `sheet[i]` which version the last sheet shows and
which one Logistics had when the line was computed. `queue` is the turns of `regenerate`, which live in memory;
`call` the call whose turn it is and the button, which takes none. The model starts when the doors are open.

| Actions | Code |
|---|---|
| `Save`, `PutMarker` | `saveCount`: the row, then `markDirty` and `markLogisticDirty` |
| `Flush`, `FlushDirty`, `Regenerate` | `flushLogisticMarker` (of the minute or of the throttle), `flushDirty`, the requests; all of them wait for a turn |
| `Begin`, `ReadCounts`, `WriteSheet` | `regenerateNow` and `createPreEventReconciliation`: the state of the sends, then the counts, then the sheet |
| `UpdateLogistics` | `pushCurrentCountToLogistic`, which reads the same and writes no sheet |
| `Reset`, `MarkPushed` | `pushCountToLogistic`: what is counted and not sent yet, then its mark |
| `ResetFails`, `MarkFails`, `Throws` | the errors: answered, swallowed, thrown (before the sheet or, when the articles to send cannot be resolved, behind it) to who put the marker aside (`PutBack`) |
| `ProcessDies`, `Delivery` | the process dies with its turns and its calls; a movement of Logistics |

The statements behind the mark (the note on the sheet, the deletion of the older ones, the snapshot) are part of
it: when they fail the sheet is only asked for again. `lost`, `aside` and `overlap` are history variables: an
announcement that is gone, an article that was sent past the sheet or past its mark, one that two calls were sending.

## The runs

| Run | Instance | What it shows |
|---|---|---|
| `ledger_serial` | one request at a time, two elements, two transfers, a deposit, four requests | the ledger implements `StockCustody` (`ImplementsCustody`): the strict check, the breaking of packs, the PENDING status and the loss rows together never create, lose or deliver goods twice |
| `ledger_concurrent` | two overlapping requests and a reset, pack size found or not, two requests created | `TransferSettled`, `DepositReversedOnce`, `PartialResetKeepsExpected` hold even though levels are computed from stale reads; two confirmations of one transfer do credit it twice here, and `SettledOncePerRequest` says that this is all they can do; `LedgerAgrees` holds on every element no stale read has written |
| `tasks` | two tasks, an assignee each, a clerk on the Logistic screen, one crash, fair calls | between calls a task says where its goods are and no transfer is orphaned, until the crash or the clerk comes in; a task is COMPLETED only after its transfer credited the destination; the creator is told only once everything is delivered, and is told unless the last call that was to tell him dies or fails to |
| `pos_rolls` | two requests, two tills, two tickets, two flips, all faults | the tills implement `TicketRoll`; `TicketsNumbered`, `AnswersAgree` |
| `pos_settled` | two requests, one till, rolled back transactions, fair calls | every request is answered; `NeverUndercounts` |
| `live_converges` | two events in one group, three changes, a rebuild, no fault, fair | view and revenue settle on the rows; `CoalescedIsCovered` |
| `live_recovers` | two sales of one minute, late commits, a rebuild, one fault of any kind but a failed rebuild | `Recoverable`: whichever of these is lost, the next minute job would recompute what the view lacks |
| `sync_job` | one job, three sales, a range cut twice, one API call at a time, a cancellation, a deletion, one fault anywhere | `CompletedIsComplete`: COMPLETED means chunks that cover the dates, all done, every sale with its lines; `WritesAnswersOnly`: the job implements `ChunkedImport`; `EveryCollectionEnds`: with its inserter at work, a collection ends, unless the process dies |
| `sync_stuck` (violation) | the same with two calls at a time | `EveryJobEnds`: the inserter fails first, writes FAILED and leaves; the collector writes COLLECTING over it and nobody ends the job |
| `import_mixed` | two sales, a job's chunk, a pass that comes back, the webhooks of a sale that is made, updated and withdrawn, one fault | `LinesOnce` (doubled lines need two writers of the sale at once), `PassHeals`, `NothingLeftBehind`, `GhostNeedsOverlap` (a withdrawn sale stays alive only if somebody held it when its deletion came), `CatchesUp` |
| `inventory_windows` | two matches, one point of sale, a director, a manager, both crons, one fault | `ClosedIsClosed`, `SettledStays`, `SaleStops`, `NothingLeftOpen` |
| `inventory_counts` | one article counted and corrected, one call in its turn and one waiting, the button, a delivery, one error or death | `MarkedWasSent`: what is marked is what the level was reset to and what the sheet shows; `NeverAgainstItself`: the sheet keeps the difference a count had when it was sent; `DeliveriesErasedByNewCountsOnly`; `CountReachesLogistics` |

### Bounds, and why they are enough

- **Requests.** `MaxRequests` bounds what a request creates, sales and resets; confirmations,
  reversals, cancellations and rollbacks are not bounded. Two overlapping requests are what every
  race of the ledger needs, as a commit only ever overwrites one other; four serial requests reach
  ship, receive, ship back and cancel. `Quantities` holds a pack, a unit and nothing, and the store
  opens with two packs of two, so that packs break, run out, and are refused at the boundary. The
  shop opens without a row, so that two inserts collide.
- **Resets.** One at a time, with every subset of lines and every count: what a second one adds is
  a stale read, which `raced` covers already.
- **Tasks.** Two tasks of a pack each in opposite directions, so that one may need what the other brings; one crash.
  Packs that break are the ledger's runs'.
- **Tills.** Two requests at two tills with two identifiers meet in every way (same till and
  same identifier, same identifier at two tills, two identifiers at one till); two flips
  suffice to cancel and restore a sale, or to cancel it twice at once.
- **Live view.** `MaxTime` 5 exceeds `Overlap` 3 by two ticks, so a watermark can move out of reach
  of a change; two sales of one minute show that a recomputed minute keeps the sale that did not
  change. One fault, as two of two kinds do lose a minute: a job that reads from an older mark (a `get`
  that fails answers null, and `Event.calculatedAt` stands in for the watermark) empties minutes the
  watermark has long passed, and when it is cut short before the insert they stay empty until the
  next rebuild. The proof says that nothing less does it.
- **Manual job.** Three sales under a range that may be cut once or twice: enough for an uneven tree,
  for a chunk inserted while another is still asked for, and for counters that disagree. One fault, which
  may be a statement, a call or the process; with the cancellation and the deletion, which are free, up
  to three things go wrong. `sync_stuck` allows two calls at once.
- **Import.** Two sales, one there from the start and one made while all are at work; pages of one sale, so that
  a pass reads two pages and something may be sold between them. `MaxItems` is not reached:
  `NothingLeftBehind` does not hold when a pass stops at its limit (see below).
- **Windows.** Today's match with both phases and the next one's pre-event: the three windows that
  exclude one another in some way. One point of sale: the accesses of two never meet but in statements that
  treat all alike. One operation of a director meets the crons and a login at every statement; the
  proofs have no such bound.
- **Counts.** One article: the rows, lines and marks of two do not meet but in statements that treat each by
  itself; another point of sale appears as a request that sends nothing of this one (`Asked`). Two saves are a count and its
  correction, or its withdrawal. A call in its turn, one behind it and the button: only the first and the button
  read or write rows, and who waits matters because of the marker it holds.

The ledger, task, live, Weezevent and window runs say `CHECK_DEADLOCK FALSE`, since they come to rest when
the bounds are spent. The runs of the tills and of the counts check deadlock.

### Fairness

- `TasksFairSpec`: a started call goes on (weak fairness of `Continue`), as the event loop resumes a
  request whose query was answered. Nobody is obliged to start one.
- `PosSale!FairSpec`: weak fairness of each request's continuation, and strong fairness of `Lock`,
  because PostgreSQL serves the waiters of an advisory lock in the order they came. No fairness for
  `SwitchTill`, `Refuse`, `Abort` or new requests.
- `LiveAggregation!FairSpec`: transactions end, triggers go on, the worker works. No fairness
  for changes, faults, rebuilds or the clock.

- `SyncJob!FairSpec`: the collector, the inserter and the chunks of a round go on, as the event loop resumes
  whoever was answered. Nobody is obliged to start, cancel or delete a job.
- `ImportFairSpec`: a pass is started again and again (the scheduler's timer, strongly fair because a COLLECTING job
  turns it away in between) and goes on; a webhook that was received is processed; a chunk that is being
  written goes on. Nothing obliges Weezevent to sell or to deliver.
- `InventoryWindows!FairSpec`: the two crons come back and see their statements through. Directors and managers
  may stop anywhere, also between two statements, as a request whose client has gone is not resumed by anybody else.
- `InventoryCounts!FairSpec`: saves and calls under way go on, turns are taken, and the cron of the minute keeps looking
  at the marker (strongly fair, because the bound on waiting calls turns it away in between). No fairness for the
  button, the other requests or `flushDirty`, which stops soon after the match.

## What is proved

TLAPS proves, for any number of elements, requests, resets, tasks, tills, tickets, sales, minutes, events, jobs,
ranges, writers, windows, directors, articles and faults:

| Theorem | Statement |
|---|---|
| `StockLedger_proofs!StrictDeltaIsExact` | a delta the strict check accepts moves a level by exactly its worth, packs broken on the way included |
| `StockLedger_proofs!TypeCorrect` | `Spec => []TypeOK`: no quantity is ever negative |
| `StockLedger_proofs!TransferSettledAlways` | `Spec => []TransferSettled` |
| `StockLedger_proofs!DepositReversedOnceAlways` | `Spec => []DepositReversedOnce` |
| `StockLedger_proofs!LedgerAgreesAlways` | `Spec => []LedgerAgrees` |
| `StockLedger_proofs!PartialResetKeeps` | `Spec => PartialResetKeepsExpected` |
| `StockLedger_proofs!SettledOncePerRequestAlways` | `Spec => []SettledOncePerRequest`, for any number of overlapping requests |
| `StockLedger_proofs!LedgerKeepsCustody` | `Spec /\ []Alone => ImplementsCustody`: one request at a time and no reset, where some pack size breaks |
| `StockLedger_proofs!CompletedWasCreditedAlways` | `TasksSpec /\ []OneCall => []CompletedWasCredited`: no two calls work on one task at once |
| `StockLedger_proofs!TaskMatchesGoodsAlways` | `TasksSpec /\ []OneCall => []TaskMatchesGoods` |
| `PosSale_proofs!SaleTypesAlways` | `Spec => []TypeOK` |
| `PosSale_proofs!TicketsNumberedAlways` | `Spec => []TicketsNumbered` |
| `PosSale_proofs!AnswersAgreeAlways` | `Spec => []AnswersAgree` |
| `PosSale_proofs!TillsImplementRolls` | `Spec => ImplementsRoll`: the tills implement `TicketRoll` |
| `PosSale_proofs!AggregateNeverShort` | `Spec => []NeverUndercounts`, where no delta is lost (`NoDeltaLost`) |
| `LiveAggregation_proofs!LiveTypeOKAlways` | `Spec => []TypeOK`: no watermark is ahead of the present |
| `LiveAggregation_proofs!RecoverableAlways` | `Spec => []Recoverable`, for faults of one kind or a single fault (`OneHarm`) |
| `LiveAggregation_proofs!CoalescedIsCoveredAlways` | `Spec => CoalescedIsCovered`, where no key is left without its job (`KeyHolds`) |
| `SalesWriter_proofs` | what the two writers do to rows and lines, for whoever calls them (lemmas) |
| `SyncJob_proofs!JobTypeCorrect` | `Spec => []TypeOK`: an answer in hand is always part of what the API shows for its range |
| `SyncJob_proofs!JobImplementsChunks` | `Spec => WritesAnswersOnly`: jobs implement `ChunkedImport` |
| `SyncJob_proofs!CompletedJobsAreComplete` | `Spec => []CompletedIsComplete` |
| `WeezeventImport_proofs!ImportTypeCorrect` | `ImportSpec => []ImportTypeOK` |
| `WeezeventImport_proofs!LinesAreOnce` | `ImportSpec => []LinesOnce` |
| `WeezeventImport_proofs!GhostsNeedOverlap` | `ImportSpec => []GhostNeedsOverlap` |
| `WeezeventImport_proofs!PassesHeal` | `ImportSpec => PassHeals` |
| `WeezeventImport_proofs!CursorLeavesNothing` | `ImportSpec => []NothingLeftBehind`, where every pass may read to the end (`ReadsToTheEnd`) |
| `InventoryWindows_proofs!WindowsTypeCorrect` | `Spec => []TypeOK`: among others, no two windows of a phase are open at once |
| `InventoryWindows_proofs!ClosedStaysClosed` | `Spec => []ClosedIsClosed` |
| `InventoryWindows_proofs!SettledIsFinal` | `Spec => []SettledStays` |
| `InventoryCounts_proofs!CountTypesAlways` | `Spec => []TypeOK` |
| `InventoryCounts_proofs!MarkedWasSentAlways` | `Spec => []MarkedWasSent` |
| `InventoryCounts_proofs!NeverAgainstItselfAlways` | `Spec => []NeverAgainstItself` |
| `InventoryCounts_proofs!DeliveriesErasedByNewCounts` | `Spec => DeliveriesErasedByNewCountsOnly` |

### What the theorems assume

The assumptions of the modules: `LedgerAssumption` and `OnePackSize` (an article has one pack size, which its
resolution finds or misses), `TaskAssumption`, `PosAssumption` (`None` is no request and no outcome), `LiveAssumption`
(`CommitLag + JobTime < Overlap`, and every event has a minute), `SyncAssumption`, `BisectionAssumption` (the ranges
are finitely many, form a tree under `Root`, and the halves of a range share out its sales), `ImportAssumption`, `WindowsAssumption`
(the windows are finitely many, and no director or manager is a cron), `CountsAssumption`.

Some theorems have a hypothesis besides, because without it the code does not keep the property. Each of these holds in the run
that checks it, and each excludes something the code can do:

| Hypothesis | What it excludes | What happens then |
|---|---|---|
| `Alone` | overlapping movements, a reset under way | levels computed from stale reads |
| `OneCall` | two calls on one task: the status is read in one statement and written in another | two pickups ship twice, and the task knows one transfer: TLC finds it with two workers who handle the same task. The run gives each task to one worker; nothing in the service does |
| `NoDeltaLost` | a death between the commit and the delta, a delta that fails and is swallowed | the aggregate falls short |
| `OneHarm` | two faults, one that leaves a minute job half done (`"minutes"`, `"worker"`) and one that makes a job start from another mark (`"watermark"`, `"redis"`); a rebuild that fails half-way | minutes stay empty until the next rebuild |
| `KeyHolds` | jobs for one event of a group (the POS trigger); a trigger that dies, a delete that fails | the key outlives its job, or stands for a job of another event |
| `ReadsToTheEnd` | a pass that stops at `maxItems`, an answer that does not say how many pages there are | the cursor passes what was not read |

### The arguments

**The ledger.** `TypeOK` is not inductive by itself: a confirmation writes the difference between
what was declared and what arrived, which is a quantity only because the request checked it
against a transfer that exists. `Known` says so for each request in flight, and
`TypeInv == TypeOK /\ Known` is inductive. `TransferSettled` follows from it, one step per action
that writes a transfer. `DepositReversedOnce` needs `CancelsExclude`: no two cancellations of a
deposit run together, and none runs on a deposit that was reversed. `LedgerAgrees` needs `Worth`:
what a request is going to write is worth what it read plus its delta (`Exact`, from
`StrictDeltaIsExact`), so that a commit over the row it read keeps level and movements in step, and
a commit over another row puts the element into `raced`. `PartialResetKeepsExpected` is a step property: the reset writes an
element it does not count from the expected quantity of its own read, and what came in between is in `raced` or `sold`.
`SettledOncePerRequest` counts (`UsedUp`): the writes a settled transfer has seen and the requests that are still settling it are together
at most `atOnce`. Nobody joins them, because a request begins only with a PENDING transfer (`NobodyJoins`); whoever
commits leaves them as it adds its write (`SettlerLeaves`). The refinement of `StockCustody` maps each commit to the step
of the custody it stands for and every other step to a stutter; alone, a request has read the level as it still is and the transfer it
settles still waits (`StillWaiting`).

**The tasks.** `Progress` is inductive whatever crashes and whatever the clerks do: each call works on a task whose row
has not moved since it looked at it (`OnTask`), has asked of the ledger only what its step asks (`Asking`), and a COMPLETED task
names a transfer with a credit (`TaskFits`), which the ledger never takes back (`CreditsStay`). It stands on the ledger's own
invariant, which every step of the tasks keeps. `Goods` adds where the load of each task is, and holds while nothing has `disturbed` the calls.

**The tills.** The numbering needs three things: a request in its transaction holds the
lock of its till (`LockHeld`), the number it reserved is the next one until it commits
(`NumberReserved`), and an identifier has one row (`OneRowPerTicket`), so that a flip replaces one
row and removes no number. `Inv` is their conjunction with `TypeOK` and `TicketsNumbered`.
`AnswersAgree` needs `AnswersKept` besides: whoever was told its ticket is sold has the row it was told
of (every step keeps the identifier, till and number of every row, `SalesKept`), and of those told of one ticket at
most one wrote it, because a write finds no row of its ticket and so nobody who was told of one.
For the rolls, `Inv` places every row on the roll of its till at its number (`RowsOnRoll`), and every step
keeps every place (`PlacesKept`): a committed sale adds the place behind the last (`WriteSells`), a flip
marks the ticket it finds (`FlipMarks`), and a step that is neither writes no row (`OnlyWritesAndFlips`).
`NeverUndercounts` counts: the active sales of a till are at most its aggregate and the deltas that are coming, less those that
are going; `DeltasLeft` says that finitely many are on their way and each belongs to a request that was answered.

**The live view.** `Recoverable` says that a missing sale is read again, not why. In `LiveInv`, a sale the view misses is `Ahead`
of both marks (`Event.calculatedAt` as well as the watermark, since either may be the one that is read), less the overlap, or it is in the
worker's hands or a rebuild comes (`Covered`). To keep that when a mark moves, `Taken` says of the event the worker is on that what it will
not show is no older than its reading less `CommitLag`; as the event takes at most `JobTime`, the mark it sets, less the overlap, is older still.
A minute job that is cut short leaves what it deleted within reach of the next, because it read those minutes from the
mark that is still there (`Emptied`): this is where a second fault of the other kind would break the chain. The attempt to prove it
corrected the property itself: a rebuild that still comes for an event is one in the queue or one the
worker has not reached yet, not one whose turn for the event is over, which the run's one event could not tell apart.
For `CoalescedIsCovered`, the key stands for a minute job in the queue, one the worker has just taken, or one a trigger is about to queue
(`KeyStands`), and every minute job carries the events of the group (`GroupJobs`).

**The job.** `JobInv` is the type invariant with what a job's writers hold: the page a chunk writes is
the answer it was saved with, and that answer is a part of what the API shows for the range (`Answered`). Each action
of `SyncJob` is then of one kind: it writes rows as `ChunkedImport` does, it takes an answer, it changes who
is COLLECTING, or it touches nothing the mapping shows; there is one lemma per kind.
That COMPLETED is deserved needs more, because the inserter decides by counters alone. `Facts` has, for each job: the ranges the bisection
has reached and not cut tile the dates (`Tree`); a chunk's status follows its collector, then its inserter (`Cells`);
no saved chunk is left out of `total` once collected and none is in `processed` before it is done (`Counters`), so
equal counters mean that all are; and what is done is written with its lines (`Batches`, `Written`).

**The import.** `ImportInvariant` says of each writer in flight what the later steps rely on: a batch that has
read which rows are bare inserts lines only for rows without lines, or for sales that another has in
hand too (`crossed`); whoever may still create the row of a withdrawn sale is in `Holding`. For the cursor, `PassReads` says
that what a pass has seen has its row or is in the page being written, and that a pass which reads no further has seen all that was there.

**The windows.** `ClosedIsClosed` is about rows, but what keeps it is the order of the statements still to come.
`IInv` therefore says of every script which statement may follow which (`Sound`): a `Shut` is followed at once by the
`RevokeAll` of its window; `ActivateAll` comes just behind `Open`; `GiveBack` and `CreateAccess` come only first, that
is, right after the window was read as open. A window is `Guarded` while it is open, about to be revoked, or torn;
accesses are given in guarded windows only (`Granting`), so whoever is in is in a guarded window or was let in by hand (`Covered`).
`SettledStays` needs `Claimed` (the cron cuts only right behind its claim) and that whatever is settled has its
marker: a claim that goes through finds none.

**The counts.** A mark compares nothing when it is written, so what makes it right is what each call still knows of the row it has read
(`Knows`): if it did not find it pending, it stays sent until saved again, and the count it read is no older than the
version it saw. What it is going to send, the other call has not marked, or both are sending it (`Unsent`, `Flagged`); what it has
sent is in the level and, for the turn, on the sheet until it is marked (`SentIsThere`, `OnTheSheet`).

### What is only model-checked

Liveness under fairness is out of the prover's reach, so `BatchEventuallyNotified`, `EveryRequestAnswered`, `EventuallyShown`,
`EveryCollectionEnds`, `CatchesUp`, `SaleStops`, `NothingLeftOpen` and `CountReachesLogistics` stay with TLC, and so does the violation of `EveryJobEnds`.

## Where the code and its comments part

`sync_stuck`: the collector, the inserter, a cancellation and a deletion write the job's row without looking at
its status. When the inserter fails on its first read it writes FAILED and leaves; the collector's first update
then sets COLLECTING (`features/weezevent/services/weezevent-collect-worker.service.ts:57`), and the job stays in
progress for ever, which also keeps every later job and the live passes away. The comment of
`weezevent-insert-worker.service.ts:72-74` wants the contrary.

More behaviours of this kind are in the models, which the properties that hold are stated around:

- Levels are written as absolute values computed from a read that nothing protects
  (`features/logistics/services/stock-item-identity.service.ts:68`): of two overlapping movements the second
  overwrites the first, and level and movements part. `LedgerAgrees` holds where no stale read has written (`raced`).
- `confirmTransfer` checks the status before its transaction and not inside it
  (`stock-movement.service.ts:282`): two overlapping confirmations credit twice. A reversal and a
  confirmation that overlap both succeed for the same cause. `SettledOncePerRequest` is what is left: one credit or take-back for each
  of the requests that were there together, and none later.
- The deltas of a sale and of its cancellation are not ordered, and the purge erases the negative row the
  first to arrive has left (`features/pos/sales/pos-sale-cancel.service.ts:89`): a cancelled sale stays in the
  price aggregate. `NeverUndercounts` is the side that holds.
- The coalescing key of the tills is per space and integration, the job per event
  (`features/pos/sales/pos-live-trigger.service.ts:62`): with two events of one space on sale, a coalesced sale
  of the second is not covered. `CoalescedIsCovered` is checked as Weezevent queues (all events of the space).
- A crash between the movement of a pickup and the update of its task leaves a transfer no task knows; a till
  stopped between `AssertCashOpen` and `Write` still writes the sale; a rebuild that fails between its delete and
  its insert leaves an event without a view until the next rebuild.
- Two passes of one integration may overlap although `live-sync-runner.service.ts:11-14` says they do not: the
  check and the start are apart (`:27`), and a job that is PENDING is not seen. The rows stand it, by `LinesOnce` the lines too
  unless both had the sale in hand.
- A pass that stops at `maxItems`, or on an answer that does not say how many pages there are, moves the cursor to
  the present all the same and leaves what it has not read behind.
- A row whose lines were lost is filled in by whoever writes its page again; an incremental pass leaves out
  transactions that have a row, so only a job or a first pass does.
- A login that has read the window as open creates its access after the window is closed, and the access stays
  active: guests are checked against the access, not the window. `closeInventoryWindows` is not atomic either. Both are `torn`.
- A cron that dies between its claim and its act never tries again; a point of sale reopened by hand between the two
  statements of the director (access, then marker) can be cut once more by its sales.
- The marker of the counts to send is "reposé en cas d'échec" (`pre-event-inventory-flow.service.ts:526-527`), but a
  refused reset is answered (`reset-failed`) and not thrown, so the marker stays away (`lost`), as it does when the process
  dies behind the claim: the count waits for the next one, or for the button.
- The button takes no turn (`inventory-logistic-push.service.ts:226`): beside a sheet that sends a newer version it can set the level back to the older,
  and the row is marked as sent (`overlap`). What the button has sent is on no sheet: the next one takes the
  older line over (`aside`).
- "Un échec ici ne fait que repousser ces lignes (delta 0)" (`inventory-logistic-push.service.ts:206-207`): when the mark fails, the second send also erases the
  deliveries entered since the first (`aside`).

## What the models leave out

- **Ledger**: the labels and notes of movements, several articles at once (levels are keyed by
  element and article, and no rule relates two articles except a reset's list of lines), decimals.
- **Tasks**: `createBatch` (its result is the initial state), the reading of lists, the notification of a failed pickup or
  drop, several batches. The count of what remains and the insert of the notification are one step.
- **Tills**: the content of a ticket (one line, one article), payments, the catalogue, events no longer
  sellable (all under `Refuse`), several integrations. The rebuild of the price aggregate is not
  modelled: see the plan.
- **Live view**: the three tables a minute job rewrites are one `view`; a sale keeps its minute; the daily table,
  baskets, declared sources and the routing of a space's integrations are left out; there is one
  worker, as the queue's concurrency is one.
- **Manual job**: dates and the cap of the API (either outcome of every call), the size of a chunk, catalogue rows made on
  the way, retries inside the API client, the age a job must have to be deleted; more than one job in the runs; the hand-over
  of a freed slot, which lets one call more in when another arrives in between (`AcquireSlot` counts the slots in use: a larger `MaxCalls`).
- **Import**: the pages of the API do not shift while a pass reads them (offset pagination gives no such promise);
  sales that reach the API later than the overlap of five minutes, a transaction that cannot be mapped and is
  counted as an error, statuses other than validated; the price aggregate and the live trigger of each writer.
- **Counts**: the passage of the doors (one more call in turn, with a marker of its own), the post-event phase and its
  draft, quantities, the sales since the count that a send takes off, counts without a row (snapshots), articles no
  catalogue knows, several processes (the turns are per process).
- **Windows**: PINs and their rate limit, counts and their validation, snapshots and the push to Logistics, the limit of
  six hours the crons look back, the windows of the tills (`open` in `PosSale`) and of the ventilation.
- Everything `PROJECT.json` lists as `not_modelled`: forms and reports without interleavings of their
  own, reads of external APIs, the front end; and the parts of the plan below.

## Plan

1. *Done:* the ledger with its abstraction, the tasks on it, the tills with theirs, the live view; the Weezevent
   writers, jobs, passes and webhooks; the inventory windows; the counts on their way to Logistics.
2. **Price aggregate**: `refreshForIntegration` (delete, insert merged by GREATEST) against `applyDelta`
   and the purge, from the writers of `WeezeventImport`; the question is by how much a rebuild may be off.
3. **Counts by PIN**: the counts of two phones, validation and reopening; the post-event draft and its sheets;
   `InventoryCounts` on top of the resets of `StockLedger`.
4. **Infrastructure**: the Redis lock and the single-flight cache (fill against invalidation), the
   semaphore, the identity of queued jobs.
5. **Aggregation sweep**: `synchronize` against rebuilds; an abstract specification of the live view,
   the view of a set of rows at some moment since the last quiet one.
6. **Proofs**: every invariant, step property and refinement the runs check is a theorem, some under the hypotheses above. What is left is to
   say more where a hypothesis fails: by how much the aggregate falls short of lost deltas, and which transfers two calls on one task
   leave behind.
