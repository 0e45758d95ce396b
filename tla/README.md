# Ledgr: models, checks and proofs

Ledgr is a double-entry accounting app. Its books live in SQLite on the device
(`frontend/`); a book can be shared between devices through a self-hosted
server (`sync-server/`, Node and PostgreSQL). Each device works offline, queues
semantic operations in an outbox, and later pushes them to the server, which
judges them, orders them in one canonical log per book, and hands them to the
other devices to execute again. This directory holds TLA+ modules for the
synchronization, for the accounting of one book, and for the two together; the
TLC runs that check them; and TLAPS proofs.

Paths below are relative to the repository. `coordinator.ts`, `outbox.ts`,
`recovery.ts` and `conflicts.ts` are in `frontend/src/sync`, `postings.ts`,
`documentService.ts`, `repository.ts`, `appService.ts` and
`closeBooksRepository.ts` in `frontend/src/accountingV2` and its `services`,
`postgres.ts`, `server.ts`, `store.ts`, `domainArbitration.ts` and
`postgresDomainState.ts` in `sync-server/src`.

## Inventory

| Component | State | Operations | Correct when |
|---|---|---|---|
| Event store (`postgres.ts:238-461`, `migrations/001_sync.sql`) | book row (epoch, next sequence), epochs, events, conflicts, snapshots, checkpoints | createBook, append, pull, advanceEpoch, saveSnapshot, latestSnapshot, verifyCheckpoint, recordConflict, resolveConflict | one gapless log, each operation once, no lost update, epochs fence the log, evidence of every refusal, decisions final |
| HTTP server (`server.ts`) | handlers in progress | one handler per request; push appends its batch one operation at a time | an abandoned handler does no harm; every answer is true |
| Device registry (`postgres.ts:17-200`) | devices with enrolled epoch, expiry, revocation; memberships, locations, codes | authorize, enroll, revoke, redeem a code, administer members | nobody acts in an epoch it is not enrolled in |
| Arbitration (`arbitration.ts`, `domainArbitration.ts`, `postgresDomainState.ts`) | none; in the append's transaction it folds facts (invoices, receipts, stock, counts, closed dates) from the latest snapshot and the log | validate, loadCanonicalSnapshot | what it permits every device can execute, and its facts are those of the replayed book |
| Coordinator (`coordinator.ts`) | profile, cursor and checkpoint, applied operations, aggregate revisions | withSyncedMutation, syncNow, retrySyncNow, markSyncRecoveryRequired | nothing below the cursor is missing or counted twice |
| Outbox (`outbox.ts`) | operations with status and device sequence | enqueue, list, mark | statuses are true of the canonical log |
| Recovery (`recovery.ts`) | the same tables, bootstrap history | enroll, publish, install, verify, advance | a recovered device equals one that never failed, and its unsent work survives |
| Conflict decisions (`conflicts.ts`) | conflict rows, resolutions to deliver | keep canonical, audited correction, merge | each refused operation is decided, and stays so |
| Mutation lock (`databaseMutex.ts`) | a promise chain | withSyncDatabaseMutationLock | savepoints on the shared connection never overlap |
| Accounting core (`repository.ts`, `postings.ts`, `documentService.ts`, `appService.ts`) | sources (documents), journals, allocations, periods | post, reverse, replace, edit, allocate; choose and stretch a period | balanced entries, at most one reversal, allocations covered by money received, closed periods frozen |
| Period close (`closeBooksRepository.ts`, `cogs.ts`) | stock counts, close rows, capital | count, delete a count, close | temporary accounts end at zero, capital equals what the ledger says |
| Accounting services (`accountingV2/services`) | the same, with parties, products, stock moves | sale, invoice, expense, product and capital commands | ledger, party balances and stock agree after any edit |
| Replay (`api.ts:472-555`) | none | one case for each command type | converged devices show the same books |
| Workspace sync (`services/selfHostedSyncService.ts`) | ETag and fingerprint of a whole backup | pull, push, resolve | no overwrite of unseen work |
| Other | AI assistant, screens, transports, backup, scripts | | see `PROJECT.json` |

How they interact: a screen calls the api facade (`frontend/src/api.ts`), which
wraps a domain command in `withSyncedMutation`; the command and its outbox row
commit in one savepoint. The sync screen starts a task (sync, enroll, publish,
install, advance). A task is a sequence of awaits: requests to the server and
savepoints on the local database. The server's handlers call the store, whose
transactions lock the book row. Conflicts travel back as rows, decisions as
resolutions and correction operations.

The hard behaviour is between those steps: an answer is lost after the server
committed, a handler goes on after its client gave up, the app is killed
between two savepoints, the epoch changes under a running task, two devices
edit or decide the same thing, a device recovers while others append.
`PROJECT.json` lists the hazards at their lines, with the properties that would
catch them.

## Modules

    Synchronization

    CanonicalLog                     what a book's store promises
         ^ implements
    EventTables  <-- EventStore      the server alone: all of its interleavings
         ^
    DeviceTables                     the SQLite tables and their savepoints
         ^
    DeviceSync  <-- MCDeviceSync     devices, tasks, requests, handlers, faults

    Proofs (each extends the one before, or the module named)

    EventTablesProofs                what each transaction of the tables does, and
                                     the safety of the tables under any of them
      |---- EventStoreProofs         EventStore, and that it implements CanonicalLog
      '---- DeviceTablesProofs       what each savepoint of a device does
              '---- DeviceSyncProofs   DeviceSync: types and transactions
                      '---- DeviceWorkProofs   cursors and checkpoints, the outbox
                                               and its conflicts
    BooksProofs                      Books: its rows, periods and reversals
      '---- LedgerProofs             sums over finite sets, and lines of journals
              '---- MoneyProofs      Books: its amounts

    Accounting (each extends the one before)

    Ledger        accounts, journals, periods, reversal
    Documents     sales, invoices, receipts, bills, notes, stock: post, delete, edit
    Closing       stock counts, cost of goods sold, close of a period
       |---- Books  <-- MCBooks              one book and its user
    Arbitration   an operation replayed, and the server's facts and verdicts
       '---- SharedBook  <-- MCSharedBook    several books, a log, a judge

**EventTables** has the server's tables and one action per committed
transaction: `CreateBook`, `Accept` (`Insert` or `Deduplicate`), `Pull`,
`AdvanceEpoch`, `SaveSnapshot`, `RecordConflict`, `KeepCanonical`,
`ResolveWith`, `WriteCheckpoint`. The row lock on the book (`postgres.ts:268`)
is what makes each atomic. `Refusal` is append's chain of tests in its order;
the arbitrator's verdict is an argument. Data is abstract: a payload is a model
value, its hash is the payload, and the hash of a canonical prefix is the
prefix, so two hashes are equal exactly when what they cover is. The properties
of the tables are stated here, since both systems that run the transactions
must keep them.

**EventStore** runs those transactions for the clients' requests in any order,
and keeps what a handler holds between two statements: the evidence of a rolled
back append, which append records and the handler records again
(`postgres.ts:312`, `server.ts:431,441`), and the hash `verifyCheckpoint` read
before it writes. A crash forgets it.

**CanonicalLog** is the abstract specification: a log that only grows in eras
that never come back, with the conditions under which an operation may be
written. `EventStore!ImplementsLog` is the refinement: entry *n* is the event
numbered *n*, era *n* the epoch whose `epoch_number` is *n*.

**DeviceTables** extends EventTables with every device's SQLite tables.
`outbox` is `sync_outbox.status`; `db[d]` has the profile (`epoch`,
`recovery`), the book state (`stateEpoch`, `cursor`, `checkpoint`), the device
sequence, the aggregate revisions, applied operations, conflict rows and
resolutions. The accounting state, `projection`, is the set of operations whose
effect the device holds. Each action is one statement or one savepoint:
`Mutate` (withSyncedMutation), `ApplyPage` and `BlockPage` (pullAndApply and
its rollback), `SettleAccepted`, `BumpRevision`, `SettleFailed` and `RecordRow`
(what an answer leads to), `RefreshRows`, `DecideKeep`, `DecideCorrect`,
`InstallSnapshot`, and the statements that follow one another outside any
savepoint: `SetAside` and `StopSync` (markSyncRecoveryRequired), `EmptyBooks`,
`WriteProfile`, `SetOldAside`, `IgnoreRows`, `RejectResolutions` and `WriteState`
(enrollSyncDevice), `RenameEpoch` and `RestartState` (advanceSyncEpoch). A command fails on a projection (`Clash`) when its own rows are
there already, because row ids derive from the operation id
(`accountingV2/runtimeIds.ts`), or when it meets a concurrent command on an
aggregate of `Exclusive`, for example a unique number.

**DeviceSync** composes devices and server. `task[d]` is what runs on a device
and what it holds between two awaits: the page it received, the batch, the
answers, the profile read before a request. The request's effect on the server
and its answer are separate steps where the code can be interrupted between
them, and so are two statements in a row: an answer is settled in two steps
(`Settle`, `Record`), an enrollment writes in up to five (`Enroll`), an advance in
four. `Clear` is `clearAccountingData`, in three steps that any task of the
device may fall between. A push handler is a loop (`HandleNext`) that becomes an orphan
(`HandleOrphan`) when its client goes away. `Interrupt` is the app being killed,
in the middle of a clear too, or a request failing; `LoseAnswers` is the catch of a failed push.

**Ledger, Documents, Closing** are operators: a book is one record (periods,
sources, journals, allocations, counts, stock moves, closes), a database
transaction is an operator from a book to a book, and its guard an operator
beside it (`Create`/`CanCreate`, `ReverseSource`/`CanReverse`,
`Replaced`/`CanReplace`, `EditedReceipt`, `ReplacedPaid`, `RecordedCount`,
`Closed`/`CanClose`). Journals and sources are never deleted by the code, so
they are sequences and ids are indices. `InContext` is `activeContext`: a date
outside every period stretches the first or last open one to it, and that stays
when the posting then fails. `Target` is `resolvePostingTarget`: where and when
the reversal of a document, or its replacement, is posted. Allocation is
`Applied` and `Take`: the oldest advances of the party first.

**Books** runs these operators on one book. Every command takes the mutation
lock and one transaction, so it is one action: `Issue`, `MarkPaid`, `Delete`,
`Edit`, `EditPaidInvoice`, `EditReceipt`, `SetOpeningBalance`, `FailToPost` (a
posting that fails after its period was stretched), `CountStock`,
`DeleteCount`, `Close`.

**Arbitration** has an operation's two other lives. `CanRun` and `Run` execute
it on a book from its inputs, as `applyRemoteSyncOperation` does. `Fold` is
what `postgresDomainState.ts` makes of it, beside the accounting, in terms of
totals, allocated amounts and effects on stock; `Permits` is
`validateCanonicalAccountingBatch` on those facts. Ids of documents are those
of their operations (`runtimeIds.ts`). The server calls the arbitrator once for
each operation of a batch (`postgres.ts:282`), so the batch's own tallies add
nothing.

**SharedBook** composes devices, a log and the server. `Do` is a command in
`withSyncedMutation`: it runs on the author's book, and the operation is queued
with the author's cursor, base revision and the allocations its book made; what
the user changes, deletes or pays may be accepted, waiting or refused. A sync pulls first:
`Pull` runs the rest of the log on the device's book, its own operations left
out, and `Block` is a page whose event cannot be run there, which is rolled back
and ends the sync before its push. `StartPush` fixes the batch, `Send` has one
operation of it accepted into the log or refused. `facts` keeps what the server
folds from the log, and `follower` is a device that only pulls, the measure of
what a replay can and does compute; it stops for good at the first operation it
cannot run. How requests fail, enrollment, recovery and decisions are absent:
those are DeviceSync's.

`Variant` definitions are changed forms of the definition that follows them.
The specifications never use them: substituting one must break the property
named beside it in `PROJECT.json`, which shows that the property can tell.

## Runs

All runs use `tlc -workers 2 -config X.cfg M`. The passing runs take one and a
half to about four minutes each, the others seconds.

| Run | What it asks | Instance |
|---|---|---|
| `event_store` | Is the log gapless, exactly once, fenced, dependency-ordered, with final decisions and recovery points that keep describing their prefix, and does it implement CanonicalLog? | five operations of two devices on two aggregates, among them a reused id, a reused sequence, a dependency, a stale base and one of the second epoch; one handler with evidence or one verification in progress; two conflicts, or two snapshots and three checkpoints |
| `device_sync` | Do devices lose nothing, apply everything once, keep a true outbox and agree at rest? | two devices, one event to a page, two operations to a push. `deciding`: three operations (corrections included) on an exclusive aggregate. `retrying`: two operations, one fault anywhere, manual and timed retry |
| `epoch_change` | Do cursors and checkpoints survive a book founded, published, replaced, joined again and cleared, and does every task end? | `founding`: an empty server, two epochs, either device founds, joins, publishes or installs, one may replace the epoch, one operation. `following`: a running book, two operations; the follower clears its books at any moment, installs, or replaces the epoch. `interrupted`: the same with one operation and one fault |
| `books` | Do ledger, allocations, periods, capital and stock keep agreeing whatever is edited and deleted, across closes? | eight books, six dates in three months: `credit`, `payables`, `trading` (two closes), `counting` (dates outside the period, failed postings), `fixed` periods, `partners`, `perpetual` stock, `sundry` entries; up to four documents |
| `shared_books` | What of all that the server accepts can a device without work of its own not execute, are the server's facts those of the book, is a close the same for all, and do balances reconcile? | two devices, three operations: `credit` (invoices, receipts, advances, edits, deletions, payment), `stock` (one unit, sold twice), `close` (late work, counts and a close) |
| `install_replays`, `offline_edits`, `epoch_replacement`, `clear_races`, `replicas`, `blocked_device`, `deleted_stock` | Statements of the documentation the code does not keep; see Findings | as small as shows it |

Why these bounds are enough to be of use. Every test on revisions, sequences
and cursors compares neighbours, so what one aggregate, three operations and
pages of one event can interleave already contains an operation before, at and
after every boundary; with `PullLimit = 1` each pull of more than one event has
another device's append between its pages. Two devices suffice for author and
observer. Two epochs make one stale and one current. One fault is enough to
lose any one answer; what was in flight then lives on as an orphan.
`MaxRefused`, `MaxVerifying`,
`MaxConflicts`, `MaxCheckpoints` and `MaxSnapshots` are bounds of the models,
not of the code; the constraint `FirstEpoch` keeps the event store run to the
epochs named in order, and `OneConcern` explores conflicts apart from snapshots
and checkpoints, since no transaction of the one reads the tables of the other.
A scenario (`Scenarios`) names what the users do, on what, and how often
(`operations`, `sources`, `closes`, `faults`): a screen offers every button but
the combinations multiply. `CHECK_DEADLOCK FALSE` appears because a bounded
book really comes to rest when all its operations are issued and settled.

In a book, an error needs a document, what refers to it, and a change of one of
them before or after a close: three or four documents and two closes hold every
such order. Six dates in three months give a date before, in and after each of
two periods and month ends apart from period ends. Totals of one to nine make
allocations partial, exact and excessive. `LastDate`, `UnitCost` (the cost of a
unit never changes) and whole percentages bound the arithmetic: no cents are
rounded. In a shared book, three operations are a document, what another device
does with it, and the author's own next step; a simulation with five found
nothing new.

DeviceSync scenarios in which nobody enrolls begin after the first device
published its empty books and the other installed them (`WarmInit`), a state
that founding reaches.

Fairness. `Fairness` assumes weak fairness of each device's running task, and
of nothing else: JavaScript's event loop resumes a task whose promise settled,
and every request is answered or fails. Users, faults and orphaned handlers are
under no obligation. `EveryTaskEnds` then says that no task goes round in
circles, whatever the others append.

Modelling decisions a reader should know:

- A device runs one task. The sync screen's `busy` flag and `activeSyncRuns`
  see to that; reopening the screen during a task forgets the flag, and that is
  outside the model. Clearing is offered by another screen and waits for nothing.
- Books that were cleared are not cleared again before they are filled
  (`interrupted`), and a book is cleared as a whole: the loop over books
  (`api.ts:1771`) does for each what the model does for one.
- `CoveredUnlessEmptied` is `CursorCovered` as long as no device stands between a
  clear and its next installation. That a cleared device may come to sync over
  empty books is the finding of `clear_races`; that it could then publish them
  is left out of `epoch_change`, where the device that clears does not publish.
  Nor does it enroll there.
- Settling, enrolling and advancing take a step for each statement. The
  mutation lock and a statement that falls into another screen's savepoint are
  not modelled (see the plan).
- The backoff time of a retryable operation is a choice: any of them may be due.
- A refused `resolve` stays pending; the request is never malformed, so the
  400 case (`coordinator.ts:351`) does not arise.
- `sync_applied_ops` and the outbox are looked up by operation id only; opIds
  are never reused by devices (they are random), though the server's own tests
  for reuse are modelled and exercised in `event_store`.
- Edits name a base revision; commands with `operationIdentity`, whose
  aggregate is their own id, cannot conflict and add nothing here.
- A merge has the control of a correction; whether a merge is permitted is data.
- In SharedBook operation ids sort in the order of entry. The code's ids are
  random, so advances of one date are used in an order that is arbitrary but,
  by id, the same for the server and the devices.
- In SharedBook every device has the same day. Not all that is accepted can be
  run by every device: a run of its own refutes `NothingBlocks`. For a device
  without work of its own `OnlyUncheckedStops` says what is left of it: nothing
  stops the follower but a count, or the edit of a document whose own operation
  was refused (and both do). `FactsAgree` and `CloseAgrees` speak of the log as
  far as the follower came, `BalancesAgree` of devices that nothing blocks.
- `FactsAgree` leaves out the amounts of invoices once a receipt with applied
  advances was deleted: the server then subtracts the advance again when the
  invoice is reversed (`postgresDomainState.ts:80`). `CloseAgrees` leaves out a
  close made on a book that holds a refused operation's effect.
- Storing a conflict that exists reads the open row in a second statement
  (`postgres.ts:430`); a decision between the two makes the request fail, which
  the client sees as a retryable operation, as with any failed append.

## Proofs

All theorems hold for every number of devices, operations, aggregates and
epochs, for every scenario and for all bounds. They assume what the modules
name: null values are not ordinary ones, limits are positive naturals,
operation ids name operations, `Operations` are operations, verdicts are among
those a push handler knows. Of the books they assume that a month does not end
before any of its days, and that scenarios start from a new book (one open
period, nothing entered, distinct members with a share and what they started
with), on known dates, count whole amounts of stock, and enter documents that are
not yet linked, reversed or replaced, whose amounts are numbers, which are
settled through cash or the bank (`paymentCode`, `postings.ts:49`) and charged to
the accounts that their forms offer, a bill to stock or expenses (`Charted`), and
deposits that a member makes. The
commission and the shares of members are percentages (`ShareAssumption`: the
configuration and the close both refuse others, `bookConfigRepository.ts:199`,
`closeBooksRepository.ts:51`).

| Module | Theorem | States |
|---|---|---|
| EventStoreProofs | `TransactionsOnly` | `Spec => TableSpec`: handlers, late evidence and crashes change the tables by whole transactions |
| | `TypeCorrect` | `Spec => []TypeOK` |
| | `CanonicalOrder` | `[]Sequenced`: events are numbered 1, 2, ... without hole or tie |
| | `NoDuplicates` | `[]ExactlyOnce`: an operation is in an epoch at most once, and a device sequence names one |
| | `EpochsFenceTheLog` | `[]EpochFence`: nothing of a superseded epoch is accepted |
| | `DependenciesFirst` | `[]DependenciesPrecede`: what an event depends on is before it |
| | `NoLostUpdate` | `[]RevisionChain`: an accepted edit saw every earlier change of its aggregate |
| | `CheckpointsHold` | `[]CheckpointsStable`: a stored hash goes on being that of the prefix it names |
| | `SnapshotsCountRevisions` | `[]SnapshotRevisions`: a snapshot's revisions and the later events add up |
| | `OneConflictPerRefusal` | `[]OneOpenConflict` |
| | `DecisionsAudited` | `[]AuditedResolution`: a conflict decided by a correction is answered by a later event |
| | `HistoryAppendOnly` | `AppendOnlyHistory`: events, epochs and decisions are never taken back |
| | `StoreImplementsLog` | `Spec => ImplementsLog`: the store implements `CanonicalLog` |
| DeviceSyncProofs | `DevicesTransact` | `Spec => TableSpec`: whatever devices and orphaned handlers do |
| | `TypeCorrect` | `Spec => []TypeOK`, of devices, tasks and server |
| | `LogAmongDevices` | the five promises of the log hold with the devices that write it |
| | `NothingTakenBack` | `AppendOnlyHistory`, with the devices |
| DeviceWorkProofs | `CheckpointsTrue` | `[]CheckpointHeld`: a device's hash is that of the prefix its cursor names |
| | `NeverBack` | `CursorForward`: in its epoch a device never forgets history it has seen |
| | `Answerable` | `OnlyKillsStrand`: an operation in conflict its user was asked about keeps an open row to decide it by, unless the app is stopped while the row is recorded |
| | `AcceptedForGood` | `[]AcceptedInHistory`: what a device calls accepted is in the log |
| BooksProofs | `RowsWellFormed` | `[]RowsKept`: rows refer to rows that are there |
| | `PeriodsNeverOverlap` | `[]PeriodsDisjoint`, however periods are stretched, added and closed |
| | `PostedInPeriod` | `[]JournalsInPeriod`: closing journals and reversals included |
| | `ReversedOnce` | `[]OneReversal`: once, by its opposite, exactly when its document is taken back |
| | `OneOpeningInForce` | `[]OneOpening` |
| | `ClosedForGood` | `ClosedFrozen`: a closed period keeps its bounds and its journals |
| | `PaidFromReceiptsInForce` | `[]AllocatedInForce`: no allocation of a receipt that was taken back |
| MoneyProofs | `TypeCorrect` | `[]TypeOK`: lines are of the chart's accounts, and none is of nothing |
| | `EveryJournalBalances` | `[]DoubleEntry`: the lines of every journal sum to zero |
| | `ClosedPeriodsCleared` | `[]ClosedZero`: no revenue or expense is left in a closed period |
| | `NeverOverAllocated` | `[]AllocationsFunded`: a receipt gives no more than it is for |
| | `PositionsAgree` | `[]PartyPositions`: the ledger shows of customers and suppliers what the documents in force say |
| | `CapitalOfMembers` | `[]CapitalAgrees`: what closes add to the members' capital is what the ledger of the closed periods holds for it |

The argument is layered, so that what is true of the server's tables is proved
once and holds of both systems that run them.

**Transactions.** `EventTablesProofs` defines `TableNext`, any of the store's
transactions with any arguments of their types, and `TableSpec`, what they may
do in any order. A lemma for each says what it changes. `TablesOK` is the type
invariant, with the finiteness of `events`.

**History.** None of the safety properties is inductive alone. `Sequenced` needs
`nextSequence` above every event. `EpochFence` needs the epoch table: the active
epoch has a row with no end (`EpochChain`), has the greatest number, a row that
is unused has no events, and intervals end before the next begins
(`EpochsEnded`). `RevisionChain` counts earlier events, which is true after an
insert because the new event has the greatest sequence and because `MaxRevision`
of a chain of *n* events is *n*; that needs lemmas on cardinalities.
`SnapshotRevisions` follows from the stronger `SnapshotsExact`: a snapshot's
sequence is below `nextSequence`, and its revisions are those of the prefix it
covers, which no insert extends. `CheckpointsStable` needs that a checkpoint
names a prefix that is complete. Each conjunct is proved on top of those before
it.

**Two systems.** `StepTransacts` and `SyncInvStep` show that each step of
EventStore and of DeviceSync is a step of `TableNext` or leaves the tables
alone. That takes an invariant of each system, for the arguments must be what
the transaction expects: the evidence a handler holds is evidence, the
checkpoint it is about to write was computed from a prefix that was complete,
the operations in a batch, a queue or an orphaned handler are operations that
were issued, the events of a page are events of the log, conflicts a row or an
answer names exist. For DeviceSync that is `SyncInv`: the types of tables,
devices and tasks, and the references between them. Every theorem of the
tables then holds of both by `TransactionsOnly` and `DevicesTransact`.

**Refinement.** `EventStoreProofs` maps an entry *n* of the abstract log to the
event numbered *n*. An insert appends one entry because `Sequenced` says that no
event has the number `nextSequence` yet; it may be written because the epoch
fence, the dependencies and the revision say so; an advance opens an era no
earlier event carries; every other transaction is a stutter.

**Cursors.** A checkpoint is written on four ways: from a page, from a snapshot
with its tail, at the founding of an epoch, and not at all. Between the answer
and the savepoint the server goes on. `CursorInv` therefore says of what a task
holds what it will say of the device: the hash of a page or of a snapshot with
its tail is that of the prefix that ends at its cursor (`HashOf`), and that
cursor is not behind the device's; an answer to an enrollment or an advance
names an epoch that was opened, with its first sequence; the sync state a task
carries along is that of the device. `LogFacts` carries these through the
server's steps: `LogStays` says that a prefix below `nextSequence` never
changes and that an epoch, once opened, keeps its first sequence, and `Carry`
that a step of one device leaves what is true of the others. TLC checked
`CursorInv` on the instances of `device_sync` and `epoch_change` before it was
proved.

**Work.** A status is written from an answer that was formed earlier, by a
handler whose device may have retried or changed epoch meanwhile, and a row of
`sync_conflicts` is found by the server's id, which a device learns from its own
answer, from a refresh, or not at all. `WorkInv` says what makes both safe. An
answer on its way to a device is about an operation the device issued; if it
says accepted, the event is in the log, and if it says conflict, the id it
carries is that of a conflict recorded for this very operation
(`TrueAnswer`). A row with an id stands for one conflict of the server and two
rows never share one (`RowsTrue`), so deciding the row of one operation cannot
close the row of another. An operation in conflict belongs to the device's epoch
or an earlier one, what a push sends is of the epoch the device is in (`Sent`),
and the epoch a task brings is not an earlier one (`Reached`; `NotAfter` goes by
the numbers of epochs, which are those of their opening). The statements of an
enrollment may be cut off anywhere, so each needs its own reason: what was in
conflict is set aside before rows are ignored, and when they are ignored the
device holds no conflict (`NoConflicts`), because every one of them was of an
epoch that is not the new one. Quiet steps, which tell the device nothing new
about its work, are proved once (`QuietWork`); the steps that settle, refresh,
decide, enroll and advance each have a lemma.

That no operation in conflict loses its row is a property of steps (`KeptAsked`):
the state alone cannot say it, since the app may stop between the statement that
marks an operation and the one that records its row. `AsksOn` says of most steps
that they leave the rows such operations have; `MarkingAsks` of the marking
itself that its record follows, and `Asking` that a task leaves the record step
only when the row is there or an interruption takes the task away.

**Books.** A document is posted where `InContext` and `Target` say, which
stretch the first or the last open period to a date outside all of them. That is
harmless only because closed periods come before every open one and some period
is always open: neither is said by the properties, both are in `Calendar`, and a
close keeps them by preparing the next period before it shuts the first. In the
same way `OneReversal` needs the reverse of what it says: `Answered` makes
reversals and the journals of documents taken back correspond one to one, so a
document in force has no reversal yet when it is deleted or replaced. `Sound` is
the conjunction of `Rows`, `Calendar`, `Dating`, `Answered` and `OpeningOnce`.
Commands are compositions (a receipt's edit takes its allocations back, reverses
the old document, posts the new one and allocates again), so the invariant is
proved of operators, not of actions: each operator of Ledger, Documents and
Closing, where its guard holds, takes a sound book to a sound one that is
`Later`: what was closed and what was posted stay, and nothing new lies in a
closed period. `Later` is transitive; one lemma per action composes the
operators its command calls, and `ClosedForGood` is what `Later` says of a step.
TLC checked `Sound` and `Later` on the instances of `books` first. Receipts
in force were added to `Rows` because replacing a paid invoice hands its
allocations to the replacement: what they are paid from has to survive that.

**Sums.** Balances are sums over finite sets (`SumFunction`), which the library
defines by choosing an element, adding the rest and so on. `LedgerProofs` proves
from that definition what accounting needs of a sum: it is a number, any element
can be taken out first (`SumTake`), it splits over disjoint sets, adds and
negates element by element, and does not depend on what its elements are called
(`SumRenamed`). Induction is done without a schema: a set of naturals that holds
zero and every successor is all of them, because what it lacks would have a least
member (`WFMin`), and the set is that of the sizes for which the claim holds.
`Lines`, the recursive function that leaves empty lines out, is shown in the same
way to keep what its lines come to. What the lines of some accounts and some
parties come to is `NetOf`, of which the balance of an account and that of a
party are two cases, and every lemma on it is proved once for both.

**Amounts.** `MoneyInv` adds four parts to `BookInv`. `Money`: every document
has amounts that are numbers and accounts that exist, and the lines of every
journal are `Fair`, of known accounts, none of nothing, and sum to zero. A
reversal's lines sum to the opposite, the two lines of each member share cancel,
and the closing lines are balanced by the net result, which the close computes
from the very balances it clears (`ClosingLines`). `Noted` says that a
supplier's note names a bill, which decides the account it is posted to.
`Funded`: over the whole table, what the rows of a receipt come to is at most the
receipt's total. It needs `Remaining` to be read before the rows are written,
which is so of `Take`, of a receipt's own rows (`CanApply`), and of the rows
that move from a paid invoice to its replacement, whose receipts give what they
gave before (`TotalCopies`). `Zeroed`: in each closed period every revenue and
expense account sums to zero. `ClearedFact` shows it of the period that closes,
after the adjustments for stock and commission were posted to it;
`ZeroedLater` keeps it, because `Later` says that no journal is ever added to a
closed period nor changed in it. Each operation of Books has a lemma
(`IssueKeeps` to `CloseKeeps`) that composes its operators.

`Positioned`: what the journals put on the accounts of a party (receivables and
advances of a customer, payables and advances of a supplier) is what the
documents in force are to put there (`Effect`). The equation of totals is not
inductive alone: taking a document back removes its effect from one side and adds
the opposites of its journals to the other, so the invariant says of each
document in force that its own journals put its effect there. That is where the
split between an account and its advances disappears: an invoice that draws on
advances, a bill settled by what was paid ahead and a payment beyond what is
owed each move one amount within the party's accounts (`DocumentOwes`, one
lemma for each kind). A purchase is charged to the supplier, and a receipt's
cash to the customer, which moves neither position because the accounts
charged are not a party's (`Charted`). Journals without a party, those of a close
and of the cost of sales, are `Blank` and move nobody's position.

**Capital.** A close computes the members' capital from documents and the profit
from the ledger, and it must not matter. `CapitalHeld` states the property of a
book; it is not inductive, because a close adds up a period that other operations
filled. What they may put there is `Titled`: every journal is of a document, and
is what a document of its kind puts on capital and drawings (`Proper`: a deposit,
a drawing, or nothing), or its exact opposite, or it is of a close and lies in the
period that closed; and a movement of a member is posted once. `Enters` says that
an operation adds only such journals, and is proved of each operator that posts,
as `Money` is. `PeriodTitles` then sums a period that closes: as long as what was
taken back was taken back in the same period, the reversed documents and their
reversals cancel, one to one by `Answered`, and what is left is the documents in
force; the opening balance is set aside on both sides. `CapitalSum` adds up what
the close gives each member. Shares of the profit and of drawings by no one are
rounded, with the rest to the last member, so they sum to the whole
(`PartsSum`); drawings of members sum to those of the period, member by member
(`MemberSums`); and deposits are all of members. `CloseAdds` is the equation of
the two, and `CapitalKept` carries it past every later operation, since nothing is
posted to a closed period (`Later`). A movement that is taken back after its
period closed is the exception the property names: the ledger answers it in a
later period and the capital does not.

Model-checked only, and why:

- `EveryTaskEnds`: liveness is beyond the prover.
- `CursorCovered` and `CoveredUnlessEmptied`: not true in general. An enrollment
  writes the profile from the `recoveryRequired` it read before its request (the
  finding of `clear_races`; a decision made meanwhile is overwritten in the same
  way), so what `db[d].recovery` promises depends on which tasks the scenarios start.
- `RefusedNotInHistory`: an older request that outlives its client may be
  accepted after a newer one was refused, when the scenario has more than one
  verdict or a base revision of another epoch; it holds of the scenarios checked.
- `AppliedOnce`, `RevisionsKnown`, `Agreement`: true of the scenarios checked;
  the findings below are what breaks them in others.
- `StockValued`: true of scenarios that buy at `UnitCost` and charge nothing else
  to stock. An opening balance, a supplier's note or a bill without units is
  posted to the inventory account and leaves the quantity alone.
- SharedBook: `OnlyUncheckedStops`, `FactsAgree`, `CloseAgrees` and `BalancesAgree`
  compare such sums on books that replay one log. That a replay keeps each
  device's book sound needs, besides, that what the log holds is what a user
  could have entered.

## Findings

Each is a run that TLC refutes, and a statement of the repository that says
otherwise; `PROJECT.json` quotes both.

1. **A recovery that cannot be installed** (`install_replays`). Preserved work
   is replayed without leaving out what the canonical tail already contains
   (`recovery.ts:151,171`). After an accepted push whose answer was lost, the
   same rows are created twice and every installation rolls back.
2. **Conflicts with oneself** (`offline_edits`). Two offline edits of one
   aggregate carry the same base revision (`coordinator.ts:203`); the second is
   refused, though a comment says that case is gone.
3. **A replaced epoch that cannot be published** (`epoch_replacement`). The
   device that replaced the epoch holds no checkpoint hash (`recovery.ts:211`),
   enrolling again keeps it that way, and publishing requires one.
4. **Books cleared under an enrollment** (`clear_races`). An enrollment writes the
   profile from what it read before its request (`recovery.ts:71,75`), so a clear
   in between loses its mark, and the device goes on over empty books.
5. **Accepted, and blocked by it** (`blocked_device`). A pull comes first and runs
   on a book that holds unsent work. When both sold the last unit, the pulled sale
   cannot run: the sync ends before the push (`coordinator.ts:302`), each time.
6. **Devices that converge apart** (`replicas`). A pulled operation is executed
   anew and takes whatever advances (`postings.ts:99`) or open amounts the
   local book has, so two devices that applied the same log can keep different
   allocations. Where no money was paid in advance, `BalancesAgree` shows that
   balances and stock at least reconcile.
7. **Deleted documents keep their stock** (`deleted_stock`). Deleting or editing
   reverses the journals, and calls the stock reversal on a service without an
   active book, which returns at once (`documentService.ts:65`).

Four more disagreements have no run of their own; the properties of the passing
runs name them or keep clear of them, and small changes of a run show each:

- **Conflicts nobody is asked about.** An operation is marked a conflict and its
  row recorded by two statements (`coordinator.ts:425`). When the app stops
  between them and another device decides, the operation stays in conflict
  without a row. `OnlyKillsStrand` makes an exception of that step; `Answerable`
  proves that nothing else leads there. The invariant `Asked(o)` of every `o`
  fails in `device_sync`.
- **Accepted, and run by nobody.** The server does not compare the date of a stock
  count with the closed periods (`domainArbitration.ts:78,189`), and every replay
  of a late one fails. `OnlyUncheckedStops` without its first case fails in
  `shared_books`, and without its second.
- **Rejected work that stays.** When another device decides the conflict of a
  rejected operation first, its author never learns and keeps the effect
  (`coordinator.ts:323,426`). `Agreement` fails in `device_sync` once `Verdicts`
  has `"INVALID_ACCOUNTING_COMMAND"`.
- **Revisions of the old epoch.** A device that bootstraps the new epoch keeps the
  old aggregate revisions (`recovery.ts:76`), and its edits are refused.
  `RevisionsKnown` fails in the scenario of `epoch_replacement`.

## Not modelled, and the plan

Modelled first is what all else rests on: the canonical log, then the devices
that follow it, then the books they keep and the judge between them. What
remains, in order:

1. Proofs: that the books of SharedBook are `Sound`, as what `Run` does is composed
   of the same operators.
2. `DeviceRegistry`: memberships, locations, expiry, revocation and enrollment
   codes; an authorization that is checked once and used over a loop
   (`server.ts:417-420`).
3. `MutationLock`: the promise chain of `databaseMutex.ts` with the statements
   that do not take it, and what a rollback takes with it.
4. Arbitration of opening balances, notes, capital, transfers between locations
   and corrections, and the facts hydrated from a snapshot
   (`snapshotAccountingProjection.ts`).
5. Reports, investors' ledger, and the optional services (payroll,
   manufacturing, trade, projects), which post through the modelled core.
6. DeviceSync extended: two tasks on a device, projection hashes and
   `verifyProjectionCheckpoint`, contents of published snapshots.

Workspace sync (`selfHostedSyncService.ts`) has no second party to model: no
screen calls it, no server in the repository speaks its protocol, and its
fingerprint covers the time of the export.

Left out for good: the AI assistant and its native module, screens,
cryptography and QR encodings, OAuth, cloud adapters, migrations and
deployment. They are input, output or libraries; what they would contribute to
a protocol (a token is refused, a request fails) is in the models as a fault.
