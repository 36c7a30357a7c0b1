# Verification of the Wineem addons

This directory holds TLA+ models of the program in `src/`, the TLC runs that
check them and TLAPS proofs about them. The program is a set of Odoo 8 addons of
a shop ("Wineem", "Uniqs"): the OCA connector framework with its job runner, the
Magento connector, the e-commerce, workflow and commission addons, and the
company's own addons for numbered documents, receipts, vouchers, boxes and
pickings. Paths below are relative to `src/custom/wineem_addons/`.

## 1. Inventory

### connector: channel queue (`connector/jobrunner/channels.py`, 37-284)
State: per channel two heaps with `_known` and `_removed` sets, one heap for jobs
with an eta. Operations: `add`, `remove`, `pop(now)`, `len`, `in`.
Correct when: it is a set of jobs; what was removed never comes back, what was
added again counts again, `pop` takes the job that is due first, and no
`KeyError` is raised.

### connector: channel tree and manager (`channels.py`, 287-743)
State: a tree of channels, each with a queue, `_running` and `_failed`, and
`_jobs_by_uuid`. Operations: `notify` (a row has this state and these
properties), `remove_job`, `remove_db`, `get_jobs_to_run` (a generator over the
tree), configuration. The runner thread alone uses it.
Correct when: a job is in one place of a channel, holds a place of a channel as
long as the parent holds it, an object that was replaced is gone everywhere,
capacities are respected, and a free place is given to a job that waits.

### connector: job runner (`connector/jobrunner/runner.py`)
State: a database connection with its list of notifications, the channel manager,
client threads. Operations: connect, install the trigger, `LISTEN`; read the rows
that are not done; process notifications; run jobs (mark a row enqueued, start a
client thread that asks Odoo to run it, and that puts the row back after a
timeout); wait; recover from exceptions.
Correct when: its view follows the rows, it does not sleep on a job that can run,
every job comes to an end, and no row is left enqueued or started with nobody who
attends to it.

### connector: runjob controller (`connector/controllers/main.py`) and job (`connector/queue/job.py`)
State: the rows of `queue_job`, and a Job object in each handler. Operations:
load, check, start, perform, and one of the outcomes done, postponed, retried,
nothing to do, failed, each stored in a transaction.
Correct when: a job's effects and its final state are committed together and
once for each time it is queued.

### connector: users, cron, polling workers (`connector/queue/model.py`, `connector/queue/worker.py`)
Operations: requeue, set to done, delete old jobs; an older way to run jobs by
polling workers: the cron of each worker assigns free rows to it (`FOR UPDATE
NOWAIT`) and puts them in the queue of its thread, a watcher tells that the worker
lives and purges the ones that have not told for long.
Correct when: a row is run by one worker at a time, its work is committed once,
and no row is forgotten whatever dies.

### connector: units, events, mappers (`connector/backend.py`, `event.py`, `connector.py`, `unit/mapper.py`)
State: registries of classes and consumers that the import of Python modules
fills, one for all databases of a server; mapping methods that classes share with
the ones they are derived from. Operations: register, replace, subscribe,
dispatch, choose the class of a model, map a record.
Correct when: the answer depends on the modules that are installed in the
database and not on the order of imports, and an export maps all that depends on
a changed field.

### Magento connector (`magentoerpconnect/`)
State: bindings between records of Odoo and of Magento, dates of synchronization,
jobs. Operations: batches that look for changed records, imports with an
advisory lock per record, exports with a row lock and the creation of the
binding a record depends on, deletions; deliveries, tracking numbers and
invoices sent to Magento (also those without a line of the order); orders imported with the orders they replace, and
their state sent back.
Correct when: one binding per record on both sides, no change on Magento is
forgotten, one job is at a record at a time, documents are bound to their own
documents on Magento, an order and the one that replaces it are not both at work.

### The shop's flows
- `connector_ecommerce/sale.py`, `sale_exceptions`: cancellation between two
  systems, orders that may not be confirmed.
- `sale_automatic_workflow`, `sale_payment_method`: a cron that confirms orders,
  validates invoices, transfers pickings and reconciles payments, a transaction
  for each document; `numa_uniqs_base/invoice.py`, `stock.py`: numbers and dates
  of invoices by class and AFIP type, numbers of remitos.
- `sale_commission`: settlements of agents and the bills made of them.
- `numa_uniqs_customer_voucher`, `numa_wineem_voucher`, `numa_uniqs_base/partner.py`:
  receipts, reconciliations, vouchers, and the figures that a partner's form
  shows of the same move lines.
- `numa_uniqs_box` (delivery boxes: opened, closed, delivered) and
  `numa_uniqs_custom_picking` (picking orders).

### The rest
Localisation, fields, views, reports, printers, cryptography wrappers:
PROJECT.json lists them with the reason why they are not modelled.

### Interactions
The runner, the handlers, the users and the cron share the rows of `queue_job`
and nothing else. PostgreSQL tells the runner of each change through a trigger
(`pg_notify`), and refuses a change of a row by a transaction whose snapshot is
older than the row's last change. The runner asks the handlers over HTTP and does
not look at the answer: the answer of a job is its row. The Magento jobs share the
bindings and their locks with each other, and Magento's records with the shop; what
a job does on Magento stays when its transaction is rolled back. The flows of the
shop meet in orders, invoices, pickings and move lines, which a cron, jobs and
users change in transactions of their own.

### Hard behaviours
Timeouts that race with late handlers; checks in one transaction and changes in
the next; whole rows stored from old objects; rows deleted under a handler;
notifications read as a side effect of queries; a runner that restarts while
handlers go on; workers taken for dead; lists searched before the first of many
commits; drafts that copy what is owed; a lock taken after the data was read; a
transaction of Magento that ends after the batch that looked for it; sets that
classes share. `hazards` in PROJECT.json gives the line and the properties for
each.

## 2. Modules

| module | what it is |
|---|---|
| `JobOrder` | the order of jobs and what a queue lets go first |
| `JobSet` | what a channel queue promises: a set, the job due first is taken |
| `ChannelQueue`, `MCChannelQueue` | the two heaps with lazy removal; implements `JobSet` |
| `Channels` | the channel tree: state and operations, used by the next two |
| `ChannelManager`, `MCChannelManager` | the tree alone under all calls |
| `JobRunner`, `MCJobRunner` | the tree, the runner thread, clients, handlers, users, cron, crashes |
| `JobRunnerProofs` | what each operation of the tree keeps; proofs about the tree and about the runner |
| `JobQueue` | what the whole promises: jobs wait, are enqueued when there is room, run once |
| `JobWorkers`, `MCJobWorkers`, `JobWorkersProofs` | the polling workers: rows, memory, thread, cron and purge of each |
| `MagentoSync`, `MCMagentoSync`, `MagentoSyncProofs` | batches, imports, exports, deletions in transactions with snapshots and locks |
| `MagentoDocuments`, `MCMagentoDocuments`, `MagentoDocumentsProofs` | deliveries, tracking numbers and invoices of one order |
| `MagentoOrders`, `MCMagentoOrders`, `MagentoOrdersProofs` | an order edited again and again, cancellation in two systems |
| `InvoiceNumbers` | validation of invoices: type, class, number, date |
| `SaleWorkflow`, `MCSaleWorkflow` | orders, pickings and the cron, on top of `InvoiceNumbers` |
| `Settlements`, `MCSettlements` | commissions, settlements, bills of agents, a wizard left open |
| `SalesProofs` | proofs about the last three |
| `PartnerFigures` | move lines and what a partner's form computes of them |
| `Receipts` | receipts and reconciliations on these lines |
| `Vouchers`, `MCVouchers` | vouchers, with the receipts |
| `VouchersProofs` | proofs about the last three |
| `ConnectorUnits` | registries of units and events by module |
| `Mappers`, `MCMappers` | mapping methods of classes, with the registries |
| `ConnectorProofs` | proofs about the channel queue, the registries and the mappers |

**ChannelQueue.** `queue` and `eta_queue` are the two `PriorityQueue` objects as
records of `heap` (how many times each object is in the heap), `known` and
`removed`. `heappop` may take any object no other one comes before, so ties are
all explored. Objects are compared by identity: the instance has two objects
that are equal in the order. `called` records the last call, so that a call
without its effect is not taken for a stutter of `JobSet`.

**Channels.** `queue`, `running`, `failed` are functions from channels to sets
of job objects, `jobs` is `_jobs_by_uuid`. The recursion from a channel to its
parents is written with `Path`, the channels from one down to the root. The generator
`get_jobs_to_run` is a sequence of actions: `PassDown` moves one job one channel
down, `YieldToRunner` gives one to the runner, `Exhausted` ends the generator of
one channel; `drained` remembers which have ended. Between two of these steps
nothing else touches the tree, but an exception may abandon the generator.
`seq` stands for `(date_created, seq)`; a capacity of `None` and one of 0 are
both 0.

**JobRunner.** `row` is the table, with the columns the code decides on.
`pc` follows the runner thread through `initialize_databases`,
`process_notifications`, `run_jobs` and `wait_notification`; `socket` holds the
notifications not read yet and `notifies` is the list of the connection. Every
query of the runner empties the socket into the list (`Collect`). A request
`req[r]` has a client half (waiting, timed out, gone) and a server half (sent,
loaded, started, replied, lost), the Job object the handler has read, and whether the
row has changed since (`stale`). Each committed transaction is one action;
`SetStarted` is the commit before the job is performed, the outcomes are the
commit after it. A refused store shows as `RowChanged` (the store after
`set_done`, which is followed by `retry_postpone`), `StartRefused`,
`PostponeRefused` and `OutcomeLost` (a store in an exception handler). `Status`
maps a row to a state of `JobQueue`.

**JobWorkers.** `row` has the state and `worker_id` of each job, `memory` the queue
of each worker, `thread` where `run_job` of a worker is, `cron` what its
`enqueue_jobs` has found and not yet enqueued, `registered` and `late` what
`queue_worker` tells. A step of a thread is a transaction: `Load`, `Reset`,
`Start`, `Perform` and the outcome. A worker that is late is purged by any other
one although its process may live (`stalled`); a purge takes its rows away, what
is in its memory stays.

**MagentoSync.** A worker runs a job with a stack of frames: the record at hand on
top, below it the records that wait for it as their dependency. A work has the
snapshot of its transaction, its own view, the rows it wrote and locked, the
advisory locks it holds and the jobs it delays until it commits. Writing a row that
was changed since the snapshot fails as PostgreSQL refuses it. `clock` stands for
the seconds that `updated_at` and `sync_date` are compared with; a transaction of
Magento dates its change with its start and ends later (`opened`). `overtaken`
records the changes that no comparison of dates can find: made while a job was at
the record, dated before, or in the same second as, a synchronization; and the
records that an export gave back to a binding which had another one by then.

**MagentoDocuments, MagentoOrders.** Jobs are kept in the order of their creation,
with the step at which they are; what they create on Magento before the crash of
their process stays. A document stands for one item of the order, or for none when all its
lines were added by hand (`lines`). `Create` has the ways in which an invoice ends: it is made;
it is not sent for want of lines, or Magento gives no id, or fault 102: then the only
invoice of the order is taken, whosever it is; if there is none or more than one the job is
done without a binding, or fails after a fault. `Bind` is refused when another document
has the id (`magento_uniq`). In `MagentoOrders` an order has a sale order, a binding with
its parent, and a state on Magento; a job writes on the rows that it saw, or starts
again; `raced` records when two jobs have told Magento the state of the same
order at the same time.

**InvoiceNumbers, SaleWorkflow.** A validation begins with what it reads (the
invoice, the last number, the dates of the others) and ends with a commit that is
refused when the invoice or the sequence was changed since. The cron has a step and
the list of documents it has searched for it; each document is a transaction, and
the pickings are one together. Users do the same to the same documents in between.

**Settlements.** Each line of an invoice has its settlements one after the other
(a settlement holds one line), each settlement its bills. `PeriodStart` computes
the first month of a settlement from that of the invoice as the wizard does. `MakeInvoices` invoices
the settlements that a wizard was opened with, whatever they are by then;
`again` records when one was not settled any more.

**PartnerFigures, Receipts, Vouchers.** A ledger is a sequence of move lines with
their reconciliation. A receipt or a reconciliation copies what is owed into a draft,
which the user edits; posting it splits and pairs lines. `clean` records that
no draft was posted after what it copied had changed.

**ConnectorUnits, Mappers.** One server imports modules in any order that their
dependencies allow; one database installs and removes them. Every class statement and
decorator that a module could contain is chosen by the step that imports it. The order
in which Python looks for an attribute is computed for up to two bases; of two bases
that share ancestors, what they share comes last in the order of the first (`Cuts`), as
in every diamond of the addons.

## 3. Runs

Each passing run takes between a few seconds and about four minutes with two workers.

| run | states | properties |
|---|---|---|
| `channel_queue` | 7,829 | `ImplementsSet` |
| `channel_tree` | 166,750 | `TreeInvariant`, `FollowsDatabase`, `NoIdleCapacity` |
| `runner_calm` | 181,036 | `CapacityRespected`, `CommittedOnce`, `ViewFollowsRows`, `IdleMeansBlocked`, `ImplementsQueue` |
| `runner_fair` | 404,826 | `NoStaleJob`, `EventuallySettled` |
| `workers` | 288,739 | `WorkCommittedOnce`, `NoJobForgotten`, `OneWorkerAtWork`, `EveryJobEnds` |
| `magento_sync` | 245,501 | `NoLostChange`, `OneJobAtRecord` |
| `documents` | 565,724 | `BoundToItsOwn`, `TrackSentOnce`, `TrackArrives` |
| `orders` | 429,834 | `ParentFlagged`, `OneOrderAtWork`, `NotShownCanceled`, `CancelArrives` |
| `sales` | 386,659 | `NumbersFollowDates`, `EveryNumberOnce`, `RemitosOnce`, `CanceledForGood`, `EventuallyDone` |
| `settlements` | 356,885 | `LineSettledOnce`, `BilledOnce`, `StateFollowsBill`, `SettledApart` |
| `receipts` | 63,520 | `BalanceFollowsDocuments`, `NotOverpaid`, `FiguresAddUp`, `CreditOnlyWhenCovered` |
| `mappers` | 44,348 | `UnitsFound`, `ChangesMapped`, `AnswersFollowModules` |

What they show:

- `channel_queue`: the heaps behave as a set whatever is added, removed, added again.
- `channel_tree`: the tree follows any notifications, and a consumption of
  `get_jobs_to_run` leaves no place free that a waiting job could take.
- `runner_calm`: without users and timeouts, but with failing jobs, exceptions of
  the runner, killed workers and crashes of the server, the whole implements
  `JobQueue`: a job is enqueued only when all its channels have room, counted by the
  rows and not by the tree, and it goes from enqueued to running to an outcome, or
  back when its request failed before it started.
- `runner_fair`: with users, timeouts and failing jobs no job is left that nobody
  attends to, and each comes to an end. `NoStaleJob` is what the docstring of the
  runner leaves open: it names crashes as the reason for jobs that stay started or
  enqueued. An exception of the runner between the `UPDATE` and the thread start does
  make one (see `RunnerException`), so the property excludes it, and it excludes jobs that
  cannot be loaded.
- `workers`: a job has one worker and is committed once, as often as a user asks.
- `magento_sync`: a change made on Magento is imported, or an import of it waits
  or has failed; one job is at a record.
- `documents`: a document with lines of the order is bound to its own on Magento, also
  when a job was killed after Magento has created it, and although an invoice without
  lines may have taken the one it looks for; no two documents are bound to the same; a
  tracking number is sent once and arrives.
- `orders`: the order that is replaced is flagged as soon as the new one is
  imported, they are not both at work, Magento and the shop learn of each other's
  cancellations.
- `sales`: numbers are given once, in the order of dates; the cron does not revive
  a canceled order and leaves nothing behind that is not held back.
- `settlements`: a commission is settled once and billed once; a settlement begins in
  the calendar period of its invoice, and those of an agent do not overlap. That the invoice
  is dated in its settlement does not hold for quarters, see below.
- `receipts`: what a customer owes follows what was paid, as long as nothing out of
  date is posted, and the figures of the form add up to it.
- `mappers`: what a server answers follows the modules of the database, and an export
  maps all that depends on the fields that changed.

### Statements of the code that do not hold

These are in `.cfg` files beside the runs; each refutes the one property named, a
comment, docstring or test quoted in its definition.

- `MCJobRunnerStarts` (`StartsEnqueued`): a job set to pending or done by a user
  between the load and `set_started` is started; the comment says it stops.
- `MCJobRunnerMarks` (`RunningInAllChannels`): `set_running` does not reach the
  parents when the job's own channel has it already.
- `MCJobRunnerCapacity` (`CapacityRespected` with a timeout): a slow answer puts a
  running job's row back, the tree gives its place away, and two jobs run in a root
  of capacity 1.
- `MCJobRunnerVacuum` (`VacuumsDone`): `requeue` leaves `date_done`, so the cron
  deletes a job that waits.
- `MCJobRunnerUnreadable` (`NotKeptEnqueued`): a job that cannot be loaded stays
  enqueued.
- `MCMagentoSyncRace` (`ImportSeesBinding`): the snapshot of an import is older than
  its advisory lock, it does not see the binding that the previous holder made.
- `MCSettlementsQuarter` (`SettledInPeriod` with quarters): the comment in
  `sale_commission/wizard/wizard_settle.py`, 24, is "Get first month of the date quarter", but
  the period starts with the last one: July is settled in September to November, and
  an invoice of the first two months of a quarter is outside of its settlement. The run
  has an agent of this kind and checks what does hold of it (`SettledApart`).
- `MCMappersPropagate` (`NotPropagated`): a class with two bases extends the set of
  its first base in place: a method of the base that always applied becomes
  conditional for the base too.

### Known behaviours the properties leave out

The properties name the conditions under which they hold; each stands for something
the code does.

- Workers: a living worker that is taken for dead, or a user's requeue while a job
  runs, lets its work be committed again (`stalled`, the acts counted).
- Magento: a change dated before a synchronization or in its second, or made while a
  job is at the record, is not found (`overtaken`); a job whose import fails is told to
  users and not repeated. An export that commits the creation of the binding it
  depends on goes on with the identifier it read before, in a new snapshot: a
  record may be created a second time on Magento, or the binding get an older
  record back (`TakenBack`, also in `overtaken`).
- Documents: a number replaced while it is sent, or sent by a job that is killed,
  goes twice; a delivery whose export overlaps a complete one meets fault 102 and is
  given up (`lost`). An invoice without lines of the order, or one for which Magento gives
  no id, takes the only invoice of the order, whosever it is; `BoundToItsOwn` speaks of the
  documents with lines. The job of the owner is then refused by `magento_uniq` and fails. When there
  is no invoice, or more than one, it is done without a binding.
- Orders: the copy of an order that is flagged as canceled is canceled at once; two
  jobs that tell the state of one order at once may leave the older one (`raced`); a parent whose import
  overlaps that of its child is never flagged.
- Sales: `action_confirm` of `numa_uniqs_base` writes the state 'progress' even
  when exceptions keep the workflow in draft: nothing is delivered and the cron no
  longer finds the order. A canceled draft that keeps its type blocks
  earlier dates, a draft with an older date is refused: the cron meets them in
  every run (`NothingLeft` calls them held back). One picking that cannot be
  transferred blocks all those of a run. The copy of an automatic invoice is automatic.
  Two classes of one type can print the same number. An order written as confirmed against a
  rule and canceled afterwards keeps its workflow in draft (`action_cancel` sends it no signal); in
  the model what a rule looks at changes only in draft, otherwise the cron's old
  list could still confirm it once the rule lets it pass.
- Settlements: `make_invoices` looks at no state (`again`); a wizard whose
  settlements are all deleted bills every settled one; a deleted draft bill leaves its
  settlement 'invoiced' without a bill.
- Receipts: a stale draft or a second posting of a reconciliation creates money
  (`clean`); a cancellation removes reconciliations it shares with others;
  `action_post` writes 'posted' on all ids it was given. Vouchers are refused when
  counted credits make the assigned debts exceed the amount, and the assignment by
  itself gives the amount to credits too. `debt_invoice` always shows 0.
- Units: the `replacing` of an event removes the replaced consumer even where the
  replacing module is not installed, and only for the same models; a consumer
  subscribed for all and for a model is called twice. `only_create` of the first base
  wins in a diamond.

### Bounds, and why they are enough

- Runner. Two jobs compete for a place, which is all that capacity, sequence and the
  order between two actors need; the tree alone is checked with three jobs and
  three levels. Two requests let a late handler overlap with the next request
  for the same job. `Allowance` bounds how often a user acts, a request times out,
  the runner fails, and so on: once each, in any order and at any moment.
  `runner_calm`: root of capacity 1, a channel of capacity 2, `MaxRetries` 2, one
  deletion by the cron, error, exception, crash. `runner_fair`: one job, one act of a user, timeout,
  error. `MaxTime` 1: a job may be created with an eta of the next tick and
  postponed once. `Requests` bounds the requests in flight: with none free the runner waits in
  `AsyncHttpGet` until a handler has answered and its client is gone.
  The combination of a user, the cron and a conflict on one job is not in a run.
- Workers. One job, two processes and the one that replaces a dead one, one
  perturbation of each kind and two in all: a job that is taken away while it is
  held needs one.
- Magento. A product of the shop and its category, a product of Odoo and the one its
  export needs, three identifiers that Magento may give, two import bindings to
  come, two workers, a buffer of one second and a clock of two; one change
  of the shop, one batch, two users' writes, one crash, three of these in all. `documents`:
  a delivery with a backorder, two invoices created on payment, of which a delivery and an
  invoice may have no line of the order (an invoice with lines beside one without is what it
  takes to bind one to the other's), two jobs at once, one tracking number, one payment
  taken back or one crash (`MaxBoth`: an invoice gets one job whatever is paid again, so
  the two do not add up). `orders`: a chain of
  three (the nearest parent that is there may not be the direct one), the first
  paid, two jobs at once, one act of a user, one crash.
- Sales. Two orders of one class, one invoiced at its confirmation with a date of its
  own and the other at its delivery, a user and the cron as validators, two days,
  two acts of users or exceptions of the cron.
- Settlements. An agent paid by the quarter on invoices and one by the half year on
  paid ones, the two kinds where the start of the period is not that of the month or the year
  (the theorem is for all four), one invoice in months 5, 6 or 13 (another year), two settlements and
  two bills of each, one wizard, three changes of users.
- Receipts. A customer with an agent below, two invoices and one of the agent
  due in different spans, a bill, two receipts, a reconciliation and a voucher,
  payments of two kinds, a user who may write another amount, two
  edits, cancellations or repeated postings.
- Mappers. Four modules, two of which depend on the first and one on both (a
  diamond), two backends of which one is the child of the other, four mapper
  classes, the one of the connector on the parent (`CoreOnService`), three consumers of
  which two replace the first. With four classes
  two of them can share a base, one be derived from both, and a class outside the line of
  another extend the set of their base.
- `RequestSymmetry`, `WorkerSymmetry` and the like: no definition tells the elements
  apart, and they are not used in runs with a liveness property or the refinement.

### Fairness

`FairSpec` of `JobRunner` assumes weak fairness for the runner's steps, for each
handler, for the `UPDATE` of a client that has timed out, and for the clock. The runner is a
loop in a thread whose waits end (`select` has a timeout), the handlers are Odoo
workers, and a client thread that has caught the timeout has nothing to wait
for. That of `JobWorkers` assumes it for each thread, each cron, the watchers'
notices and purges, the time a dead worker is taken for dead after, and that a
new process is started. Those of
`MagentoDocuments` and `MagentoOrders` assume that some job that can go on does, that of
`SaleWorkflow` that the cron goes on. No fairness is assumed of users, producers,
the shop or failures.

## 4. Proofs

All leaves are checked by `tlapm`; the theorems hold for any number of jobs,
channels, requests, workers, records, orders, bounds, and any time. The assumptions are
those that the modules name: types of the constants, a finite tree of channels, where
`Path` is a channel and the path of its parent and no channel is in the path of its parent (`TreeAssumption`), sequential channels of capacity 1, as `configure`
enforces, orders and deliveries each once in the order in which they are made (`Chain`,
`Pickings`), parents of backends that come to an end (`UnitsAssumption`). TLC evaluates them in the runs.

### Queue and tree

- `QueuesAreInOrder`: `QueueInvariant` is inductive as it stands.
- `QueueIsSet`: each step of the heaps maps to a step of `JobSet` or a stutter.
  The point is `pop`: the removed objects that leave the heap are before the one
  returned, and so the one returned is among the first of what counts.
- `JobRunnerProofs`: `Path` of a channel is a chain that ends in the root. It is
  proved from a path of minimal length (`ReachesRoot`, `PathsAreChains`), so that nothing
  about the shape of the tree is assumed but `Parent`. What each operation keeps and
  where a job may be afterwards (`NotifyMoves`, `PassDownMoves`, `YieldMoves`,
  `GeneratorDrains`) are lemmas that the next two modules use.
- `TreeIsWellFormed`: the inductive invariant is `TreeInvariant` with
  `RunningMeansDownstream`. Without the latter it is not inductive: `SetRunning` stops
  at the first channel where the job runs, and only the relation between a channel and
  its parent says what is further down.
- `TreeFollowsDatabase`: from the tree's invariant and `FollowsDatabase` itself.
- `JobsAdvance` (`NoIdleCapacity`): the invariant is `DrainedBlocked`: a channel whose
  generator has ended has no job that may leave it, now or later in the same
  consumption, since places are taken and not given back in it. That the first of
  a queue can be chosen at all is a fact about finite sets (`FirstsExist`).

### Runner

- `RunnerTypes`, `RunnerTree`: the two together are inductive, because the types
  of the tree need the types of the rows that are notified.
- `NoStaleJobs`: the invariant adds that `left` never exceeds `Allowance` and that
  a job in `Exists` is `Attended`. Each action is one case: what changes the row
  of a job makes the handlers' snapshots stale, and a stale handler cannot be
  the last one to attend to a job that is still started, because the change
  itself gave the row another state.
- `ViewFollows`: `ViewInvariant` adds that the tree is empty until the rows are read,
  that a row that was selected is the present one or has a notification on its way,
  and for each job that the tree follows its row unless it is `Notified` or selected.
- `RestsOnlyWhenBlocked`: `RestInvariant` adds `DrainedBlocked` and that nothing
  can be yielded when the runner waits; with the view it gives `IdleMeansBlocked`.
- `CapacityHeld`, `CommittedUntilUsersAct`, `RunnerIsQueue`: these hold while no user
  has acted and no request has timed out (`Calm`, a condition on the history
  that the refuting runs above show to be needed). `CalmInvariant` relates the
  handlers, the clients, the rows and the tree: each request is in step
  with the row of its job (`RequestsInStep`), each row with its requests and commits
  (`RowsInStep`), the queues hold jobs that wait (`QueuesInStep`), what was selected
  or is being enqueued is in step (`SelectedInStep`, `CurrentInStep`), a row that is
  enqueued or started holds its places (`PlacesInStep`), and places are within
  capacity. Capacities of handlers follow by two injections: handlers at work into jobs that
  occupy a channel, and these into the places of the tree.
  For the refinement, `SetJobEnqueued` is `Enqueue`, `SetStarted` is `Run`, an outcome
  is `Finish`, a client or handler that gives up is `GiveBack`, the
  cron is `Forget`, a producer `Submit`, and every other step leaves the rows' status
  alone. The only hard one is `Enqueue`: that the rows have room because the tree
  has.

TLC checked `CalmInvariant` and the others on the instances before they were proved.

### Workers

- `WorkersTypes`: types, and that rows only name registered workers.
- `NoJobsForgotten`: inductive with the types.
- `OneWorker`, `UndisturbedWorkOnce`: as long as no user acts and no living worker is
  purged (`Undisturbed`), a job is in at most one place (`Places`, `InPlace`): the row
  of a worker, its memory, its cron or its thread.
- `WorkOnce` (`WorkCommittedOnce`): without that restriction of the users. Each place where a job
  can be started from is a claim; a step drops claims, moves one, uses one for a
  commit or adds one by an act of a user (`ClaimStep`). So the claims and
  commits together never exceed one and the number of acts (`AllBounded`).

### Magento

- `SyncTypes`: with it are inductive that a transaction of Magento is open on an
  existing record only, the shape of stacks (`WellStacked`: a frame that writes has
  its lock) and that locks are exclusive (`Exclusive`).
- `OneJobAtRecords`: from these three.
- `NoChangeLost` (`NoLostChange`): the invariant is `LostInv`. It speaks of the images of
  a binding, its row and the one an import has written and not committed yet
  (`Images`). `RowsTold`: an image that is older than its record is told by an import
  that does not skip it, queued, failed or at work (`Forced`), or has a date before
  the change, which a batch to come, a batch in the queue or an import will find
  (`Listed`). `ExportsTold` is needed because an export dates the row with the end of its
  transaction and so makes the next comparison skip the change: the import that the
  export delays until its commit must be there for every image (`Owes`). Around
  these: a batch covers what was changed since the last one, because no
  transaction of Magento lasts longer than the buffer (`Dates`); a date of
  synchronization is not in the future (`Stamps`); two images with one record are of one
  binding (`OneBinding`); what one transaction writes no other writes or locks (`Apart`); and
  for each transaction what it knows (`Locals`): a row under its lock is the one of
  its snapshot, a record that an import read has the version it read, unless it was
  overtaken. Each action is one lemma; the steps that only change a work
  (`WorkGoes`), that commit a row of an export (`ExportCommits`) and that no job takes
  (`QuietLost`) share theirs. The attempt showed what the model had left open: which id
  a new row may take (`Fresh`), that an export may bind another record than the
  one of the row (`TakenBack`), and that an uncommitted row of the same transaction
  counts as a binding (`Committed` in `ImportWrite`). TLC checked `LostInv` first.

### Sales

- `WorkflowTypes`: types, with `PickingsOK` and `NoSignal` (an order at work or canceled has
  no signal to confirm that its workflow would take).
- `NumbersGivenOnce`: `GivenOnce`: the numbers given of a class are those before its
  sequence, each one once, because a commit is refused when the
  sequence is not the one it has read.
- `NumbersInDateOrder`: `DatesInv`: a validation that can still be committed has seen every
  invoice in force of its class and type (`SeenDates`), since another one of the
  class would have moved the sequence; and every number given is below it
  (`NumbersPassed`).
- `RemitosGivenOnce`: the numbers of transferred pickings are those before
  the store point's next one.
- `CanceledOrdersStay`: an action property from `NoSignal`.

### Settlements

- `SettlementTypes`, `LinesSettledOnce`, `StatesFollowBills`: together inductive, with
  `OnlyInvoicedRefer` (only an invoiced or excepted settlement has a bill).
- `LinesBilledOnce`: a bill that counts is the one its settlement refers to, as long as
  no settlement was invoiced again (`BillsReferred`).
- `SettlementsAreApart` (`SettledApart`): an action property from an invariant: each row has the period
  of its agent's kind (`InPeriods`): it is as long as a month, quarter, half year or year and begins a fixed
  number of months after the beginning of one (`Aligned`, `PeriodIsAligned`); two such
  periods of one kind are the same or apart (`AlignedApart`).

### Documents and orders on Magento

Jobs are a list; a step changes one job, takes it away, or appends others. `JobsMove` says
for a list where each of its jobs comes from, so that an invariant of the form "each job
..." is shown for the one that moved, the new ones, and is kept by the rest.

- `DocumentsAreOwn` (`BoundToItsOwn`): `OwnInv`. A job between the answer of Magento and
  its commit holds the identifier of a document that has its items, if it has lines
  (`JobShape`, `Owner`). The hard step is `Create`: what it makes, or, for an invoice that is on
  Magento already, what it finds. An invoice with lines that is not left to make is in one
  on Magento, and if there is only one it is the one found. A shipment has
  the item of a partial delivery, or nothing is left to ship (`Shipped`). That no two documents share an id (`Apart`) is not a
  consequence of this, since a complete delivery has the items of others and an invoice
  without lines takes any: it is what `magento_uniq` refuses in `Bind` (`BindMade`).
- `NumberSentOnce` (`TrackSentOnce`): `OneNumber`. The jobs that may still send the
  number are those with a claim on it: an export that will queue a tracking job, or a
  tracking job before it has sent. There is at most one, and none after it was sent.
- `OrdersTypes`: with it are inductive that an order is listed and imported once
  (`ImportsOnce`), that a sale order is of one binding (`Bindings`), that on Magento only the last of a
  chain is open (`EditedOnce`), and how the flags of a sale order go together (`Flags`).
- `EditedAreFlagged` (`ParentFlagged`) and `OneOfTheChainAtWork` (`OneOrderAtWork`):
  `LinkInv`, as long as no two imports overlapped. An import links an order to the nearest
  one before it that is bound and flags that one and its parents; that these are all that are
  before it is a fact about the chain (`NearestIs`, `AllParents`). An order at work was
  confirmed when the ones before it were resolved, and a resolved one stays canceled
  unless a user keeps it (`Resolved`, `Flags`).
- `OpenIsNotShownCanceled` (`NotShownCanceled`): `Corrected`: where Magento shows an open order as
  canceled, or a job is about to tell it that, another job that corrects it is queued or
  at work. A job that tells "canceled" of an open order is one that read it before it was
  reopened, and the copy that reopens it queues a job for any state (`ReopenJobs`); as no two such jobs
  run at once, that one is still there when the first has ended.

### Registries and mappers

- `RightClassesFound` (`UnitsFound`) and `AnswersByModules` (`AnswersFollowModules`): the invariant is
  `RegistryInv`. `get_class` walks twice down the registry: along the replacements of an entry, and from
  a version to its parent. Both are recursive functions, and their values are found without
  induction: a closed form (`Found`, `Best`) satisfies the equation, and two solutions
  agree, for the last entry or the most distant version where they differ would have
  one further on. `EntriesInv` says where the replacements of an entry are: after it,
  which is why the walk ends. `LoadedInv` says that an installed module has been
  imported: what a module registers while it is imported answers nothing yet.
- `ChangesAreMapped` (`ChangesMapped`): `MapInv`. `MethodsInv`: the cell in which a class keeps the
  fields of a method is one that an ancestor made. `NamedInv`: a cell has all the
  fields that the ancestors of a class name. The other direction, that a method for which no ancestor names
  a field is always active, is false of a single class: another class that shares the cell may
  extend it. `SilentInv` is therefore about any set of classes closed under ancestors: when
  none of them names a field and no class outside extends their cells, the
  cells are empty. The attempt corrected `Extended`, the exception that the property makes: it looked at the
  set that c itself uses, but a set of an ancestor that was extended is copied into that of c
  when c is defined after it; and it left out too much, where c inherits the class that
  extends.

### Receipts and vouchers

The loops of `action_post`, of the allocation and of the vouchers are recursive functions on
the numbers up to the length of a list, and a sum is a fold over a finite set. Neither
needs an induction theorem with an operator: a set of numbers that holds 0 and goes on
holds all of them (`UpTo`), a set of sets that holds the empty one and goes on holds every
finite one (`SetInduct`); so the equations of each loop are found (`LeftForUnfolds`,
`TurnsUnfold`, ...), sums are taken apart (`SumUnion`, `SumParts`, `SumEnumerated`), and sorting
is shown to list each line once (`OrderEnumerates`).

- `VouchersTyped`: the types, and what the drafts hold: different open debts of the customer
  with what was owed, different credits, and lines of the voucher's account.
  It holds although the ledger goes on, because lines are never removed and keep their
  account, partner and side (`Grows`).
- `BalanceIsOfDocuments` (`BalanceFollowsDocuments`): `BalanceInv` says the same by account, and
  that what a receipt has written comes to what it has paid until it is cancelled, which is
  what `cancel_receipt` takes back. Each posting adds lines at the end, and pairs them, which
  changes no amount (`PostedOn`): the parts given to debts, the credits that are left and the rest
  of a quick move come to what was received (`ReceiptPosted`), what a voucher writes
  comes to its amount (`VoucherPosted`), and a reconciliation cuts credits into parts
  that come to the same (`ReconcilePosted`), provided the credits are what they were when
  the draft was made: the only place where the hypothesis `clean` is needed.

### Only model-checked

- Liveness (`EventuallySettled`, `EveryJobEnds`, `TrackArrives`, `CancelArrives`,
  `EventuallyDone`): temporal proofs under fairness need ENABLED, which the prover does not
  support.
- `NotOverpaid`, `FiguresAddUp`, `CreditOnlyWhenCovered`: these speak of what single
  reconciliations come to, for which the invariant of the ledger is still to be found.

## 5. Not modelled

- The graceful stop of the runner; several databases (the tree treats jobs of different
  databases alike); a failure of `set_job_pending` itself.
- Transactions of users are one step: their refusal shows them an error and
  changes nothing.
- The parsing of the channel configuration and the creation of sub-channels.
- The text of results, messages and descriptions, arguments and pickling.
- Workers: the order of the in-memory queue and the wait for an eta, archived jobs.
- Magento: translations, images, stock quantities, partners and addresses, the
  import rules 'authorized' and 'never'.
- Orders: lines, prices, taxes; `max_days`. Sales: partial availability, payments by
  a wizard, currencies; the framework's workflow engine is modelled from how
  the addons use it (external in PROJECT.json), and so are `stock`,
  `account.invoice` and `account_voucher`.
- Commissions: rates, sections, several lines of a settlement.
- Receipts: the half of each pair outside of the receivable account, several
  currencies, dates of the documents themselves; the figures of documents, rejected
  documents and down payments.
- Mappers: children, modifiers, `finalize`.
- Delivery boxes and picking orders: each click of one user is guarded by the state read in the
  same transaction.
- Everything PROJECT.json lists with the status `not_modelled`.

## 6. Plan

1. Done: queue, tree, runner with controller, storage and users; workers; Magento
   synchronization, documents and orders; sales and numbers; settlements; receipts,
   vouchers and figures; units, events and mappers.
2. Proofs: every safety property of the runs is proved but those of section 4, "Only
   model-checked". To come: what reconciliations come to in `Receipts` and `Vouchers`.
3. Models to come: the inventory export of `magentoerpconnect/product.py` (two jobs
   that read a quantity without a lock), the picking orders (moves released twice,
   pickings moved by a stale second wizard), the address book of
   `magentoerpconnect/partner.py` (merged default addresses).
