# Verification of the transaction event gateway

TLA+ models of the gateway, model-checked with TLC on small instances, and
machine-checked proofs (TLAPS) of the properties that matter most, for every
value of the constants.

## The system

Clients create **payment intents**; a blockchain provider sends signed
**webhooks** that confirm them. The API process stores a webhook in the *inbox*
(`webhook_events`) together with an *outbox* row (`outbox_events`) in one
transaction. Worker processes run the *dispatcher*, which publishes a BullMQ job
per due outbox row, a *reconciler*, which hands rows back whose job was lost, and
the *worker*, which takes jobs and decides the event in one transaction:
`PROCESSED` (the intent becomes `CONFIRMED`) or `FAILED` with a reason.
PostgreSQL is authoritative; Redis only holds jobs.

| Part | State | Operations | Interacts with |
| --- | --- | --- | --- |
| Payment intents | `payment_intents`, `idempotency_records` | create, replay, get | worker (confirms intents), connection pool |
| Webhook inbox | `webhook_events`, `outbox_events` | checks, insert, classify a conflict | dispatcher, worker, connection pool |
| Outbox dispatcher | outbox rows, a transaction per batch | dispatch, publish, mark, reconcile | queue holder, worker |
| Dispatcher runner | timers, in-flight promises, cooldown | tick, settle, shut down | dispatcher |
| Queue holder | current queue, poisoned flag, `recreatePromise` | publish with one retry, replace, destroy | Redis |
| Worker | the running job, degraded flag, log throttle | take, process, fail, retry, close | BullMQ, processor |
| Event processor | event, intent and attempt rows, row locks | lock, apply rules, commit | all tables |
| Hash migration | `confirmed_tx_hash` and its unique index | one `UPDATE` over all rows | workers that are running |
| Health checks | a Redis client, its connect promise, a pool of one | probe, reset, destroy | Redis, PostgreSQL |
| Request data | none | body guard, amounts, canonical JSON, error mapping | API handlers |

What is hard: row locks and unique indexes shared by several transactions;
publishing and committing that are not atomic; lost, duplicated, stalled and
exhausted jobs; repeated requests after lost answers; promises shared between
calls; shutdown, kill and restart in the middle of any of this; rows written
before hashes were normalized. `PROJECT.json` lists these hazards at the lines
where they bite.

## Modules

| Module | Models | Checked by |
| --- | --- | --- |
| `PaymentData` | rows of events and intents, normalization, the processing rules as functions | (extended by the next two) |
| `EventProcessor` | `webhook-event-processor.service.ts`: one action per statement that can wait | `processor_*`, `EventProcessorProofs` |
| `PaymentLedger` | abstract specification of the processor: every event decided in one step | `processor_rules`, `EventProcessorProofs` |
| `OutboxDispatcher` | `outbox-dispatcher.service.ts`, the BullMQ queue and the workers' job loop | `outbox_*`, `OutboxDispatcherProofs` |
| `WebhookInbox` | `webhook-events.service.ts` | `webhook_inbox`, `WebhookInboxProofs` |
| `PaymentIntents` | `payment-intents.service.ts` | `payment_intents`, `PaymentIntentsProofs` |
| `QueueHolder` | `webhook-events-queue-holder.service.ts` | `queue_holder`, `QueueHolderProofs` |
| `DispatcherRunner` | `outbox-dispatcher-runner.service.ts` | `worker_shutdown`, `WorkerShutdownProofs` |
| `WorkerShutdown` | the worker process: the two modules above composed with the batch that connects them, the BullMQ worker, the DataSource and Nest's order of shutdown hooks | `worker_shutdown`, `WorkerShutdownProofs` |
| `HealthChecks` | `health.service.ts`, `postgres-` and `redis-health-check.service.ts` | `health_checks`, `ApiProofs` |
| `ApiPool` | the API's connection pool, shared by handlers that also wait for each other's index entries | `api_pool`, `ApiProofs` |
| `TxHashMigration` | `1790150000000-NormalizeConfirmedTxHashes.ts`, row by row, beside workers that confirm intents | `tx_hash_migration`, `DataProofs` |
| `LogThrottle` | `log-throttle.ts` and the handlers of worker errors that use it | `WorkerShutdownProofs` |
| `BodyGuard`, `StringGuard` | `request-body-guard.middleware.ts`: the walk over the body, the scan of a string | `pure_functions`, `ApiProofs` |
| `Amounts` | validation, canonical text, storage as `numeric(36, 18)` and comparison of amounts, as digit sequences | `pure_functions`, `DataProofs` |
| `CanonicalJson` | `canonical-json.ts` and the property order of JavaScript objects | `pure_functions`, `WebhookInboxProofs` |
| `ErrorMapping` | `correlation-id-exception.filter.ts`, `database-error.ts`, `describe-error.ts` | `pure_functions`, `DataProofs` |

`MC*` modules hold the values TLC needs. `MCPureFunctions` puts the stateless
units side by side: a behaviour is one call of one unit on one input, the others
rest. `PROJECT.json` maps each definition to its source lines. `PaymentLedger`
states a promise and is not a translation.

**Transactions.** Committed tables are variables. A running transaction is a
record with its program counter, uncommitted writes and locks. READ COMMITTED
means that a statement sees what is committed when it runs, and that
`FOR UPDATE`, an `UPDATE`, or an insert into a unique index waits for a
transaction that holds the row or has entered the key. PostgreSQL, Redis, BullMQ,
`pg.Pool`, `ioredis` and Nest are modelled from how the code uses them.

**JavaScript.** In `QueueHolder`, `DispatcherRunner`, `WorkerShutdown` and
`HealthChecks` one action is the code between two awaits.

**Composition.** `WorkerShutdown` instantiates `DispatcherRunner` and
`QueueHolder` and conjoins their actions with its own: the batch that the runner
starts publishes through the holder, and how it ends is the result the runner
sees. Nest awaits every `onModuleDestroy` (the holder's), then calls the
`onApplicationShutdown` of runner and worker, then that of TypeORM. So timers
still fire while the queue closes, and batches meet a destroyed holder.

**Data.** A hash is an identity with a canonical or legacy spelling; in
`EventProcessor` an amount is a value with a number of fraction digits (`Amounts`
checks the conversions themselves); SHA-256 is injective; the checks of a webhook
are the set of those it fails; code units, error codes and error messages are
known by the classes the code tells apart.

**Faults.** A rollback, crash, lost answer, lost job, stalled job or failed
publish uses one unit of `MaxFaults`; exits and kills of the worker process use
`MaxRestarts`. In `EventProcessor` jobs may be delivered any number of times,
without such a bound.

## Runs

| Run | Distinct states | Shows |
| --- | --- | --- |
| `processor_races` | 452,272 | `PROCESSED` means paid; no deadlock; a hash confirms one intent; confirmation is atomic |
| `processor_rules` | 594,058 | stored failure reasons stay true; `EventProcessor` implements `PaymentLedger`; every event is decided |
| `outbox_safety` | 2,409,409 | inbox and outbox agree; decisions stay; failures counted once |
| `outbox_liveness` | 109,968 | every accepted event with a well-formed outbox row is decided |
| `webhook_inbox` | 1,592,110 | true answers; one `ACCEPTED`; no unclassified conflict; every request answered |
| `payment_intents` | 516,576 | one intent per key; same key, same answer; every client answered |
| `queue_holder` | 55,133 | no leaked queue; retries use another queue; calls end |
| `worker_shutdown` | 292,778 | what is published has its job; the database outlives its users; an exit leaves no connection; shutdown completes; every row is processed across exits and kills |
| `health_checks` | 688,079 | no leaked client; a probe of services that are up passes; every probe ends |
| `tx_hash_migration` | 134,919 | one holder per transaction afterwards, also beside workers; no second use of a transaction |
| `pure_functions` | 1,049,469 | the guard passes only clean bodies; the string scan is exact; amounts are kept and compared by value; canonical JSON depends on the meaning only; outages and data errors are told apart; a cause is named |
| `api_pool` | 686,321 | nobody waits for somebody stuck; every request ends |

Where a module has a `TypeOK` that no proof covers, it is a conjunct of the first
invariant of its run. Each property is paired with a mutant of the code's
definition (a dropped guard, a missing wait, a forgotten reset) under which TLC
reports it violated.

**Bounds.**

- Races on locks and indexes need two transactions, a chain of waiting ones
  three: `processor_races` has three workers and events, two intents and two
  hashes, one of them also in a legacy spelling. `processor_rules` has two of
  each, every way a payload is rejected and every intent status but `PROCESSING`
  and `FAILED`, which no code writes and the processor treats like `CREATED` and
  `EXPIRED`.
- The outbox has three rows with a batch size of two, so a batch can leave rows
  behind, and a `RequeueLimit` of one, so reconciliation has to choose.
  `JobAttempts` is two (five in the code), so one failure makes a retry. One row
  never has more than `MaxJobs` (two) jobs waiting on their first attempt; a
  publish that would exceed this waits. `outbox_liveness` has a batch size of one
  and a malformed row first, so the row behind it could starve.
- `QueueHolder` may build four queues for three publishers. In `worker_shutdown`
  two rows, one replaced queue, one fault and one exit or kill are enough for a
  shutdown that meets a replacement, a failing publish and an active job at once.
- `HealthChecks`: two probes share a client and three clients may be built, so one
  probe can replace the client another is using; two outages stop and recover a
  service. PostgreSQL may stop without ending the connection, so a query times out
  on one that would fail again; and the module may be destroyed before or after the
  first probe has built the pool.
- `TxHashMigration`: three intents are the least with a group of two and another
  group; two workers; two runs of the migration.
- `ApiPool`: four requests on two connections over two keys fill the pool with
  transactions that wait for one another.
- `pure_functions`: bodies of three containers with two entries against a limit of
  two levels; strings of five code units; amounts up to one digit beyond a column
  of two and two digits; JSON of two levels with integer-like keys; error graphs of
  four objects, cycles included, against a limit of two links.

**Symmetry** is used in `processor_races` and `outbox_safety`, over workers,
events and nodes.

**Deadlock** is checked where the system never stops (`EventProcessor`,
`QueueHolder`, `HealthChecks`). Elsewhere the instances end: all requests are
answered, all events decided, the calls made, or the last process has stopped.

**Fairness.** A transaction or continuation that can go on does so: locks are
held only by transactions that end, and no statement timeout is configured.
Timers keep firing and time passes; connecting, queries and `PING`s are answered
or run into their timeouts; shutdown hooks are called once those before them have
returned. Strong fairness is assumed only for the delivery of jobs, since BullMQ
serves its wait list in order, and for a batch over every row that is due and a
requeue of every stale row, which the passing of time enables again and again. In
`EventProcessor` strong fairness of delivery also stands for retries and
reconciliation, whose effect is what `outbox_liveness` checks. `ApiPool` needs no
timeout to end its requests. Faults and exits are finite, hence "once the faults
stop".

## Proofs

All theorems hold for any sets of workers, events, intents, requests, connections,
nodes, strings, amounts, error graphs or JSON values and any limits. Each safety theorem goes by an inductive
invariant: it holds initially, every action preserves it (one lemma per action),
and it implies the property.

| Module | Theorems |
| --- | --- |
| `EventProcessorProofs` | `Invariance`, `TypeCorrect`, `ProcessedHavePaid`, `AuditTrailAgrees`, `NeverDeadlocked`, `FinalRowsAreFinal`, `HashConfirmsOneIntent`, `ConfirmationIsAtomic`, `RejectionsStayTrue`, `WorkersImplementLedger` |
| `OutboxDispatcherProofs` | `TablesAgree`, `DecisionsAreFinal`, `FailuresAreCounted` |
| `WebhookInboxProofs` | the inbox: `AnswersHold`, `OneAcceptance`, `EveryConflictClassified`, `InboxGrows`; the text its payload hashes are taken of: `TextsAreCanonical`, `EqualTextsMeanTheSame`, `CanonicalIsStable` |
| `PaymentIntentsProofs` | `KeysOwnOneIntent`, `OneAnswerPerKey`, `ReplayFindsResponse`, `RecordsAreFinal` |
| `QueueHolderProofs` | `QueuesAreClosed`, `RetriesMoveOn`, `NothingAfterDestroy` |
| `WorkerShutdownProofs` | the process: `PublishedRowsHaveJobs`, `DatabaseClosesLast`, `ExitIsClean`, `RunnerKeepsPromises`, `HolderKeepsPromises`; its runner alone: `GuardsTellTheTruth`, `BackoffKept`, `ShutdownIsQuiet`; its log throttle: `Accounting`, `FirstEmission`, `Spacing` |
| `DataProofs` | the migration: `OneHolder`, `RefusedByWorkerOnly`, `RunsOnce`, `TransactionKept`, `SecondUseRefused`; amounts: `AmountsAreKept`, `PaymentsMatchByValue`; errors: `ErrorsAreClassified`, `CausesAreNamed` |
| `ApiProofs` | the body guard: `PassedIsClean`, `RefusedForReason`; the string scan: `ScanExact`; the pool: `ConnectionsReturn`, `PoolNeverStuck`; the health checks: `ClientsNeverLeak`, `UndisturbedProbesPass` |

**Event processor.** Assumed: the constants have their types, the null values are
distinct from real ones, and an initial intent has a hash exactly when it is
`CONFIRMED`; `Init` adds what the migration leaves behind (`MigratedHashes`). None
of the properties is inductive alone. `IInv` adds `TxInv` (what a transaction
knows at each step, above all that the intent it has locked may still be
confirmed), `LockInv` (row locks exclude each other) and `HashInv` (a hash is in
the index once, committed or not, and a legacy spelling exists only beside its
canonical one). `NeverDeadlocked` shows that a worker only waits for workers at a
later step of the transaction, and one that looks for the holder of a hash or
saves the intent only for workers that have nothing left but their commit, so no
set of workers waits for itself.

That the processor implements `PaymentLedger` rests on a second invariant,
`DecisionInv`: until it commits, what a transaction has decided is what the rules
make of the committed tables as they are now, because it keeps the lock of the
intent it has read and closed intents never change (`FinalKept`). So a commit is
one step of the ledger, decision by decision (`LedgerCommit`); a lookup that finds
no intent and its loss by a rollback are steps of `missing`; no other step is
visible. `RejectionsStayTrue` follows the same way: a rejection is committed with
its `Grounds`, and these speak of closed rows.

**Outbox dispatcher.** A batch commits what it computed from the rows it selected,
which is right only if the committed row and its event have not changed in
between. `LocksInv` says so (`DraftInv`), and why: no row is in two batches
(`Disjoint`, from `SKIP LOCKED`), a reconciliation and a backoff that elapses pass
locked rows by, and no job of a row runs whose event a batch is marking `QUEUED`.
`DecisionsAreFinal` and `FailuresAreCounted` are action properties that follow
from it: a commit writes a version of the row that is still the committed one.
Assumed: rows are numbered and the limits are positive.

**Webhook inbox.** The two unique indexes carry the proof. A transaction that has
inserted its row has no rival for its event id or nonce, committed or not
(`InsertInv`); one whose insert returned no row finds what it lost to (`FoundInv`),
so no conflict is left unclassified. `Truth` states an answer in terms of a row
that exists, which later inserts cannot make false; with unique event ids it
implies `AnswersAreTrue`. Assumed: what was stored before obeys the indexes.

**Payment intents.** Who has inserted a key and not committed is alone with it and
no record has it (`KeyInv`); so a commit adds one record and one intent, both new
(`CountInv`), and a record bears witness of every answer (`AnswerInv`). A request
that waited for an insert that rolled back inserts itself, one that waited for a
commit finds the record with its response: no 503 for want of either is answered.

**Queue holder.** `poisoned` stays set until the queue it is about is replaced or
taken out, so a call whose first add failed on the current queue is not handed
that queue again (`FailedOn`). Any number of publishers and queues.

**Worker process.** `IInv` joins the invariants of its two components with what
connects them: a batch runs exactly when the runner says so and a call of the
holder belongs to its current row (`BatchInv`); what is or will be committed as
`PUBLISHED` has had its job, which no step takes away without a trace (`JobInv`);
how far the shutdown is tells what has stopped (`PhaseInv`). The proof is
compositional. Every step of the process is a step of the runner and one of the
holder, or leaves them alone (`ComponentsMove`), and a restart begins with new
ones, so the components' invariants hold by the lemmas proved about them alone
(`RunnerNext`, and `NextInv` of the instantiated `QueueHolderProofs`), and their
promises hold in the process (`RunnerKeepsPromises`, `HolderKeepsPromises`). The
runner's own invariant: the cooldown and the time since the failure that set it
add up to the whole backoff, and cleared timers stay cleared. `RunnerAssumption`
is a hypothesis of the theorems about the runner alone; `WorkerShutdown` assumes
it of its instance, where TLC evaluates it.

**Log throttle.** Every error is in a line or in a pending count. The clock may be
set back and forward at any moment. The history variable `shift` adds up by how
much since the last line, so the clock has moved on by the time that has passed and
by `shift` (`ClockFollowsTime`). Hence a repeated error is logged exactly when the
interval has passed in real time, but for what the clock was set (`Spacing`).
`ThrottleAssumption` only gives the types of the constants. `LogThrottle` has no
run: its properties are proved.

**Hash migration.** Assumed: canonicalizing is idempotent. The first row of a
group of equal transactions exists (`LeastNatural`), so the plan of the statement
names exactly the rows that lack their canonical hash; the unique index keeps the
plan exact until the commit, and whatever gets in its way has arrived after the
snapshot. Its result is the `MigratedHashes` that `EventProcessor` starts from:
the proofs about the processor rest on what this one shows.

**Recursive functions.** The value of an amount, the walks over the causes of an
error and the canonical form of a JSON value are recursive functions over a range
of naturals: digits, links, levels of nesting. The library's induction theorems
take an operator as a parameter, which the provers cannot instantiate, so
`Induction` is stated for a *set* of naturals and derived from `LeastNatural`. That
such a function exists at all is part of the proof: `Recursion` and `Descent` show
it for steps that are functions, the `...ByLevel` lemmas for the levels of JSON
values, one level at a time.

**Amounts.** Assumed: the digits are digits and include 0, and the column has at
least one digit before the point (it has 18). `AmountInv` says what was written at
each step: the row is `Numeric` of what was sent, the responses are
`toCanonicalAmount` of it, and the verdict compares what `normalizeAmount` makes of
row and payment. The rest is about the conversions: cutting zeros at the front or
the end of a text keeps its value, and two texts without leading zeros have equal
values exactly when they differ in trailing zeros only (`EqualParts`, by induction
over the digits). So equality of the normalized texts, which is what the processor
looks at, is equality of the values.

**Error mapping.** Assumed: an `HttpException` has an error status, and the links
of an error lead to errors or to nothing. The code walks the links depth first, by
recursion with a depth; the property speaks of the errors within `MaxCauseDepth`
links, collected breadth first. `WalkSeesWithin` shows that a walk from depth d
sees what is at most `MaxCauseDepth - d` links away, in cyclic graphs too, so
`Collect` and `findCauseCode` see the same errors (`WalksAreExact`). One step
answers and logs; the two properties, with the type of the state, are inductive.

**Canonical JSON.** Assumed: different keys have different texts, integer-like ones
different numbers, and the inputs are nested at most `MaxNesting` levels
(`requestBodyGuardMiddleware` refuses bodies of more than 32 levels). The model of
`sort` and of property order is `InOrder`, which puts an element at the place given
by the number of elements before it; a strict total order has exactly one list in
order, and `InOrder` is it (`InOrderUnique`, `InOrderLists`). An object whose sorted
keys were inserted, and the text chosen for the set of its properties alone, are
both such lists, hence equal (`ObjectAgrees`). Induction over the levels extends
this to nested values: the text is a function of the meaning, and has that
meaning. Then two values have one text exactly when they mean the same
(`EqualTextsMeanTheSame`), which is what the comparisons of request and payload
hashes rely on.

**Body guard and string scan.** A node that is reached is on the stack, in hand or
visited; visited nodes are clean and their children reached; in a tree a node of
least depth that was not visited would have a visited parent. The scan never
stands behind a high surrogate, so its prefix is always well formed.

**Connection pool.** A queued request holds no connection and a running one holds
exactly one. A blocked request waits for one that has inserted and cannot be
blocked any more, and that one has its connection: so some holder can always go
on, whatever the size of the pool.

**Health checks.** Assumed: `NoClient` is no client and the number of outages is
bounded. `NoClientLeaks` is nearly inductive; `UpServicesPass` is not, because it
speaks of the answer only. `HealthInv` says why the answer cannot be a failure:
until `onModuleDestroy` every attempt to connect has its promise, and the promise
is that of the current client (`ClientInv`), so a check waits for the attempt of
the client it will send the PING to (`ProbeInv`); and a probe nothing has
disturbed uses the current client, a pool connection that is not broken, and
services that are up (`CleanInv`). A connection that stays in the pool never had a
query fail on it, since the code releases it with `release(true)` then. Until the module is destroyed, therefore, the
finally of an old attempt never drops the promise of a newer client, and a reset
never takes the client from an undisturbed probe.

TLC finds the inductive invariants true in every state of the runs' instances as
well, with these exceptions: of the outbox it checks `LocksInv` only (the type of a
batch ranges over sets it does not enumerate), in `pure_functions` the invariants
are those of the function being called, without the conjuncts that say that the
error graph and the JSON value, which no step changes, are among the inputs, and
the log throttle has no run.

Only model-checked: all liveness (`EveryEventDecided`, `EveryRequestAnswered`,
`ShutdownCompletes` and the like), since fairness and `ENABLED` are out of the
prover's reach. Every invariant and every action property of the runs, and the
refinement of `PaymentLedger`, has a proof.

## Not modelled

- **The other migrations.** They are sequences of DDL statements that run before
  the processes of a release; their locks and errors are PostgreSQL's. Rows,
  unique indexes and the amount column appear in the component models.
- **Correlation ids.** They are stored and passed along and decide nothing. The
  `correlation_id` of an outbox row is that of the request that was accepted, so a
  redelivery under another id is logged under its own, and the worker's lines
  carry the first one: only `webhookEventId` joins the two.
- **Clocks.** A row becomes due or stale at any moment after it was written, which
  includes any difference between the clocks of a process and the database; how
  long a skewed clock delays a row is not modelled, nor is the CHECK that
  `finished_at` does not precede `started_at`, beyond the rollback it causes.
- **Cryptography and the timestamp window**: one comparison each; their verdicts
  and the order of the checks are in `WebhookInbox`.
- **Operators' SQL repairs** of dead outbox rows, which no code performs.
- **Formatting and wiring**: log lines, redaction, wording of answers,
  configuration, OpenAPI, validation and rate limiting by libraries.
