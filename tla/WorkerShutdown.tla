---------------------------- MODULE WorkerShutdown ----------------------------
(***************************************************************************)
(* The worker process from start to exit: DispatcherRunner and QueueHolder *)
(* composed with the dispatch batch that connects them, the BullMQ worker, *)
(* the DataSource and the order in which Nest calls the shutdown hooks.    *)
(*                                                                         *)
(* Nest awaits every onModuleDestroy, then the onApplicationShutdown of    *)
(* the providers of WorkerModule (both started, then both awaited), then   *)
(* that of TypeOrmCoreModule.  So the timers still fire while the queue is *)
(* closing, and batches meet a holder that is already destroyed.           *)
(***************************************************************************)
EXTENDS Naturals, FiniteSets

CONSTANTS
  Rows,         \* accepted webhooks with their outbox rows
  NoRow,
  TheBatch,     \* the publisher of the holder: one batch runs at a time
  MaxQueues, MaxCooldown, MaxFailures,  \* see the two components
  MaxFaults,    \* bound on failing transactions, jobs and early requeues
  MaxRestarts   \* bound on the exits; the last process is not stopped

VARIABLES
  timers, inFlight, batches, inFlightRec, reconciles, failures, cooldown,
  elapsed, runnerShutdown,
  current, poisoned, recreate, holderShutdown, created, closed, pub,
  batch,      \* the transaction of dispatchBatch
  outbox,     \* committed status of every outbox row
  jobs,       \* rows with a job in Redis, the active one included
  exhausted,  \* rows whose job has failed its last attempt
  processed,  \* rows whose webhook event is decided
  active,     \* row of the job the BullMQ worker is running
  closing,    \* worker.close() has been called
  database,   \* the DataSource is initialised
  phase,      \* how far the shutdown is
  faults, restarts

runnerVars == <<timers, inFlight, batches, inFlightRec, reconciles, failures,
                cooldown, elapsed, runnerShutdown>>
holderVars == <<current, poisoned, recreate, holderShutdown, created, closed, pub>>
redisVars == <<jobs, exhausted>>
workerVars == <<active, closing, processed>>
processVars == <<phase, database, restarts>>

vars == <<runnerVars, holderVars, redisVars, workerVars, processVars, batch,
          outbox, faults>>

Runner == INSTANCE DispatcherRunner WITH shutdown <- runnerShutdown

Holder == INSTANCE QueueHolder WITH
  shutdown <- holderShutdown, Publishers <- {TheBatch}

ASSUME ShutdownAssumption ==
  /\ Runner!RunnerAssumption
  /\ MaxQueues \in Nat \ {0}
  /\ NoRow \notin Rows

\* todo: selected rows the loop has not come to; draft: what the transaction has
\* made of the rows it has locked.
NoBatch == [pc |-> "none", todo |-> {}, row |-> NoRow, draft |-> [r \in {} |-> "PENDING"]]

\* The first process has been started; what it finds in the database.
Init ==
  /\ Runner!Init
  /\ Holder!Init
  /\ batch = NoBatch
  /\ active = NoRow
  /\ closing = FALSE
  /\ database = "open"
  /\ phase = "running"
  /\ outbox = [r \in Rows |-> "PENDING"]
  /\ jobs = {}
  /\ exhausted = {}
  /\ processed = {}
  /\ faults = 0
  /\ restarts = 0

Alive == phase \notin {"exited", "killed"}

Fault == faults < MaxFaults /\ faults' = faults + 1

\* A statement fails: PostgreSQL is away, or the DataSource has been destroyed.
StatementFails ==
  /\ database = "open" => faults < MaxFaults
  /\ faults' = IF database = "open" THEN faults + 1 ELSE faults

Call == pub[TheBatch]

-----------------------------------------------------------------------------
(* The dispatch batch *)

StartBatch ==
  /\ Runner!DispatchOnce
  /\ batch' = [NoBatch EXCEPT !.pc = "select"]
  /\ UNCHANGED <<holderVars, redisVars, workerVars, processVars, outbox, faults>>

Pending == {r \in Rows : outbox[r] = "PENDING"}

\* Mutant of Retryable: a failed row is not selected any more.
RetryableNever == {}

Retryable == {r \in Rows : outbox[r] = "FAILED"}

\* findEligibleEvents; due: the failed rows whose next_attempt_at has passed.
FindEligibleEvents(due) ==
  /\ batch.pc = "select"
  /\ database = "open"
  /\ batch' = [pc |-> "publish", todo |-> Pending \cup due, row |-> NoRow,
               draft |-> [r \in Pending \cup due |-> outbox[r]]]
  /\ UNCHANGED <<runnerVars, holderVars, redisVars, workerVars, processVars, outbox, faults>>

\* The loop of dispatchBatch calls the publisher for its next row.
PublishNext ==
  /\ batch.pc = "publish"
  /\ batch.row = NoRow
  /\ \E r \in batch.todo :
       batch' = [batch EXCEPT !.row = r, !.todo = @ \ {r}]
  /\ Holder!Start(TheBatch)
  /\ UNCHANGED <<runnerVars, redisVars, workerVars, processVars, outbox, faults>>

\* The job reaches Redis.
AddJob ==
  /\ jobs' = jobs \cup {batch.row}
  /\ UNCHANGED exhausted

AddSucceeds ==
  /\ Holder!AddSucceeds(TheBatch)
  /\ AddJob
  /\ UNCHANGED <<runnerVars, workerVars, processVars, batch, outbox, faults>>

\* An add that fails may have reached Redis all the same.
AddFails ==
  /\ Holder!FirstAddFails(TheBatch) \/ Holder!RetryFails(TheBatch)
  /\ AddJob \/ UNCHANGED redisVars
  /\ UNCHANGED <<runnerVars, workerVars, processVars, batch, outbox, faults>>

HolderStep ==
  /\ \/ Holder!GetRetryQueue(TheBatch)
     \/ Holder!RunRecreate
     \/ Holder!DestroyResumes
  /\ UNCHANGED <<runnerVars, redisVars, workerVars, processVars, batch, outbox, faults>>

QueueError ==
  /\ \E queue \in 1..MaxQueues : Holder!ErrorEvent(queue)
  /\ UNCHANGED <<runnerVars, redisVars, workerVars, processVars, batch, outbox, faults>>

\* markWebhookQueued and markPublished.
RowPublished ==
  /\ Call.pc = "published"
  /\ database = "open"
  /\ batch' = [batch EXCEPT !.draft[batch.row] = "PUBLISHED", !.row = NoRow]
  /\ Holder!Return(TheBatch)
  /\ UNCHANGED <<runnerVars, redisVars, workerVars, processVars, outbox, faults>>

\* Mutant of RowFailed: the row was marked before the publish and stays so.
RowFailedStaysPublished ==
  /\ Call.pc = "failed"
  /\ database = "open"
  /\ batch' = [batch EXCEPT !.draft[batch.row] = "PUBLISHED", !.row = NoRow, !.todo = {}]
  /\ Holder!Return(TheBatch)
  /\ UNCHANGED <<runnerVars, redisVars, workerVars, processVars, outbox, faults>>

\* markTransientFailure, and the break that leaves the other rows alone.
RowFailed ==
  /\ Call.pc = "failed"
  /\ database = "open"
  /\ batch' = [batch EXCEPT !.draft[batch.row] = "FAILED", !.row = NoRow, !.todo = {}]
  /\ Holder!Return(TheBatch)
  /\ UNCHANGED <<runnerVars, redisVars, workerVars, processVars, outbox, faults>>

CommitBatch ==
  /\ batch.pc = "publish"
  /\ batch.row = NoRow
  /\ batch.todo = {}
  /\ database = "open"
  /\ outbox' = [r \in Rows |->
       IF r \in DOMAIN batch.draft THEN batch.draft[r] ELSE outbox[r]]
  /\ batch' = NoBatch
  /\ Runner!DispatchSucceeds
  /\ UNCHANGED <<holderVars, redisVars, workerVars, processVars, faults>>

\* The transaction rolls back: the handler of a failed update runs into the
\* aborted transaction as well.
BatchFails ==
  /\ \/ /\ Call.pc \in {"published", "failed"}
        /\ Holder!Return(TheBatch)
     \/ /\ batch.pc \in {"select", "publish"}
        /\ batch.row = NoRow
        /\ UNCHANGED holderVars
  /\ StatementFails
  /\ batch' = NoBatch
  /\ Runner!DispatchFails
  /\ UNCHANGED <<redisVars, workerVars, processVars, outbox>>

CooldownPasses ==
  /\ Runner!Tick
  /\ UNCHANGED <<holderVars, redisVars, workerVars, processVars, batch, outbox, faults>>

-----------------------------------------------------------------------------
(* Reconciliation *)

StartReconcile ==
  /\ Runner!ReconcileOnce
  /\ UNCHANGED <<holderVars, redisVars, workerVars, processVars, batch, outbox, faults>>

\* Published, undecided, and not locked by the transaction of a job.
Stale == {r \in Rows : outbox[r] = "PUBLISHED" /\ r \notin processed /\ r # active}

\* Requeues what the statement finds; early rows are those with a live job.
Reconcile(stale) ==
  /\ Runner!ReconcileEnds
  /\ database = "open"
  /\ outbox' = [r \in Rows |-> IF r \in stale THEN "FAILED" ELSE outbox[r]]
  /\ IF stale \subseteq exhausted THEN UNCHANGED faults ELSE Fault
  /\ UNCHANGED <<holderVars, redisVars, workerVars, processVars, batch>>

ReconcileFails ==
  /\ Runner!ReconcileEnds
  /\ StatementFails
  /\ UNCHANGED <<holderVars, redisVars, workerVars, processVars, batch, outbox>>

-----------------------------------------------------------------------------
(* The BullMQ worker *)

TakeJob ==
  /\ ~closing
  /\ active = NoRow
  /\ \E r \in jobs : active' = r
  /\ UNCHANGED <<runnerVars, holderVars, redisVars, closing, processed, processVars,
                 batch, outbox, faults>>

\* processJob commits; a job for a decided event changes nothing.
JobSucceeds ==
  /\ active # NoRow
  /\ database = "open"
  /\ processed' = processed \cup {active}
  /\ jobs' = jobs \ {active}
  /\ active' = NoRow
  /\ UNCHANGED <<runnerVars, holderVars, exhausted, closing, processVars,
                 batch, outbox, faults>>

\* The attempt fails; hasExhaustedAttempts says whether it was the last.
JobFails ==
  /\ active # NoRow
  /\ StatementFails
  /\ \/ UNCHANGED <<jobs, exhausted>>
     \/ /\ jobs' = jobs \ {active}
        /\ exhausted' = exhausted \cup {active}
  /\ active' = NoRow
  /\ UNCHANGED <<runnerVars, holderVars, closing, processed, processVars,
                 batch, outbox>>

-----------------------------------------------------------------------------
(* Shutdown, crash and restart *)

\* SIGTERM: the onModuleDestroy hooks are called.
CallModuleDestroy ==
  /\ phase = "running"
  /\ restarts < MaxRestarts
  /\ phase' = "destroy"
  /\ Holder!Destroy
  /\ UNCHANGED <<runnerVars, redisVars, workerVars, database, restarts, batch, outbox, faults>>

\* Mutant of CallApplicationShutdown: onModuleDestroy is not awaited.
CallApplicationShutdownAtOnce ==
  /\ phase = "destroy"
  /\ phase' = "shutdown"
  /\ Runner!Shutdown
  /\ closing' = TRUE
  /\ UNCHANGED <<holderVars, redisVars, active, processed, database, restarts,
                 batch, outbox, faults>>

\* The hooks of WorkerModule: both onApplicationShutdown are called.
CallApplicationShutdown ==
  /\ phase = "destroy"
  /\ holderShutdown = "done"
  /\ phase' = "shutdown"
  /\ Runner!Shutdown
  /\ closing' = TRUE
  /\ UNCHANGED <<holderVars, redisVars, active, processed, database, restarts,
                 batch, outbox, faults>>

RunnerStops ==
  /\ phase = "shutdown"
  /\ Runner!ShutdownDone
  /\ UNCHANGED <<holderVars, redisVars, workerVars, processVars, batch, outbox, faults>>

\* worker.close() has returned: it waits for the active job.
WorkerClosed == closing /\ active = NoRow

\* Mutant of DestroyDataSource: the promise of worker.close() is not awaited.
DestroyDataSourceEarly ==
  /\ phase = "shutdown"
  /\ runnerShutdown = "done"
  /\ database' = "closed"
  /\ phase' = "closed"
  /\ UNCHANGED <<runnerVars, holderVars, redisVars, workerVars, restarts, batch, outbox, faults>>

\* Both hooks have returned; TypeORM's own hook destroys the DataSource.
DestroyDataSource ==
  /\ phase = "shutdown"
  /\ runnerShutdown = "done"
  /\ WorkerClosed
  /\ database' = "closed"
  /\ phase' = "closed"
  /\ UNCHANGED <<runnerVars, holderVars, redisVars, workerVars, restarts, batch, outbox, faults>>

\* All hooks have returned: Nest ends the process.
Exit ==
  /\ phase = "closed"
  /\ phase' = "exited"
  /\ UNCHANGED <<runnerVars, holderVars, redisVars, workerVars, database, restarts,
                 batch, outbox, faults>>

\* A crash, or SIGKILL when the stop timeout is over: the transactions roll back.
Kill ==
  /\ restarts < MaxRestarts
  /\ phase' = "killed"
  /\ UNCHANGED <<runnerVars, holderVars, redisVars, workerVars, database, restarts,
                 batch, outbox, faults>>

\* The next process; the job that was active is stalled and handed out again.
Restart ==
  /\ ~Alive
  /\ restarts' = restarts + 1
  /\ timers' \in BOOLEAN
  /\ inFlight' = FALSE /\ batches' = 0
  /\ inFlightRec' = FALSE /\ reconciles' = 0
  /\ failures' = 0 /\ cooldown' = 0 /\ elapsed' = MaxCooldown
  /\ runnerShutdown' = "no"
  /\ current' = 1 /\ created' = 1 /\ closed' = {}
  /\ poisoned' = FALSE /\ recreate' = {}
  /\ holderShutdown' = "no"
  /\ pub' = [p \in {TheBatch} |-> Holder!Idle]
  /\ batch' = NoBatch
  /\ active' = NoRow
  /\ closing' = FALSE
  /\ database' = "open"
  /\ phase' = "running"
  /\ UNCHANGED <<outbox, jobs, exhausted, processed, faults>>

BatchStep ==
  \/ PublishNext \/ AddSucceeds \/ AddFails \/ RowPublished \/ RowFailed
  \/ CommitBatch \/ BatchFails

ShutdownStep ==
  \/ CallApplicationShutdown \/ RunnerStops \/ DestroyDataSource \/ Exit

Next ==
  \/ /\ Alive
     /\ \/ StartBatch \/ CooldownPasses \/ StartReconcile
        \/ \E due \in SUBSET Retryable : FindEligibleEvents(due)
        \/ BatchStep \/ HolderStep \/ QueueError
        \/ (\E stale \in SUBSET Stale : Reconcile(stale)) \/ ReconcileFails
        \/ TakeJob \/ JobSucceeds \/ JobFails
        \/ CallModuleDestroy \/ ShutdownStep \/ Kill
  \/ Restart

Spec == Init /\ [][Next]_vars

-----------------------------------------------------------------------------
(* Properties *)

\* A committed PUBLISHED row has work to show for it: its job is in Redis, has
\* run, or has failed its last attempt and is left to the reconciliation.  That
\* holds across publishes that meet a destroyed holder, adds whose answer is
\* lost, rollbacks, kills and restarts.
PublishedHasJob ==
  \A r \in Rows : outbox[r] = "PUBLISHED" => r \in jobs \cup processed \cup exhausted

\* The DataSource is destroyed under no batch, reconciliation or job, and none
\* starts afterwards.
DatabaseOutlivesWork ==
  Alive /\ database = "closed" =>
    batch = NoBatch /\ ~inFlight /\ ~inFlightRec /\ ~timers /\ active = NoRow

\* An orderly exit leaves no connection behind: every queue is closed although
\* one may have been under replacement when the shutdown began.
CleanExit == phase = "exited" => 1..created = closed /\ database = "closed"

\* Timers fire, calls are answered, hooks are called; a requeue of every stale
\* row and a batch over every failed row happen again and again (10 minutes and
\* at most 5 minutes after the row was last touched).
FairSpec ==
  /\ Spec
  /\ WF_vars(Alive /\ (StartBatch \/ CooldownPasses))
  /\ WF_vars(Alive /\ StartReconcile)
  /\ WF_vars(Alive /\ \E due \in SUBSET Retryable : FindEligibleEvents(due))
  /\ SF_vars(Alive /\ FindEligibleEvents(Retryable))
  /\ WF_vars(Alive /\ BatchStep)
  /\ WF_vars(Alive /\ HolderStep)
  /\ WF_vars(Alive /\ ((\E stale \in SUBSET Stale : Reconcile(stale)) \/ ReconcileFails))
  /\ SF_vars(Alive /\ Reconcile(Stale \cap exhausted))
  /\ WF_vars(Alive /\ TakeJob)
  /\ WF_vars(Alive /\ (JobSucceeds \/ JobFails))
  /\ WF_vars(Alive /\ CallApplicationShutdown)
  /\ WF_vars(Alive /\ RunnerStops)
  /\ WF_vars(Alive /\ DestroyDataSource)
  /\ WF_vars(Alive /\ Exit)
  /\ WF_vars(Restart)

\* SIGTERM leads to the exit whatever is in flight: neither a pending queue
\* replacement, a failing publish nor an active job can hold the hooks up.
ShutdownCompletes == phase = "destroy" ~> ~Alive

\* Whatever was cut off by orderly or forced exits, a later process with the
\* dispatcher enabled brings every accepted webhook to its decision.
EveryRowProcessed == <>[](Alive /\ timers) => <>(processed = Rows)
=============================================================================
