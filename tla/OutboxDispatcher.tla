--------------------------- MODULE OutboxDispatcher ---------------------------
(***************************************************************************)
(* The path from the transactional outbox to a decided webhook event:      *)
(* OutboxDispatcherService (dispatch and reconciliation), the BullMQ queue *)
(* it publishes to, and the workers that take jobs from it.                *)
(*                                                                         *)
(* Redis and PostgreSQL are not updated together: a batch publishes its    *)
(* jobs before its transaction commits, so a rollback or a crash leaves    *)
(* jobs without PUBLISHED rows, and a lost or exhausted job leaves a       *)
(* PUBLISHED row without work.  Every node is one worker process; it runs  *)
(* one dispatch batch and one job at a time, on separate connections.      *)
(*                                                                         *)
(* What the worker decides is the subject of EventProcessor; here a        *)
(* decided event is DONE.                                                  *)
(***************************************************************************)
EXTENDS Naturals, FiniteSets

CONSTANTS
  Rows,         \* outbox rows and their webhook events, numbered by created_at
  Nodes,        \* worker processes
  Malformed,    \* rows whose payload has no webhookEventId (written by hand)
  BatchSize,    \* rows per dispatch batch (50 in the code)
  RequeueLimit, \* rows per reconciliation (100 in the code)
  JobAttempts,  \* BullMQ attempts per job (5 in the code)
  MaxJobs,      \* bound on waiting jobs of a row
  MaxFaults     \* bound on failures of Redis, PostgreSQL and processes

ASSUME DispatcherAssumption ==
  /\ Rows \subseteq Nat
  /\ Malformed \subseteq Rows
  /\ BatchSize \in Nat \ {0}
  /\ RequeueLimit \in Nat \ {0}
  /\ JobAttempts \in Nat \ {0}
  /\ MaxJobs \in Nat
  /\ MaxFaults \in Nat

WebhookStatus == {"ABSENT", "RECEIVED", "QUEUED", "DONE"}

\* due: next_attempt_at is null or has passed; stale: published_at is more
\* than ten minutes old; dead: dead_at is set.
OutboxRow ==
  [status : {"PENDING", "PUBLISHED", "FAILED"}, attempts : Nat,
   due : BOOLEAN, stale : BOOLEAN, dead : BOOLEAN]

VARIABLES
  webhook,  \* webhook_events.status, committed
  outbox,   \* outbox_events, committed
  batch,    \* the dispatch transaction of each node
  jobs,     \* jobs[r][k]: waiting jobs of row r with k attempts made
  work,     \* the job each node's worker runs
  faults

vars == <<webhook, outbox, batch, jobs, work, faults>>

NewRow == [status |-> "PENDING", attempts |-> 0,
           due |-> TRUE, stale |-> FALSE, dead |-> FALSE]

\* rows: the rows the batch has locked, in their uncommitted version;
\* todo: those the loop has not reached; queued: the webhook rows it updated.
NoBatch == [pc |-> "idle", rows |-> [r \in {} |-> NewRow], todo |-> {}, queued |-> {}]

\* owned: BullMQ still considers the job active on this worker.
NoWork == [pc |-> "idle", row |-> 0, made |-> 0, owned |-> FALSE]

Init ==
  /\ webhook = [r \in Rows |-> "ABSENT"]
  /\ outbox = [r \in Rows |-> NewRow]
  /\ batch = [n \in Nodes |-> NoBatch]
  /\ jobs = [r \in Rows |-> [k \in 0..JobAttempts-1 |-> 0]]
  /\ work = [n \in Nodes |-> NoWork]
  /\ faults = 0

-----------------------------------------------------------------------------
(* Locks *)

OutboxLocked(r) == \E n \in Nodes : r \in DOMAIN batch[n].rows

\* A webhook row is locked by the worker that processes it and by the batch
\* that has marked it QUEUED.
WebhookLocked(r) ==
  \E n \in Nodes : \/ work[n].pc = "run" /\ work[n].row = r
                   \/ r \in batch[n].queued

Fault == faults < MaxFaults /\ faults' = faults + 1

-----------------------------------------------------------------------------
(* The API *)

\* The acceptance transaction inserts the webhook event and its outbox row.
Accept(r) ==
  /\ webhook[r] = "ABSENT"
  /\ webhook' = [webhook EXCEPT ![r] = "RECEIVED"]
  /\ outbox' = [outbox EXCEPT ![r] = NewRow]
  /\ UNCHANGED <<batch, jobs, work, faults>>

-----------------------------------------------------------------------------
(* dispatchBatch *)

\* Mutant of Eligible: dead rows are selected too.
EligibleIgnoresDead(r) ==
  /\ webhook[r] # "ABSENT"
  /\ \/ outbox[r].status = "PENDING"
     \/ outbox[r].status = "FAILED" /\ outbox[r].due
  /\ ~OutboxLocked(r)

Eligible(r) ==
  /\ webhook[r] # "ABSENT"
  /\ ~outbox[r].dead
  /\ \/ outbox[r].status = "PENDING"
     \/ outbox[r].status = "FAILED" /\ outbox[r].due
  /\ ~OutboxLocked(r)

\* The oldest rows, at most BatchSize of them.
Oldest(S) == {r \in S : Cardinality({q \in S : q < r}) < BatchSize}

\* findEligibleEvents: ORDER BY created_at LIMIT ... FOR UPDATE SKIP LOCKED.
FindEligibleEvents(n) ==
  /\ batch[n].pc = "idle"
  /\ LET selected == Oldest({r \in Rows : Eligible(r)}) IN
       /\ selected # {}
       /\ batch' = [batch EXCEPT ![n] =
                     [pc |-> "loop", rows |-> [r \in selected |-> outbox[r]],
                      todo |-> selected, queued |-> {}]]
  /\ UNCHANGED <<webhook, outbox, jobs, work, faults>>

\* The row the loop of node n is at.
IsCurrent(n, r) == r \in batch[n].todo /\ \A q \in batch[n].todo : r <= q

markPublished(row) ==
  [row EXCEPT !.status = "PUBLISHED", !.due = TRUE, !.stale = FALSE]

markTransientFailure(row) ==
  [row EXCEPT !.status = "FAILED", !.attempts = @ + 1, !.due = FALSE, !.dead = FALSE]

markNonRetryableFailure(row) ==
  [row EXCEPT !.status = "FAILED", !.attempts = @ + 1, !.due = TRUE, !.dead = TRUE]

\* toJobData finds a webhookEventId in the payload.
toJobData(r) == r \notin Malformed

\* toJobData throws: the row is dead, and the loop goes on.
Poison(n, r) ==
  /\ batch[n].pc = "loop"
  /\ IsCurrent(n, r)
  /\ ~toJobData(r)
  /\ batch' = [batch EXCEPT ![n].rows[r] = markNonRetryableFailure(@),
                            ![n].todo = @ \ {r}]
  /\ UNCHANGED <<webhook, outbox, jobs, work, faults>>

\* toJobData throws something else (a TypeError, for a payload that is the JSON
\* null): the row is tried again after its backoff, and the loop goes on.
JobDataFails(n, r) ==
  /\ batch[n].pc = "loop"
  /\ IsCurrent(n, r)
  /\ ~toJobData(r)
  /\ Fault
  /\ batch' = [batch EXCEPT ![n].rows[r] = markTransientFailure(@),
                            ![n].todo = @ \ {r}]
  /\ UNCHANGED <<webhook, outbox, jobs, work>>

AddJobs(r, k) ==
  /\ jobs[r][0] + k <= MaxJobs
  /\ jobs' = [jobs EXCEPT ![r][0] = @ + k]

\* publishProcessWebhookEvent: the queue holder tries the add, and once more
\* on a new connection if the first try failed.
Publish(n, r) ==
  /\ batch[n].pc = "loop"
  /\ IsCurrent(n, r)
  /\ toJobData(r)
  /\ AddJobs(r, 1)
  /\ batch' = [batch EXCEPT ![n].pc = "mark"]
  /\ UNCHANGED <<webhook, outbox, work, faults>>

\* The same, when the first add reached Redis but its answer did not arrive in
\* time: the retry adds the job a second time.
PublishTwice(n, r) ==
  /\ batch[n].pc = "loop"
  /\ IsCurrent(n, r)
  /\ toJobData(r)
  /\ Fault
  /\ AddJobs(r, 2)
  /\ batch' = [batch EXCEPT ![n].pc = "mark"]
  /\ UNCHANGED <<webhook, outbox, work>>

\* Both tries fail, each with or without having added the job: the row waits
\* for its backoff, and the rest of the batch for the next run.
PublishFails(n, r) ==
  /\ batch[n].pc = "loop"
  /\ IsCurrent(n, r)
  /\ toJobData(r)
  /\ Fault
  /\ \E k \in 0..2 : AddJobs(r, k)
  /\ batch' = [batch EXCEPT ![n].rows[r] = markTransientFailure(@),
                            ![n].todo = {}]
  /\ UNCHANGED <<webhook, outbox, work>>

\* Mutant of MarkPublished: the webhook row is left as it is.
MarkPublishedOnly(n, r) ==
  /\ batch[n].pc = "mark"
  /\ IsCurrent(n, r)
  /\ batch' = [batch EXCEPT ![n].pc = "loop",
                            ![n].rows[r] = markPublished(@),
                            ![n].todo = @ \ {r}]
  /\ UNCHANGED <<webhook, outbox, jobs, work, faults>>

\* Mutant of MarkPublished: the UPDATE of the webhook row has no condition on
\* its status.
MarkPublishedAnyStatus(n, r) ==
  /\ batch[n].pc = "mark"
  /\ IsCurrent(n, r)
  /\ ~WebhookLocked(r)
  /\ batch' = [batch EXCEPT ![n].pc = "loop",
                            ![n].rows[r] = markPublished(@),
                            ![n].todo = @ \ {r},
                            ![n].queued = @ \cup {r}]
  /\ UNCHANGED <<webhook, outbox, jobs, work, faults>>

\* markWebhookQueued and markPublished.  The UPDATE matches only a RECEIVED
\* row; it waits for the lock of such a row and then looks at it again.
MarkPublished(n, r) ==
  /\ batch[n].pc = "mark"
  /\ IsCurrent(n, r)
  /\ webhook[r] = "RECEIVED" => ~WebhookLocked(r)
  /\ batch' = [batch EXCEPT ![n].pc = "loop",
                            ![n].rows[r] = markPublished(@),
                            ![n].todo = @ \ {r},
                            ![n].queued = IF webhook[r] = "RECEIVED"
                                          THEN @ \cup {r} ELSE @]
  /\ UNCHANGED <<webhook, outbox, jobs, work, faults>>

CommitBatch(n) ==
  /\ batch[n].pc = "loop"
  /\ batch[n].todo = {}
  /\ outbox' = [r \in Rows |-> IF r \in DOMAIN batch[n].rows
                               THEN batch[n].rows[r] ELSE outbox[r]]
  /\ webhook' = [r \in Rows |-> IF r \in batch[n].queued
                                THEN "QUEUED" ELSE webhook[r]]
  /\ batch' = [batch EXCEPT ![n] = NoBatch]
  /\ UNCHANGED <<jobs, work, faults>>

\* A statement or the commit fails: nothing of the batch is stored, but the
\* jobs it published stay in Redis.
RollBackBatch(n) ==
  /\ batch[n].pc # "idle"
  /\ Fault
  /\ batch' = [batch EXCEPT ![n] = NoBatch]
  /\ UNCHANGED <<webhook, outbox, jobs, work>>

-----------------------------------------------------------------------------
(* reconcileStalePublishedEvents *)

\* Mutant of Reconcilable: only events that were never marked QUEUED.
ReconcilableIfReceived(r) ==
  /\ webhook[r] = "RECEIVED"
  /\ outbox[r].status = "PUBLISHED"
  /\ ~outbox[r].dead
  /\ outbox[r].stale
  /\ ~OutboxLocked(r)
  /\ ~WebhookLocked(r)

Reconcilable(r) ==
  /\ webhook[r] \in {"RECEIVED", "QUEUED"}
  /\ outbox[r].status = "PUBLISHED"
  /\ ~outbox[r].dead
  /\ outbox[r].stale
  /\ ~OutboxLocked(r)
  /\ ~WebhookLocked(r)

\* One UPDATE statement; which rows are oldest by published_at is left open.
Reconcile(S) ==
  /\ S # {}
  /\ \A r \in S : Reconcilable(r)
  /\ \/ Cardinality(S) = RequeueLimit
     \/ Cardinality(S) < RequeueLimit /\ \A r \in Rows \ S : ~Reconcilable(r)
  /\ outbox' = [r \in Rows |-> IF r \in S
                  THEN [outbox[r] EXCEPT !.status = "FAILED", !.due = TRUE]
                  ELSE outbox[r]]
  /\ UNCHANGED <<webhook, batch, jobs, work, faults>>

-----------------------------------------------------------------------------
(* BullMQ and the worker *)

TakeJob(n, r) ==
  /\ work[n].pc = "idle"
  /\ \E k \in 0..JobAttempts-1 :
       /\ jobs[r][k] > 0
       /\ jobs' = [jobs EXCEPT ![r][k] = @ - 1]
       /\ work' = [work EXCEPT ![n] =
                    [pc |-> "lock", row |-> r, made |-> k, owned |-> TRUE]]
  /\ UNCHANGED <<webhook, outbox, batch, faults>>

\* SELECT ... FOR UPDATE of the webhook event.
LockEvent(n) ==
  /\ work[n].pc = "lock"
  /\ ~WebhookLocked(work[n].row)
  /\ work' = [work EXCEPT ![n].pc = "run"]
  /\ UNCHANGED <<webhook, outbox, batch, jobs, faults>>

\* The transaction commits, and BullMQ drops the job.
Complete(n) ==
  /\ work[n].pc = "run"
  /\ webhook' = [webhook EXCEPT ![work[n].row] = "DONE"]
  /\ work' = [work EXCEPT ![n] = NoWork]
  /\ UNCHANGED <<outbox, batch, jobs, faults>>

\* The job returns to the queue with k attempts made, or is given up after
\* the last one; an outdated owner has no say.
Requeue(job, k) ==
  jobs' = IF job.owned /\ k < JobAttempts
          THEN [jobs EXCEPT ![job.row][k] = @ + 1] ELSE jobs

\* processWebhookEvent throws and rolls back.
JobFails(n) ==
  /\ work[n].pc # "idle"
  /\ Fault
  /\ Requeue(work[n], work[n].made + 1)
  /\ work' = [work EXCEPT ![n] = NoWork]
  /\ UNCHANGED <<webhook, outbox, batch>>

\* The worker runs on but has not renewed the lock of its job: BullMQ hands
\* the job to another worker.
Stall(n) ==
  /\ work[n].pc # "idle"
  /\ work[n].owned
  /\ Fault
  /\ Requeue(work[n], work[n].made)
  /\ work' = [work EXCEPT ![n].owned = FALSE]
  /\ UNCHANGED <<webhook, outbox, batch>>

\* The process dies with its batch and its job; BullMQ detects the stalled
\* job and requeues it, or gives it up if it had stalled before.
Crash(n) ==
  /\ batch[n].pc # "idle" \/ work[n].pc # "idle"
  /\ Fault
  /\ batch' = [batch EXCEPT ![n] = NoBatch]
  /\ work' = [work EXCEPT ![n] = NoWork]
  /\ Requeue(work[n], work[n].made) \/ UNCHANGED jobs
  /\ UNCHANGED <<webhook, outbox>>

\* Redis loses a waiting job (no persistence, a flush, an eviction).
LoseJob(r) ==
  /\ Fault
  /\ \E k \in 0..JobAttempts-1 :
       jobs[r][k] > 0 /\ jobs' = [jobs EXCEPT ![r][k] = @ - 1]
  /\ UNCHANGED <<webhook, outbox, batch, work>>

-----------------------------------------------------------------------------
(* Time *)

BackoffElapses(r) ==
  /\ outbox[r].status = "FAILED"
  /\ ~outbox[r].due
  /\ outbox' = [outbox EXCEPT ![r].due = TRUE]
  /\ UNCHANGED <<webhook, batch, jobs, work, faults>>

BecomesStale(r) ==
  /\ outbox[r].status = "PUBLISHED"
  /\ ~outbox[r].stale
  /\ webhook[r] # "DONE"
  /\ outbox' = [outbox EXCEPT ![r].stale = TRUE]
  /\ UNCHANGED <<webhook, batch, jobs, work, faults>>

BatchStep(n) ==
  \/ FindEligibleEvents(n)
  \/ \E r \in Rows : Poison(n, r) \/ Publish(n, r) \/ MarkPublished(n, r)
  \/ CommitBatch(n)

JobStep(n) == LockEvent(n) \/ Complete(n)

NodeFault(n) ==
  \/ \E r \in Rows : JobDataFails(n, r) \/ PublishTwice(n, r) \/ PublishFails(n, r)
  \/ RollBackBatch(n) \/ JobFails(n) \/ Stall(n) \/ Crash(n)

Next ==
  \/ \E r \in Rows : Accept(r) \/ BackoffElapses(r) \/ BecomesStale(r) \/ LoseJob(r)
  \/ \E n \in Nodes : BatchStep(n) \/ JobStep(n) \/ NodeFault(n)
  \/ \E n \in Nodes, r \in Rows : TakeJob(n, r)
  \/ \E S \in SUBSET Rows : Reconcile(S)

Spec == Init /\ [][Next]_vars

-----------------------------------------------------------------------------
(* Properties *)

Work == [pc : {"idle", "lock", "run"}, row : Rows \cup {0},
         made : 0..JobAttempts-1, owned : BOOLEAN]

\* Tables, transactions and queue are well formed; a batch only works on rows
\* it has locked.
TypeOK ==
  /\ webhook \in [Rows -> WebhookStatus]
  /\ outbox \in [Rows -> OutboxRow]
  /\ \A n \in Nodes :
       /\ DOMAIN batch[n] = {"pc", "rows", "todo", "queued"}
       /\ batch[n].pc \in {"idle", "loop", "mark"}
       /\ DOMAIN batch[n].rows \subseteq Rows
       /\ \A r \in DOMAIN batch[n].rows : batch[n].rows[r] \in OutboxRow
       /\ batch[n].todo \subseteq DOMAIN batch[n].rows
       /\ batch[n].queued \subseteq DOMAIN batch[n].rows
  /\ jobs \in [Rows -> [0..JobAttempts-1 -> Nat]]
  /\ work \in [Nodes -> Work]
  /\ faults \in 0..MaxFaults

\* The two tables are well formed and agree although workers and dispatchers
\* write them at the same time: a PUBLISHED row has a webhook event that is
\* QUEUED or decided, and an event is QUEUED only behind a row that has left
\* PENDING (dispatchBatch commits markWebhookQueued and markPublished together).
InboxAgreesWithOutbox ==
  /\ TypeOK
  /\ \A r \in Rows :
       /\ outbox[r].status = "PUBLISHED" => webhook[r] \in {"QUEUED", "DONE"}
       /\ webhook[r] = "QUEUED" => outbox[r].status \in {"PUBLISHED", "FAILED"}

\* The worker's result is final: no late batch, reconciliation or duplicate job
\* takes a decided event back.
DecidedStaysDecided ==
  [][\A r \in Rows : webhook[r] = "DONE" => webhook'[r] = "DONE"]_vars

\* attempts counts failed publishes one by one: a step changes it by one and
\* with a failure, so no concurrent batch loses or repeats a count, and a dead
\* row is never touched again.
FailuresCountedOnce ==
  [][\A r \in Rows :
       /\ outbox'[r].attempts # outbox[r].attempts =>
            /\ outbox'[r].attempts = outbox[r].attempts + 1
            /\ outbox'[r].status = "FAILED"
            /\ outbox[r].status # "PUBLISHED"
       /\ outbox[r].dead => outbox'[r] = outbox[r]]_vars

-----------------------------------------------------------------------------
(* Liveness *)

\* The timers of a node keep firing, a started batch or job goes on, and time
\* passes.  BullMQ serves its wait list in order, so a job that waits is taken
\* although the workers are busy again and again with others.
Fairness ==
  /\ \A n \in Nodes : WF_vars(BatchStep(n)) /\ WF_vars(JobStep(n))
  /\ \A r \in Rows : SF_vars(\E n \in Nodes : TakeJob(n, r))
  /\ \A r \in Rows : WF_vars(BackoffElapses(r)) /\ WF_vars(BecomesStale(r))
  /\ WF_vars(\E S \in SUBSET Rows : Reconcile(S))

FairSpec == Spec /\ Fairness

\* No accepted webhook is lost: once Redis, PostgreSQL and the processes stop
\* failing, every accepted event is decided, whichever jobs were lost,
\* exhausted or stranded by a rollback, and whatever malformed rows lie before
\* it in the outbox.
AcceptedIsDecided ==
  \A r \in Rows \ Malformed : webhook[r] = "RECEIVED" ~> webhook[r] = "DONE"
=============================================================================
