-------------------------- MODULE WorkerShutdownProofs --------------------------
(***************************************************************************)
(* The worker process: what its runner promises alone and with the rest of *)
(* the process, and that shutdowns, crashes and restarts leave no          *)
(* connection open, no database closed under work and no published row     *)
(* without a job, for any number of rows, failures and restarts.           *)
(***************************************************************************)
EXTENDS WorkerShutdown, Integers, TLAPS

\* The throttle of the error lines of the process, see LogThrottle.
CONSTANTS Keys, Interval, MaxTime, MaxSteps, MaxErrors

VARIABLES
  lastEmittedAt, suppressedCounts, degraded, clock, time, steps, seen, lines,
  reported, failing, announced, lineTime, shift

Throttle == INSTANCE LogThrottle

-----------------------------------------------------------------------------
(* The runner *)

\* A cooldown is a natural number up to its limit.
LEMMA CooldownType ==
  ASSUME Runner!RunnerAssumption, NEW n \in 1..MaxFailures
  PROVE  Runner!calculateCooldown(n) \in 0..MaxCooldown
<1>1. 2^(n - 1) \in Nat /\ MaxCooldown \in Nat
  BY DEF Runner!RunnerAssumption
<1> QED  BY <1>1 DEF Runner!calculateCooldown, Runner!Least

\* A cooldown and the time since the failure that set it add up to the whole of
\* it; timers that are cleared stay cleared.
RunnerInv ==
  /\ Runner!TypeOK
  /\ failures > 0 => elapsed + cooldown >= Runner!calculateCooldown(failures)
  /\ runnerShutdown # "no" => ~timers
  /\ Runner!QuietAfterShutdown

\* The first state of a runner.
LEMMA RunnerInit ==
  ASSUME Runner!RunnerAssumption, Runner!Init
  PROVE  RunnerInv
<1>0. MaxCooldown \in Nat /\ MaxFailures \in Nat \ {0}
  BY DEF Runner!RunnerAssumption
<1>1. /\ failures \in 0..MaxFailures /\ cooldown \in 0..MaxCooldown /\ elapsed \in 0..MaxCooldown
      /\ batches = 0 /\ reconciles = 0 /\ ~(failures > 0)
  BY <1>0 DEF Runner!Init
<1>2. Runner!TypeOK
  BY <1>1, Zenon DEF Runner!Init, Runner!TypeOK
<1> QED  BY <1>1, <1>2 DEF Runner!Init, RunnerInv, Runner!QuietAfterShutdown

\* Every step of the runner keeps the invariant.
LEMMA RunnerNext ==
  ASSUME Runner!RunnerAssumption, RunnerInv, [Runner!Next]_(Runner!vars)
  PROVE  RunnerInv'
<1>0. MaxCooldown \in Nat /\ MaxFailures \in Nat \ {0}
  BY DEF Runner!RunnerAssumption
<1>1. /\ Runner!TypeOK
      /\ failures > 0 => Runner!calculateCooldown(failures) \in 0..MaxCooldown
  BY <1>0, CooldownType DEF RunnerInv, Runner!TypeOK
<1>2. CASE Runner!DispatchOnce
  <2>1. batches' = 1
    BY <1>1, <1>2 DEF Runner!DispatchOnce, Runner!TypeOK
  <2>2. Runner!TypeOK'
    BY <1>1, <1>2, <2>1, Zenon DEF Runner!DispatchOnce, Runner!TypeOK
  <2> QED  BY <1>2, <2>2 DEF Runner!DispatchOnce, RunnerInv, Runner!QuietAfterShutdown
<1>3. CASE Runner!DispatchSucceeds
  <2>1. batches' = 0 /\ failures' \in 0..MaxFailures /\ cooldown' \in 0..MaxCooldown
    BY <1>1, <1>3, <1>0 DEF Runner!DispatchSucceeds, Runner!TypeOK
  <2>2. Runner!TypeOK'
    BY <1>1, <1>3, <2>1, Zenon DEF Runner!DispatchSucceeds, Runner!TypeOK
  <2> QED  BY <1>3, <2>1, <2>2 DEF Runner!DispatchSucceeds, RunnerInv, Runner!QuietAfterShutdown
<1>4. CASE Runner!DispatchFails
  <2>1. failures' \in 1..MaxFailures
    BY <1>1, <1>4, <1>0 DEF Runner!DispatchFails, Runner!TypeOK, Runner!Least
  <2>2. Runner!calculateCooldown(failures') \in 0..MaxCooldown
    BY <2>1, CooldownType
  <2>3. batches' = 0 /\ elapsed' \in 0..MaxCooldown /\ failures' \in 0..MaxFailures
    BY <1>1, <1>4, <2>1, <1>0 DEF Runner!DispatchFails, Runner!TypeOK
  <2>4. Runner!TypeOK'
    BY <1>1, <1>4, <2>2, <2>3, Zenon DEF Runner!DispatchFails, Runner!TypeOK
  <2>5. elapsed' + cooldown' >= Runner!calculateCooldown(failures')
    BY <1>4, <2>2, <1>0 DEF Runner!DispatchFails
  <2> QED  BY <1>4, <2>3, <2>4, <2>5 DEF Runner!DispatchFails, RunnerInv,
                                         Runner!QuietAfterShutdown
<1>5. CASE Runner!Tick
  BY <1>1, <1>5, <1>0 DEF Runner!Tick, RunnerInv, Runner!TypeOK, Runner!QuietAfterShutdown,
                          Runner!Least
<1>6. CASE Runner!ReconcileOnce
  <2>1. reconciles' = 1
    BY <1>1, <1>6 DEF Runner!ReconcileOnce, Runner!TypeOK
  <2>2. Runner!TypeOK'
    BY <1>1, <1>6, <2>1, Zenon DEF Runner!ReconcileOnce, Runner!TypeOK
  <2> QED  BY <1>6, <2>2 DEF Runner!ReconcileOnce, RunnerInv, Runner!QuietAfterShutdown
<1>7. CASE Runner!ReconcileEnds
  <2>1. reconciles' = 0
    BY <1>1, <1>7 DEF Runner!ReconcileEnds, Runner!TypeOK
  <2>2. Runner!TypeOK'
    BY <1>1, <1>7, <2>1, Zenon DEF Runner!ReconcileEnds, Runner!TypeOK
  <2> QED  BY <1>7, <2>2, <2>1 DEF Runner!ReconcileEnds, RunnerInv, Runner!QuietAfterShutdown
<1>8. CASE Runner!Shutdown
  BY <1>1, <1>8, <1>0, Zenon DEF Runner!Shutdown, RunnerInv, Runner!TypeOK,
                                 Runner!QuietAfterShutdown
<1>9. CASE Runner!ShutdownDone
  BY <1>1, <1>9, <1>0 DEF Runner!ShutdownDone, RunnerInv, Runner!TypeOK,
                          Runner!QuietAfterShutdown
<1>10. CASE UNCHANGED Runner!vars
  BY <1>10 DEF Runner!vars, RunnerInv, Runner!TypeOK, Runner!QuietAfterShutdown
<1> QED
  BY <1>2, <1>3, <1>4, <1>5, <1>6, <1>7, <1>8, <1>9, <1>10 DEF Runner!Next

\* The invariant of the runner holds at all times.
LEMMA RunnerInvariance ==
  ASSUME Runner!RunnerAssumption
  PROVE  Runner!Spec => []RunnerInv
<1>1. Runner!Init => RunnerInv
  BY RunnerInit
<1>2. RunnerInv /\ [Runner!Next]_(Runner!vars) => RunnerInv'
  BY RunnerNext
<1> QED  BY <1>1, <1>2, PTL DEF Runner!Spec

\* inFlightDispatch and inFlightReconcile tell what is really running, so that
\* there is never more than one batch and one reconciliation.
THEOREM GuardsTellTheTruth ==
  ASSUME Runner!RunnerAssumption
  PROVE  Runner!Spec => []Runner!TypeOK
<1>1. RunnerInv => Runner!TypeOK
  BY DEF RunnerInv
<1> QED  BY <1>1, RunnerInvariance, PTL

\* When onApplicationShutdown has returned, nothing runs and nothing will.
THEOREM ShutdownIsQuiet ==
  ASSUME Runner!RunnerAssumption
  PROVE  Runner!Spec => []Runner!QuietAfterShutdown
<1>1. RunnerInv => Runner!QuietAfterShutdown
  BY DEF RunnerInv
<1> QED  BY <1>1, RunnerInvariance, PTL

\* A batch starts only when the cooldown of the last failure is over.
LEMMA BackoffStep ==
  ASSUME Runner!RunnerAssumption, RunnerInv, [Runner!Next]_(Runner!vars),
         batches' > batches, failures > 0
  PROVE  elapsed >= Runner!calculateCooldown(failures)
<1>1. Runner!TypeOK /\ elapsed + cooldown >= Runner!calculateCooldown(failures)
  BY DEF RunnerInv
<1>2. MaxCooldown \in Nat /\ Runner!calculateCooldown(failures) \in 0..MaxCooldown
  BY <1>1, CooldownType DEF Runner!TypeOK, Runner!RunnerAssumption
<1>3. cooldown = 0
  BY <1>1 DEF Runner!Next, Runner!DispatchOnce, Runner!DispatchSucceeds,
              Runner!DispatchFails, Runner!Tick, Runner!ReconcileOnce,
              Runner!ReconcileEnds, Runner!Shutdown, Runner!ShutdownDone, Runner!TypeOK,
              Runner!vars
<1> QED  BY <1>1, <1>2, <1>3 DEF Runner!TypeOK

\* dispatchOnce starts no batch before the cooldown of the last failure is over.
THEOREM BackoffKept ==
  ASSUME Runner!RunnerAssumption
  PROVE  Runner!Spec => Runner!BackoffIsKept
<1>1. RunnerInv /\ [Runner!Next]_(Runner!vars) =>
        [batches' > batches /\ failures > 0
           => elapsed >= Runner!calculateCooldown(failures)]_(Runner!vars)
  BY BackoffStep
<1> QED  BY <1>1, RunnerInvariance, PTL DEF Runner!Spec, Runner!BackoffIsKept

-----------------------------------------------------------------------------
(* The process *)

HolderProofs == INSTANCE QueueHolderProofs WITH
  shutdown <- holderShutdown, Publishers <- {TheBatch}

\* What the transaction of a batch may have made of some of the rows.
Drafts == UNION {[S -> {"PENDING", "PUBLISHED", "FAILED"}] : S \in SUBSET Rows}

Batch == [pc : {"none", "select", "publish"}, todo : SUBSET Rows, row : Rows \cup {NoRow},
          draft : Drafts]

\* A batch runs when the runner says so, and a call of the holder belongs to the
\* row the batch is at.
BatchInv ==
  /\ batch \in Batch
  /\ inFlight <=> batch.pc # "none"
  /\ batch.pc = "none" => batch = NoBatch
  /\ batch.row = NoRow <=> Call.pc = "idle"
  /\ batch.row # NoRow => batch.pc = "publish"

\* Rows with a job now or at some time before; none is ever taken out.
Worked == jobs \cup processed \cup exhausted

JobInv ==
  /\ outbox \in [Rows -> {"PENDING", "PUBLISHED", "FAILED"}]
  /\ PublishedHasJob
  /\ \A r \in DOMAIN batch.draft : batch.draft[r] = "PUBLISHED" => r \in Worked
  /\ Call.pc = "published" => batch.row \in Worked

\* How far the shutdown is tells what has stopped.
PhaseInv ==
  /\ phase \in {"running", "destroy", "shutdown", "closed", "exited", "killed"}
  /\ phase \in {"shutdown", "closed", "exited"} =>
       holderShutdown = "done" /\ runnerShutdown # "no" /\ closing
  /\ phase \in {"closed", "exited"} =>
       runnerShutdown = "done" /\ active = NoRow /\ database = "closed"
  /\ database = "closed" => phase \in {"closed", "exited", "killed"}

\* The inductive invariant.
IInv == RunnerInv /\ HolderProofs!IInv /\ BatchInv /\ JobInv /\ PhaseInv

\* The assumptions of the components.
LEMMA Assumptions ==
  /\ Runner!RunnerAssumption /\ HolderProofs!HolderAssumption /\ NoRow \notin Rows
  BY ShutdownAssumption DEF HolderProofs!HolderAssumption

\* The first state of a process satisfies the invariants of the components, be it
\* the first process or a restarted one.
LEMMA ComponentsInit ==
  /\ Runner!Init => RunnerInv
  /\ HolderProofs!Init => HolderProofs!IInv
  BY Assumptions, RunnerInit, HolderProofs!InitInv

\* The same of the state after a step.
LEMMA ComponentsRestart ==
  /\ Runner!Init' => RunnerInv'
  /\ HolderProofs!Init' => HolderProofs!IInv'
  BY ComponentsInit, PTL

\* The steps of the holder in this process are the steps its proofs are about.
LEMMA HolderAgrees ==
  /\ Holder!Init <=> HolderProofs!Init
  /\ Holder!Idle = HolderProofs!Idle
  /\ Holder!Start(TheBatch) <=> HolderProofs!Start(TheBatch)
  /\ Holder!AddSucceeds(TheBatch) <=> HolderProofs!AddSucceeds(TheBatch)
  /\ Holder!FirstAddFails(TheBatch) <=> HolderProofs!FirstAddFails(TheBatch)
  /\ Holder!GetRetryQueue(TheBatch) <=> HolderProofs!GetRetryQueue(TheBatch)
  /\ Holder!RetryFails(TheBatch) <=> HolderProofs!RetryFails(TheBatch)
  /\ Holder!Return(TheBatch) <=> HolderProofs!Return(TheBatch)
  /\ Holder!RunRecreate <=> HolderProofs!RunRecreate
  /\ Holder!Destroy <=> HolderProofs!Destroy
  /\ Holder!DestroyResumes <=> HolderProofs!DestroyResumes
  /\ \A queue \in 1..MaxQueues :
       Holder!ErrorEvent(queue) <=> queue \in HolderProofs!Queues /\ HolderProofs!ErrorEvent(queue)
<1>1. /\ Holder!Idle = HolderProofs!Idle /\ Holder!NoQueue = HolderProofs!NoQueue
      /\ (Holder!destroyed <=> HolderProofs!destroyed)
      /\ (Holder!Healthy <=> HolderProofs!Healthy)
      /\ (Holder!MayFail <=> HolderProofs!MayFail)
  BY DEF Holder!Idle, HolderProofs!Idle, Holder!NoQueue, HolderProofs!NoQueue,
         Holder!destroyed, HolderProofs!destroyed, Holder!Healthy, HolderProofs!Healthy,
         Holder!MayFail, HolderProofs!MayFail
<1>2. Holder!Init <=> HolderProofs!Init
  BY <1>1 DEF Holder!Init, HolderProofs!Init
<1>3. \A pc, queue : Holder!Go(TheBatch, pc, queue) <=> HolderProofs!Go(TheBatch, pc, queue)
  BY DEF Holder!Go, HolderProofs!Go
<1>4. \A queue : /\ Holder!RecreateQueue(queue) <=> HolderProofs!RecreateQueue(queue)
                 /\ Holder!MarkPoisoned(queue) <=> HolderProofs!MarkPoisoned(queue)
                 /\ Holder!AlreadyReplaced(queue) <=> HolderProofs!AlreadyReplaced(queue)
  BY DEF Holder!RecreateQueue, HolderProofs!RecreateQueue, Holder!MarkPoisoned,
         HolderProofs!MarkPoisoned, Holder!AlreadyReplaced, HolderProofs!AlreadyReplaced,
         Holder!NoQueue, HolderProofs!NoQueue
<1>5. \A use, wait : Holder!GetHealthyQueueForPublish(TheBatch, use, wait)
                     <=> HolderProofs!GetHealthyQueueForPublish(TheBatch, use, wait)
  BY <1>1, <1>3, <1>4, Zenon
     DEF Holder!GetHealthyQueueForPublish, HolderProofs!GetHealthyQueueForPublish
<1>6. /\ Holder!Start(TheBatch) <=> HolderProofs!Start(TheBatch)
      /\ Holder!GetRetryQueue(TheBatch) <=> HolderProofs!GetRetryQueue(TheBatch)
  BY <1>5, Zenon DEF Holder!Start, HolderProofs!Start, Holder!GetRetryQueue,
                     HolderProofs!GetRetryQueue
<1>7. Holder!AddSucceeds(TheBatch) <=> HolderProofs!AddSucceeds(TheBatch)
  BY <1>1, <1>3, Zenon DEF Holder!AddSucceeds, HolderProofs!AddSucceeds
<1>8. Holder!FirstAddFails(TheBatch) <=> HolderProofs!FirstAddFails(TheBatch)
  BY <1>1, <1>3, <1>4, Zenon DEF Holder!FirstAddFails, HolderProofs!FirstAddFails
<1>9. Holder!RetryFails(TheBatch) <=> HolderProofs!RetryFails(TheBatch)
  BY <1>1, <1>3, <1>4, Zenon DEF Holder!RetryFails, HolderProofs!RetryFails
<1>10. Holder!Return(TheBatch) <=> HolderProofs!Return(TheBatch)
  BY <1>1, Zenon DEF Holder!Return, HolderProofs!Return
<1>11. Holder!RunRecreate <=> HolderProofs!RunRecreate
  <2>1. \A outcome : Holder!Settle(outcome) <=> HolderProofs!Settle(outcome)
    BY Zenon DEF Holder!Settle, HolderProofs!Settle, Holder!NoQueue, HolderProofs!NoQueue
  <2>2. Holder!ReplaceQueue <=> HolderProofs!ReplaceQueue
    BY <1>1, Zenon DEF Holder!ReplaceQueue, HolderProofs!ReplaceQueue
  <2> QED
    BY <1>1, <1>4, <2>1, <2>2, Zenon DEF Holder!RunRecreate, HolderProofs!RunRecreate
<1>12. /\ Holder!Destroy <=> HolderProofs!Destroy
       /\ Holder!DestroyResumes <=> HolderProofs!DestroyResumes
  <2>1. Holder!CloseCurrent <=> HolderProofs!CloseCurrent
    BY <1>1, Zenon DEF Holder!CloseCurrent, HolderProofs!CloseCurrent
  <2> QED
    BY <2>1, Zenon DEF Holder!Destroy, HolderProofs!Destroy, Holder!DestroyResumes,
                       HolderProofs!DestroyResumes
<1>13. ASSUME NEW queue \in 1..MaxQueues
       PROVE  Holder!ErrorEvent(queue)
              <=> queue \in HolderProofs!Queues /\ HolderProofs!ErrorEvent(queue)
  BY <1>1, <1>4, Zenon DEF Holder!ErrorEvent, HolderProofs!ErrorEvent, HolderProofs!Queues
<1> QED
  BY <1>1, <1>2, <1>6, <1>7, <1>8, <1>9, <1>10, <1>11, <1>12, <1>13, Zenon

\* Every step of the process is a step of the runner and of the holder, or leaves
\* them alone; but for a restart, which begins with new ones.
LEMMA ComponentsMove ==
  ASSUME Next, ~Restart
  PROVE  [Runner!Next]_(Runner!vars) /\ [HolderProofs!Next]_(HolderProofs!vars)
<1> USE DEF Runner!vars, runnerVars
<1>1. /\ UNCHANGED runnerVars => [Runner!Next]_(Runner!vars)
      /\ UNCHANGED holderVars => [HolderProofs!Next]_(HolderProofs!vars)
  BY DEF holderVars, HolderProofs!vars
<1>2. TheBatch \in {TheBatch}
  OBVIOUS
<1>3. /\ \/ Holder!Start(TheBatch) \/ Holder!AddSucceeds(TheBatch)
         \/ Holder!FirstAddFails(TheBatch) \/ Holder!GetRetryQueue(TheBatch)
         \/ Holder!RetryFails(TheBatch) \/ Holder!Return(TheBatch)
         \/ Holder!RunRecreate \/ Holder!Destroy \/ Holder!DestroyResumes
      => HolderProofs!Next
  BY <1>2, HolderAgrees, Zenon DEF HolderProofs!Next, HolderProofs!PublishStep
<1>4. ASSUME NEW queue \in 1..MaxQueues, Holder!ErrorEvent(queue)
      PROVE  HolderProofs!Next
  BY <1>4, HolderAgrees, Zenon DEF HolderProofs!Next
<1>5. CASE StartBatch \/ CooldownPasses \/ StartReconcile
  BY <1>1, <1>5, Zenon DEF StartBatch, CooldownPasses, StartReconcile, Runner!Next
<1>6. CASE (\E due \in SUBSET Retryable : FindEligibleEvents(due))
           \/ TakeJob \/ JobSucceeds \/ JobFails \/ DestroyDataSource \/ Exit \/ Kill
  BY <1>1, <1>6, Zenon DEF FindEligibleEvents, TakeJob, JobSucceeds, JobFails,
                           DestroyDataSource, Exit, Kill
<1>7. CASE PublishNext \/ AddSucceeds \/ AddFails \/ HolderStep
  BY <1>1, <1>3, <1>7, Zenon DEF PublishNext, AddSucceeds, AddFails, HolderStep
<1>8. CASE QueueError \/ CallModuleDestroy
  BY <1>1, <1>3, <1>4, <1>8, Zenon DEF QueueError, CallModuleDestroy
<1>9. CASE RowPublished \/ RowFailed
  BY <1>1, <1>3, <1>9, Zenon DEF RowPublished, RowFailed
<1>10. CASE CommitBatch \/ BatchFails
  BY <1>1, <1>3, <1>10, Zenon DEF CommitBatch, BatchFails, Runner!Next
<1>11. CASE (\E stale \in SUBSET Stale : Reconcile(stale)) \/ ReconcileFails
  BY <1>1, <1>11, Zenon DEF Reconcile, ReconcileFails, Runner!Next
<1>12. CASE CallApplicationShutdown \/ RunnerStops
  BY <1>1, <1>12, Zenon DEF CallApplicationShutdown, RunnerStops, Runner!Next
<1> QED
  BY <1>5, <1>6, <1>7, <1>8, <1>9, <1>10, <1>11, <1>12, Zenon DEF Next, BatchStep, ShutdownStep

\* A restart finds what a first start finds, but for the database and Redis.
LEMMA RestartFacts ==
  ASSUME Restart
  PROVE  Runner!Init' /\ HolderProofs!Init'
<1>1. Runner!Init'
  BY Zenon DEF Restart, Runner!Init
<1>2. HolderProofs!Init'
  BY HolderAgrees, Zenon DEF Restart, HolderProofs!Init
<1> QED
  BY <1>1, <1>2

\* So the components keep their invariants in the process.
LEMMA ComponentsInv ==
  ASSUME RunnerInv, HolderProofs!IInv, [Next]_vars
  PROVE  RunnerInv' /\ HolderProofs!IInv'
<1>1. CASE Restart
  BY <1>1, RestartFacts, ComponentsRestart
<1>2. CASE Next /\ ~Restart
  <2>1. [Runner!Next]_(Runner!vars) /\ [HolderProofs!Next]_(HolderProofs!vars)
    BY <1>2, ComponentsMove
  <2> QED
    BY <2>1, Assumptions, RunnerNext, HolderProofs!NextInv
<1>3. CASE UNCHANGED vars
  <2>1. [Runner!Next]_(Runner!vars) /\ [HolderProofs!Next]_(HolderProofs!vars)
    BY <1>3, Zenon DEF vars, runnerVars, holderVars, Runner!vars, HolderProofs!vars
  <2> QED
    BY <2>1, Assumptions, RunnerNext, HolderProofs!NextInv
<1> QED
  BY <1>1, <1>2, <1>3

-----------------------------------------------------------------------------
(* The batch, the rows and the phases *)

\* What a step has to show for each part of the invariant when it leaves the batch
\* or the phase alone.
LEMMA BatchKept ==
  ASSUME BatchInv, batch' = batch, inFlight' = inFlight,
         pub'[TheBatch].pc = "idle" <=> pub[TheBatch].pc = "idle"
  PROVE  BatchInv'
  BY DEF BatchInv, Call

\* The rows and their jobs, when the step changes neither batch nor outbox.
LEMMA JobsKept ==
  ASSUME JobInv, batch' = batch, outbox' = outbox, Worked \subseteq Worked',
         pub'[TheBatch].pc = "published" => pub[TheBatch].pc = "published"
  PROVE  JobInv'
<1>1. /\ PublishedHasJob'
      /\ \A r \in DOMAIN batch'.draft : batch'.draft[r] = "PUBLISHED" => r \in Worked'
  BY DEF JobInv, PublishedHasJob, Worked
<1> QED
  BY <1>1 DEF JobInv, Call

\* The phase, when no hook is called.
LEMMA PhaseKept ==
  ASSUME PhaseInv, UNCHANGED <<phase, database, closing>>,
         holderShutdown = "done" => holderShutdown' = "done",
         runnerShutdown # "no" => runnerShutdown' # "no",
         runnerShutdown = "done" => runnerShutdown' = "done",
         active' = active \/ phase \notin {"closed", "exited"}
  PROVE  PhaseInv'
  BY DEF PhaseInv

\* What the holder tells the batch.
LEMMA CallFacts ==
  ASSUME HolderProofs!IInv
  PROVE  /\ Holder!Start(TheBatch) => pub'[TheBatch].pc \notin {"idle", "published"}
         /\ Holder!AddSucceeds(TheBatch) =>
              pub'[TheBatch].pc = "published" /\ pub[TheBatch].pc \in {"add", "retry"}
         /\ Holder!Return(TheBatch) =>
              pub'[TheBatch].pc = "idle" /\ pub[TheBatch].pc \in {"published", "failed"}
         /\ \/ Holder!FirstAddFails(TheBatch) \/ Holder!GetRetryQueue(TheBatch)
            \/ Holder!RetryFails(TheBatch) \/ Holder!RunRecreate
            => /\ pub'[TheBatch].pc = "idle" <=> pub[TheBatch].pc = "idle"
               /\ pub'[TheBatch].pc = "published" => pub[TheBatch].pc = "published"
         /\ \/ Holder!Start(TheBatch) \/ Holder!AddSucceeds(TheBatch)
            \/ Holder!FirstAddFails(TheBatch) \/ Holder!GetRetryQueue(TheBatch)
            \/ Holder!RetryFails(TheBatch) \/ Holder!Return(TheBatch)
            \/ Holder!RunRecreate
            => holderShutdown' = holderShutdown
<1>1. TheBatch \in {TheBatch}
  OBVIOUS
<1>2. holderShutdown' = holderShutdown
      \/ ~(\/ Holder!Start(TheBatch) \/ Holder!AddSucceeds(TheBatch)
           \/ Holder!FirstAddFails(TheBatch) \/ Holder!GetRetryQueue(TheBatch)
           \/ Holder!RetryFails(TheBatch) \/ Holder!Return(TheBatch)
           \/ Holder!RunRecreate)
  BY Zenon DEF Holder!Start, Holder!AddSucceeds, Holder!FirstAddFails, Holder!GetRetryQueue,
               Holder!RetryFails, Holder!Return, Holder!RunRecreate
<1> QED
  BY <1>1, <1>2, Assumptions, HolderAgrees, HolderProofs!CallSteps, Zenon

\* The steps that leave the batch, the outbox and the phase alone: those of the
\* holder, of the runner, and of the BullMQ worker.
LEMMA QuietSteps ==
  ASSUME IInv,
         \/ CooldownPasses \/ StartReconcile \/ ReconcileFails \/ RunnerStops
         \/ AddSucceeds \/ AddFails \/ HolderStep \/ QueueError
         \/ TakeJob \/ JobSucceeds \/ JobFails
  PROVE  BatchInv' /\ JobInv' /\ PhaseInv'
<1>1. BatchInv /\ JobInv /\ PhaseInv /\ HolderProofs!IInv
  BY DEF IInv
<1>2. CASE CooldownPasses \/ StartReconcile \/ ReconcileFails \/ RunnerStops
  <2>1. /\ UNCHANGED <<holderVars, redisVars, workerVars, processVars, batch, outbox>>
        /\ inFlight' = inFlight
        /\ runnerShutdown' = runnerShutdown
           \/ (runnerShutdown = "waiting" /\ runnerShutdown' = "done")
    BY <1>2, Zenon DEF CooldownPasses, StartReconcile, ReconcileFails, RunnerStops,
                       Runner!Tick, Runner!ReconcileOnce, Runner!ReconcileEnds,
                       Runner!ShutdownDone
  <2>2. /\ UNCHANGED <<holderShutdown, pub, jobs, exhausted, active, closing, processed,
                       phase, database>>
        /\ Worked' = Worked
    BY <2>1 DEF holderVars, redisVars, workerVars, processVars, Worked
  <2> QED
    BY <1>1, <2>1, <2>2, BatchKept, JobsKept, PhaseKept
<1>3. CASE AddSucceeds
  <2>1. /\ Holder!AddSucceeds(TheBatch) /\ jobs' = jobs \cup {batch.row}
        /\ UNCHANGED <<exhausted, runnerVars, workerVars, processVars, batch, outbox>>
    BY <1>3 DEF AddSucceeds, AddJob
  <2>2. UNCHANGED <<inFlight, runnerShutdown, active, closing, processed, phase, database>>
    BY <2>1 DEF runnerVars, workerVars, processVars
  <2>3. /\ pub'[TheBatch].pc = "published" /\ pub[TheBatch].pc \in {"add", "retry"}
        /\ holderShutdown' = holderShutdown
    BY <1>1, <2>1, CallFacts
  <2>4. Worked \subseteq Worked' /\ batch.row \in Worked'
    BY <2>1, <2>2 DEF Worked
  <2>5. JobInv'
    BY <1>1, <2>1, <2>4 DEF JobInv, PublishedHasJob, Worked
  <2> QED
    BY <1>1, <2>1, <2>2, <2>3, <2>5, BatchKept, PhaseKept
<1>4. CASE AddFails
  <2>1. /\ Holder!FirstAddFails(TheBatch) \/ Holder!RetryFails(TheBatch)
        /\ jobs \subseteq jobs'
        /\ UNCHANGED <<exhausted, runnerVars, workerVars, processVars, batch, outbox>>
    BY <1>4 DEF AddFails, AddJob, redisVars
  <2>2. UNCHANGED <<inFlight, runnerShutdown, active, closing, processed, phase, database>>
    BY <2>1, SMTT(20) DEF runnerVars, workerVars, processVars
  <2>3. /\ pub'[TheBatch].pc = "idle" <=> pub[TheBatch].pc = "idle"
        /\ pub'[TheBatch].pc = "published" => pub[TheBatch].pc = "published"
        /\ holderShutdown' = holderShutdown
    BY <1>1, <2>1, CallFacts
  <2>4. Worked \subseteq Worked'
    BY <2>1, <2>2 DEF Worked
  <2> QED
    BY <1>1, <2>1, <2>2, <2>3, <2>4, BatchKept, JobsKept, PhaseKept, SMTT(20)
<1>5. CASE HolderStep \/ QueueError
  <2>1. UNCHANGED <<runnerVars, redisVars, workerVars, processVars, batch, outbox>>
    BY <1>5, Zenon DEF HolderStep, QueueError
  <2>2. /\ UNCHANGED <<inFlight, runnerShutdown, active, closing, phase, database>>
        /\ Worked' = Worked
    BY <2>1 DEF runnerVars, redisVars, workerVars, processVars, Worked
  <2>3. \/ Holder!GetRetryQueue(TheBatch) \/ Holder!RunRecreate
        \/ pub' = pub /\ holderShutdown' \in {holderShutdown, "done"}
    BY <1>5, Zenon DEF HolderStep, QueueError, Holder!DestroyResumes, Holder!CloseCurrent,
                       Holder!ErrorEvent
  <2>4. /\ pub'[TheBatch].pc = "idle" <=> pub[TheBatch].pc = "idle"
        /\ pub'[TheBatch].pc = "published" => pub[TheBatch].pc = "published"
        /\ holderShutdown = "done" => holderShutdown' = "done"
    BY <1>1, <2>3, CallFacts
  <2> QED
    BY <1>1, <2>1, <2>2, <2>4, BatchKept, JobsKept, PhaseKept
<1>6. CASE TakeJob \/ JobSucceeds \/ JobFails
  <2>1. UNCHANGED <<runnerVars, holderVars, processVars, closing, batch, outbox>>
    BY <1>6, Zenon DEF TakeJob, JobSucceeds, JobFails
  <2>2. UNCHANGED <<inFlight, runnerShutdown, pub, holderShutdown, phase, database>>
    BY <2>1 DEF runnerVars, holderVars, processVars
  <2>3. Worked \subseteq Worked'
    BY <1>6 DEF TakeJob, JobSucceeds, JobFails, redisVars, Worked
  <2>4. phase \notin {"closed", "exited"}
    BY <1>1, <1>6 DEF TakeJob, JobSucceeds, JobFails, PhaseInv
  <2> QED
    BY <1>1, <2>1, <2>2, <2>3, <2>4, BatchKept, JobsKept, PhaseKept
<1> QED
  BY <1>2, <1>3, <1>4, <1>5, <1>6

\* Drafts: what a batch makes of some of the rows, and writing one of them.
LEMMA DraftFacts ==
  /\ \A S \in SUBSET Rows : \A f \in [S -> {"PENDING", "PUBLISHED", "FAILED"}] :
       f \in Drafts /\ DOMAIN f = S
  /\ \A f \in Drafts : /\ DOMAIN f \subseteq Rows
                       /\ f \in [DOMAIN f -> {"PENDING", "PUBLISHED", "FAILED"}]
  /\ \A f \in Drafts, status \in {"PENDING", "PUBLISHED", "FAILED"} : \A r :
       LET g == [f EXCEPT ![r] = status]
       IN /\ g \in Drafts /\ DOMAIN g = DOMAIN f
          /\ \A q \in DOMAIN f : g[q] = IF q = r THEN status ELSE f[q]
<1>1. \A S \in SUBSET Rows : \A f \in [S -> {"PENDING", "PUBLISHED", "FAILED"}] :
        f \in Drafts /\ DOMAIN f = S
  BY DEF Drafts
<1>2. \A f \in Drafts : /\ DOMAIN f \subseteq Rows
                        /\ f \in [DOMAIN f -> {"PENDING", "PUBLISHED", "FAILED"}]
  BY DEF Drafts
<1>3. ASSUME NEW f \in Drafts, NEW r, NEW status \in {"PENDING", "PUBLISHED", "FAILED"}
      PROVE  LET g == [f EXCEPT ![r] = status]
             IN /\ g \in Drafts /\ DOMAIN g = DOMAIN f
                /\ \A q \in DOMAIN f : g[q] = IF q = r THEN status ELSE f[q]
  <2>1. [f EXCEPT ![r] = status] \in [DOMAIN f -> {"PENDING", "PUBLISHED", "FAILED"}]
    BY <1>2, Zenon
  <2>2. [f EXCEPT ![r] = status] \in Drafts /\ DOMAIN [f EXCEPT ![r] = status] = DOMAIN f
    BY <1>1, <1>2, <2>1
  <2> QED
    BY <1>2, <2>2
<1> QED
  BY <1>1, <1>2, <1>3

\* No batch.
LEMMA NoBatchFacts ==
  /\ NoBatch \in Batch /\ NoBatch.pc = "none" /\ NoBatch.row = NoRow
  /\ NoBatch.todo = {} /\ DOMAIN NoBatch.draft = {}
<1>1. [r \in {} |-> "PENDING"] \in [{} -> {"PENDING", "PUBLISHED", "FAILED"}]
  OBVIOUS
<1>2. [r \in {} |-> "PENDING"] \in Drafts
  BY <1>1, DraftFacts, Zenon
<1> QED
  BY <1>2 DEF NoBatch, Batch

\* The phase does not see what a batch does.
LEMMA PhaseSteps ==
  ASSUME PhaseInv, UNCHANGED <<processVars, closing, active, runnerShutdown>>,
         holderShutdown' = holderShutdown
  PROVE  PhaseInv'
<1>1. UNCHANGED <<phase, database>>
  BY DEF processVars
<1> QED
  BY <1>1, PhaseKept

\* A batch begins, selects its rows and comes to the next one.
LEMMA BatchGoesOn ==
  ASSUME IInv,
         StartBatch \/ (\E due \in SUBSET Retryable : FindEligibleEvents(due)) \/ PublishNext
  PROVE  BatchInv' /\ JobInv' /\ PhaseInv'
<1>1. BatchInv /\ JobInv /\ PhaseInv /\ HolderProofs!IInv
  BY DEF IInv
<1>2. CASE StartBatch
  <2>1. /\ ~inFlight /\ inFlight' = TRUE /\ batch' = [NoBatch EXCEPT !.pc = "select"]
        /\ UNCHANGED <<runnerShutdown, holderVars, redisVars, workerVars, processVars, outbox>>
    BY <1>2 DEF StartBatch, Runner!DispatchOnce
  <2>2. UNCHANGED <<pub, holderShutdown, jobs, exhausted, active, closing, processed>>
    BY <2>1 DEF holderVars, redisVars, workerVars
  <2>3. /\ batch' \in Batch /\ batch'.pc = "select" /\ batch'.row = NoRow
        /\ DOMAIN batch'.draft = {}
    BY <2>1, NoBatchFacts DEF Batch
  <2>4. Call.pc = "idle"
    BY <1>1, <2>1, NoBatchFacts DEF BatchInv
  <2>5. BatchInv'
    BY <2>1, <2>2, <2>3, <2>4 DEF BatchInv, Call
  <2>6. JobInv'
    BY <1>1, <2>1, <2>2, <2>3, <2>4, SMTT(20) DEF JobInv, PublishedHasJob, Worked, Call
  <2> QED
    BY <1>1, <2>1, <2>2, <2>5, <2>6, PhaseSteps
<1>3. CASE \E due \in SUBSET Retryable : FindEligibleEvents(due)
  <2>1. PICK due \in SUBSET Retryable : FindEligibleEvents(due)
    BY <1>3
  <2> DEFINE rows == Pending \cup due
             draft == [r \in rows |-> outbox[r]]
  <2>2. rows \in SUBSET Rows
    BY DEF Pending, Retryable
  <2>3. draft \in [rows -> {"PENDING", "PUBLISHED", "FAILED"}]
    BY <1>1, <2>2 DEF JobInv
  <2>4. /\ batch.pc = "select"
        /\ batch' = [pc |-> "publish", todo |-> rows, row |-> NoRow, draft |-> draft]
        /\ UNCHANGED <<runnerVars, holderVars, redisVars, workerVars, processVars, outbox>>
    BY <2>1 DEF FindEligibleEvents
  <2>5. draft \in Drafts /\ \A r \in DOMAIN draft : r \in Rows /\ draft[r] = outbox[r]
    BY <2>2, <2>3, DraftFacts, SMTT(20)
  <2> HIDE DEF rows, draft
  <2>6. /\ batch' \in Batch /\ batch'.pc = "publish" /\ batch'.row = NoRow
        /\ batch'.draft = draft
    BY <2>2, <2>4, <2>5, SMTT(20) DEF Batch
  <2>7. UNCHANGED <<inFlight, runnerShutdown, pub, holderShutdown, jobs, exhausted, active,
                    closing, processed>>
    BY <2>4 DEF runnerVars, holderVars, redisVars, workerVars
  <2>8. Call.pc = "idle" /\ inFlight
    BY <1>1, <2>4, SMTT(20) DEF BatchInv
  <2>9. BatchInv'
    BY <2>6, <2>7, <2>8, Zenon DEF BatchInv, Call
  <2>10. JobInv'
    BY <1>1, <2>4, <2>5, <2>6, <2>7, <2>8, Zenon DEF JobInv, PublishedHasJob, Worked, Call
  <2> QED
    BY <1>1, <2>4, <2>7, <2>9, <2>10, PhaseSteps
<1>4. CASE PublishNext
  <2>1. PICK r \in batch.todo : batch' = [batch EXCEPT !.row = r, !.todo = @ \ {r}]
    BY <1>4, Zenon DEF PublishNext
  <2>2. /\ batch.pc = "publish" /\ Holder!Start(TheBatch)
        /\ UNCHANGED <<runnerVars, redisVars, workerVars, processVars, outbox>>
    BY <1>4, Zenon DEF PublishNext
  <2>3. UNCHANGED <<inFlight, runnerShutdown, jobs, exhausted, active, closing, processed>>
    BY <2>2, Zenon DEF runnerVars, redisVars, workerVars
  <2>4. batch \in Batch /\ r \in Rows /\ r # NoRow
    BY <1>1, Assumptions DEF BatchInv, Batch
  <2>5. /\ batch' \in Batch /\ batch'.pc = "publish" /\ batch'.row = r
        /\ batch'.draft = batch.draft
    BY <2>1, <2>2, <2>4, ZenonT(30) DEF Batch
  <2>6. /\ pub'[TheBatch].pc \notin {"idle", "published"}
        /\ holderShutdown' = holderShutdown
    BY <1>1, <2>2, CallFacts, SMTT(20)
  <2>7. BatchInv'
    BY <1>1, <2>2, <2>3, <2>4, <2>5, <2>6, SMTT(20) DEF BatchInv, Call
  <2>8. JobInv'
    BY <1>1, <2>2, <2>3, <2>5, <2>6, SMTT(20) DEF JobInv, PublishedHasJob, Worked, Call
  <2> QED
    BY <1>1, <2>2, <2>3, <2>6, <2>7, <2>8, PhaseSteps, Zenon
<1> QED
  BY <1>2, <1>3, <1>4

\* A row is marked: PUBLISHED only if its job was added.
LEMMA RowIsMarked ==
  ASSUME IInv, RowPublished \/ RowFailed
  PROVE  BatchInv' /\ JobInv' /\ PhaseInv'
<1>1. /\ BatchInv /\ JobInv /\ PhaseInv /\ HolderProofs!IInv /\ batch \in Batch
      /\ batch.draft \in Drafts
  BY DEF IInv, BatchInv, Batch
<1>2. /\ Holder!Return(TheBatch)
      /\ UNCHANGED <<runnerVars, redisVars, workerVars, processVars, outbox>>
  BY DEF RowPublished, RowFailed
<1>3. UNCHANGED <<inFlight, runnerShutdown, jobs, exhausted, active, closing, processed>>
  BY <1>2, Zenon DEF runnerVars, redisVars, workerVars
<1>4. PICK status \in {"PUBLISHED", "FAILED"}, todo \in SUBSET Rows :
        /\ batch' = [batch EXCEPT !.draft = [batch.draft EXCEPT ![batch.row] = status],
                                  !.row = NoRow, !.todo = todo]
        /\ status = "PUBLISHED" => Call.pc = "published"
  <2>1. CASE RowPublished
    <3>1. /\ batch' = [batch EXCEPT !.draft = [batch.draft EXCEPT ![batch.row] = "PUBLISHED"],
                                    !.row = NoRow]
          /\ Call.pc = "published"
      BY <2>1 DEF RowPublished
    <3>2. /\ batch.todo \in SUBSET Rows
          /\ batch' = [batch EXCEPT !.draft = [batch.draft EXCEPT ![batch.row] = "PUBLISHED"],
                                    !.row = NoRow, !.todo = batch.todo]
      BY <1>1, <3>1, Zenon DEF Batch
    <3> QED
      BY <3>1, <3>2, Zenon
  <2>2. CASE RowFailed
    <3>1. /\ {} \in SUBSET Rows
          /\ batch' = [batch EXCEPT !.draft = [batch.draft EXCEPT ![batch.row] = "FAILED"],
                                    !.row = NoRow, !.todo = {}]
      BY <2>2 DEF RowFailed
    <3> QED
      BY <3>1, Zenon
  <2> QED
    BY <2>1, <2>2, Zenon
<1> DEFINE draft == [batch.draft EXCEPT ![batch.row] = status]
<1>5. /\ draft \in Drafts /\ DOMAIN draft = DOMAIN batch.draft
      /\ \A q \in DOMAIN batch.draft :
           draft[q] = IF q = batch.row THEN status ELSE batch.draft[q]
  BY <1>1, DraftFacts
<1>6. batch' = [batch EXCEPT !.draft = draft, !.row = NoRow, !.todo = todo]
  BY <1>4
<1> HIDE DEF draft
<1>7. /\ batch' \in Batch /\ batch'.pc = batch.pc /\ batch'.row = NoRow
      /\ batch'.draft = draft
  BY <1>1, <1>5, <1>6, ZenonT(30) DEF Batch
<1>8. /\ pub'[TheBatch].pc = "idle" /\ pub[TheBatch].pc \in {"published", "failed"}
      /\ holderShutdown' = holderShutdown
  BY <1>1, <1>2, CallFacts, SMTT(20)
<1>9. batch.row # NoRow /\ batch.pc = "publish" /\ inFlight
  BY <1>1, <1>8 DEF BatchInv, Call
<1>10. BatchInv'
  BY <1>3, <1>7, <1>8, <1>9 DEF BatchInv, Call
<1>11. ASSUME NEW q \in DOMAIN draft, draft[q] = "PUBLISHED"
       PROVE  q \in Worked
  BY <1>1, <1>4, <1>5, <1>11, SMTT(20) DEF JobInv
<1>12. JobInv'
  BY <1>1, <1>2, <1>3, <1>7, <1>8, <1>11 DEF JobInv, PublishedHasJob, Worked, Call
<1> QED
  BY <1>1, <1>2, <1>3, <1>8, <1>10, <1>12, PhaseSteps, SMTT(20)

\* The transaction of a batch ends, and a reconciliation takes rows back.
LEMMA TransactionEnds ==
  ASSUME IInv,
         CommitBatch \/ BatchFails \/ (\E stale \in SUBSET Stale : Reconcile(stale))
  PROVE  BatchInv' /\ JobInv' /\ PhaseInv'
<1>1. BatchInv /\ JobInv /\ PhaseInv /\ HolderProofs!IInv
  BY DEF IInv
<1>2. CASE CommitBatch
  <2>1. /\ batch.row = NoRow /\ batch' = NoBatch /\ inFlight' = FALSE
        /\ outbox' = [r \in Rows |->
             IF r \in DOMAIN batch.draft THEN batch.draft[r] ELSE outbox[r]]
        /\ UNCHANGED <<runnerShutdown, holderVars, redisVars, workerVars, processVars>>
    BY <1>2, Zenon DEF CommitBatch, Runner!DispatchSucceeds
  <2>2. UNCHANGED <<pub, holderShutdown, jobs, exhausted, active, closing, processed>>
    BY <2>1, Zenon DEF holderVars, redisVars, workerVars
  <2>3. Call.pc = "idle"
    BY <1>1, <2>1, Zenon DEF BatchInv
  <2>4. BatchInv'
    BY <2>1, <2>2, <2>3, NoBatchFacts, Zenon DEF BatchInv, Call
  <2>5. batch.draft \in Drafts
    BY <1>1 DEF BatchInv, Batch
  <2>6. \A r \in Rows : /\ outbox'[r] \in {"PENDING", "PUBLISHED", "FAILED"}
                        /\ outbox'[r] = "PUBLISHED" => r \in Worked
    <3> SUFFICES ASSUME NEW r \in Rows
                 PROVE  /\ outbox'[r] \in {"PENDING", "PUBLISHED", "FAILED"}
                        /\ outbox'[r] = "PUBLISHED" => r \in Worked
      OBVIOUS
    <3>1. CASE r \in DOMAIN batch.draft
      <4>1. outbox'[r] = batch.draft[r]
        BY <2>1, <3>1
      <4>2. batch.draft[r] \in {"PENDING", "PUBLISHED", "FAILED"}
        BY <2>5, <3>1, DraftFacts, SMTT(20)
      <4> QED
        BY <1>1, <3>1, <4>1, <4>2, SMTT(20) DEF JobInv
    <3>2. CASE r \notin DOMAIN batch.draft
      <4>1. outbox'[r] = outbox[r]
        BY <2>1, <3>2
      <4> QED
        BY <1>1, <4>1, SMTT(20) DEF JobInv, PublishedHasJob, Worked
    <3> QED
      BY <3>1, <3>2
  <2>7. outbox' \in [Rows -> {"PENDING", "PUBLISHED", "FAILED"}]
    BY <2>1, <2>6, SMTT(20)
  <2>8. JobInv'
    BY <2>1, <2>2, <2>3, <2>6, <2>7, NoBatchFacts, SMTT(20) DEF JobInv, PublishedHasJob, Worked, Call
  <2> QED
    BY <1>1, <2>1, <2>2, <2>4, <2>8, PhaseSteps, SMTT(20)
<1>3. CASE BatchFails
  <2>1. /\ batch' = NoBatch /\ inFlight' = FALSE
        /\ (Holder!Return(TheBatch) \/ (batch.row = NoRow /\ UNCHANGED holderVars))
        /\ UNCHANGED <<runnerShutdown, redisVars, workerVars, processVars, outbox>>
    BY <1>3, Zenon DEF BatchFails, Runner!DispatchFails
  <2>2. UNCHANGED <<jobs, exhausted, active, closing, processed>>
    BY <2>1 DEF redisVars, workerVars
  <2>3. pub'[TheBatch].pc = "idle" /\ holderShutdown' = holderShutdown
    <3>1. CASE Holder!Return(TheBatch)
      BY <1>1, <3>1, CallFacts, SMTT(20)
    <3>2. CASE batch.row = NoRow /\ UNCHANGED holderVars
      BY <1>1, <3>2, SMTT(20) DEF BatchInv, Call, holderVars
    <3> QED
      BY <2>1, <3>1, <3>2, SMTT(20)
  <2>4. BatchInv'
    BY <2>1, <2>3, NoBatchFacts, SMTT(20) DEF BatchInv, Call
  <2>5. JobInv'
    BY <1>1, <2>1, <2>2, <2>3, NoBatchFacts, SMTT(20) DEF JobInv, PublishedHasJob, Worked, Call
  <2> QED
    BY <1>1, <2>1, <2>2, <2>3, <2>4, <2>5, PhaseSteps, Zenon
<1>4. CASE \E stale \in SUBSET Stale : Reconcile(stale)
  <2>1. PICK stale \in SUBSET Stale :
          /\ outbox' = [r \in Rows |-> IF r \in stale THEN "FAILED" ELSE outbox[r]]
          /\ UNCHANGED <<inFlight, runnerShutdown, holderVars, redisVars, workerVars,
                         processVars, batch>>
    BY <1>4 DEF Reconcile, Runner!ReconcileEnds
  <2>2. UNCHANGED <<pub, holderShutdown, jobs, exhausted, active, closing, processed>>
    BY <2>1, SMTT(20) DEF holderVars, redisVars, workerVars
  <2>3. BatchInv'
    BY <1>1, <2>1, <2>2, BatchKept, SMTT(20)
  <2>4. \A r \in Rows : /\ outbox'[r] \in {"PENDING", "PUBLISHED", "FAILED"}
                        /\ outbox'[r] = "PUBLISHED" => r \in Worked
    BY <1>1, <2>1 DEF JobInv, PublishedHasJob, Worked
  <2>5. outbox' \in [Rows -> {"PENDING", "PUBLISHED", "FAILED"}]
    BY <2>1, <2>4, Zenon
  <2>6. JobInv'
    BY <1>1, <2>1, <2>2, <2>4, <2>5, Zenon DEF JobInv, PublishedHasJob, Worked, Call
  <2> QED
    BY <1>1, <2>1, <2>2, <2>3, <2>6, PhaseSteps, SMTT(20)
<1> QED
  BY <1>2, <1>3, <1>4

\* The hooks are called in their order; a process is killed.
LEMMA PhaseMoves ==
  ASSUME IInv,
         \/ CallModuleDestroy \/ CallApplicationShutdown \/ DestroyDataSource \/ Exit \/ Kill
  PROVE  BatchInv' /\ JobInv' /\ PhaseInv'
<1>1. BatchInv /\ JobInv /\ PhaseInv
  BY DEF IInv
<1>2. /\ UNCHANGED <<batch, outbox, redisVars, inFlight, pub, processed, active>>
      /\ (CallModuleDestroy \/ UNCHANGED holderShutdown)
      /\ (CallApplicationShutdown \/ UNCHANGED <<runnerShutdown, closing>>)
  <2>1. CASE CallModuleDestroy
    BY <2>1, Zenon DEF CallModuleDestroy, Holder!Destroy, Holder!CloseCurrent, runnerVars,
                       workerVars
  <2>2. CASE CallApplicationShutdown
    BY <2>2, Zenon DEF CallApplicationShutdown, Runner!Shutdown, holderVars
  <2>3. CASE DestroyDataSource \/ Exit \/ Kill
    BY <2>3, Zenon DEF DestroyDataSource, Exit, Kill, runnerVars, holderVars, workerVars
  <2> QED
    BY <2>1, <2>2, <2>3
<1>3. BatchInv' /\ JobInv'
  BY <1>1, <1>2, BatchKept, JobsKept, SMTT(20) DEF redisVars, Worked
<1>4. PhaseInv'
  BY <1>1, <1>2 DEF PhaseInv, CallModuleDestroy, CallApplicationShutdown, DestroyDataSource,
                    WorkerClosed, Exit, Kill, Runner!Shutdown
<1> QED
  BY <1>3, <1>4

\* The next process keeps what the database and Redis hold.
LEMMA RestartInv ==
  ASSUME IInv, Restart
  PROVE  BatchInv' /\ JobInv' /\ PhaseInv'
<1>1. /\ batch' = NoBatch /\ ~inFlight' /\ pub' = [p \in {TheBatch} |-> Holder!Idle]
      /\ phase' = "running" /\ database' = "open"
      /\ UNCHANGED <<outbox, jobs, exhausted, processed>>
  BY DEF Restart
<1>2. pub'[TheBatch].pc = "idle"
  BY <1>1, Zenon DEF Holder!Idle
<1>3. BatchInv'
  BY <1>1, <1>2, NoBatchFacts, ZenonT(30) DEF BatchInv, Call
<1>4. JobInv'
  BY <1>1, <1>2, NoBatchFacts DEF IInv, JobInv, PublishedHasJob, Worked, Call
<1>5. PhaseInv'
  BY <1>1 DEF PhaseInv
<1> QED
  BY <1>3, <1>4, <1>5

\* The invariant holds when the first process starts.
LEMMA ProcessInit == Init => IInv
<1> SUFFICES ASSUME Init PROVE IInv
  OBVIOUS
<1>1. RunnerInv /\ HolderProofs!IInv
  BY ComponentsInit, HolderAgrees, SMTT(20) DEF Init
<1>2. ~inFlight /\ pub[TheBatch].pc = "idle"
  BY DEF Init, Runner!Init, Holder!Init, Holder!Idle
<1>3. BatchInv
  BY <1>2, NoBatchFacts, SMTT(20) DEF Init, BatchInv, Call
<1>4. JobInv
  BY <1>2, NoBatchFacts DEF Init, JobInv, PublishedHasJob, Call
<1>5. PhaseInv
  BY DEF Init, PhaseInv
<1> QED
  BY <1>1, <1>3, <1>4, <1>5 DEF IInv

\* Every step of the process keeps the invariant.
LEMMA ProcessNext == IInv /\ [Next]_vars => IInv'
<1> SUFFICES ASSUME IInv, [Next]_vars PROVE IInv'
  OBVIOUS
<1>1. RunnerInv' /\ HolderProofs!IInv'
  BY ComponentsInv DEF IInv
<1>2. BatchInv' /\ JobInv' /\ PhaseInv'
  <2>1. CASE \/ CooldownPasses \/ StartReconcile \/ ReconcileFails \/ RunnerStops
             \/ AddSucceeds \/ AddFails \/ HolderStep \/ QueueError
             \/ TakeJob \/ JobSucceeds \/ JobFails
    BY <2>1, QuietSteps, Zenon
  <2>2. CASE StartBatch \/ (\E due \in SUBSET Retryable : FindEligibleEvents(due))
             \/ PublishNext
    BY <2>2, BatchGoesOn, Zenon
  <2>3. CASE RowPublished \/ RowFailed
    BY <2>3, RowIsMarked, Zenon
  <2>4. CASE CommitBatch \/ BatchFails \/ (\E stale \in SUBSET Stale : Reconcile(stale))
    BY <2>4, TransactionEnds, Zenon
  <2>5. CASE \/ CallModuleDestroy \/ CallApplicationShutdown \/ DestroyDataSource
             \/ Exit \/ Kill
    BY <2>5, PhaseMoves, Zenon
  <2>6. CASE Restart
    BY <2>6, RestartInv, SMTT(20)
  <2>7. CASE UNCHANGED vars
    <3>1. UNCHANGED <<batch, outbox, jobs, exhausted, processed, active, closing, phase,
                      database, inFlight, runnerShutdown, holderShutdown, pub>>
      BY <2>7 DEF vars, runnerVars, holderVars, redisVars, workerVars, processVars
    <3> QED
      BY <3>1, BatchKept, JobsKept, PhaseKept, SMTT(20) DEF IInv, Worked
  <2> QED
    BY <2>1, <2>2, <2>3, <2>4, <2>5, <2>6, <2>7, Zenon DEF Next, BatchStep, ShutdownStep
<1> QED
  BY <1>1, <1>2 DEF IInv

\* The inductive invariant holds at all times.
LEMMA ProcessInvariance == Spec => []IInv
  BY ProcessInit, ProcessNext, PTL DEF Spec

\* A committed PUBLISHED row has its job in Redis, has been processed or has failed
\* its last attempt, whatever is destroyed, killed or restarted meanwhile.
THEOREM PublishedRowsHaveJobs == Spec => []PublishedHasJob
<1>1. IInv => PublishedHasJob
  BY DEF IInv, JobInv
<1> QED
  BY <1>1, ProcessInvariance, PTL

\* The DataSource is destroyed under no batch, reconciliation or job.
THEOREM DatabaseClosesLast == Spec => []DatabaseOutlivesWork
<1>1. IInv => DatabaseOutlivesWork
  <2> SUFFICES ASSUME IInv, Alive, database = "closed"
               PROVE  batch = NoBatch /\ ~inFlight /\ ~inFlightRec /\ ~timers /\ active = NoRow
    BY DEF DatabaseOutlivesWork
  <2>1. runnerShutdown = "done" /\ active = NoRow
    BY DEF IInv, PhaseInv, Alive
  <2>2. batches = 0 /\ reconciles = 0 /\ ~timers
    BY <2>1 DEF IInv, RunnerInv, Runner!QuietAfterShutdown
  <2>3. ~inFlight /\ ~inFlightRec
    BY <2>2, SMTT(20) DEF IInv, RunnerInv, Runner!TypeOK
  <2> QED
    BY <2>1, <2>2, <2>3 DEF IInv, BatchInv
<1> QED
  BY <1>1, ProcessInvariance, PTL

\* An orderly exit leaves no queue and no database connection open.
THEOREM ExitIsClean == Spec => []CleanExit
<1>1. IInv => CleanExit
  <2> SUFFICES ASSUME IInv, phase = "exited"
               PROVE  1..created = closed /\ database = "closed"
    BY DEF CleanExit
  <2>1. holderShutdown = "done" /\ database = "closed"
    BY DEF IInv, PhaseInv
  <2>2. HolderProofs!TypeOK /\ HolderProofs!NoQueueLeaks
    BY DEF IInv, HolderProofs!IInv, HolderProofs!NoQueueLeaks
  <2> QED
    BY <2>1, <2>2, Zenon DEF HolderProofs!TypeOK, HolderProofs!NoQueueLeaks
<1> QED
  BY <1>1, ProcessInvariance, PTL

\* Within the process, whose batches share the holder and whose exits begin it
\* anew, the runner keeps the promises it makes alone.
THEOREM RunnerKeepsPromises ==
  Spec => []Runner!TypeOK /\ []Runner!QuietAfterShutdown /\ Runner!BackoffIsKept
<1>1. IInv => Runner!TypeOK /\ Runner!QuietAfterShutdown
  BY DEF IInv, RunnerInv
<1>2. IInv /\ [Next]_vars =>
        [batches' > batches /\ failures > 0
           => elapsed >= Runner!calculateCooldown(failures)]_(Runner!vars)
  <2> SUFFICES ASSUME IInv, [Next]_vars, batches' > batches, failures > 0
               PROVE  elapsed >= Runner!calculateCooldown(failures)
    OBVIOUS
  <2>1. Runner!TypeOK /\ RunnerInv
    BY DEF IInv, RunnerInv
  <2>2. ~Restart
    BY <2>1 DEF Restart, Runner!TypeOK
  <2>3. [Runner!Next]_(Runner!vars)
    <3>1. CASE Next
      BY <2>2, <3>1, ComponentsMove, SMTT(20)
    <3>2. CASE UNCHANGED vars
      BY <3>2 DEF vars, runnerVars, Runner!vars
    <3> QED
      BY <3>1, <3>2
  <2> QED
    BY <2>1, <2>3, Assumptions, BackoffStep
<1> QED
  BY <1>1, <1>2, ProcessInvariance, PTL DEF Spec, Runner!BackoffIsKept

\* The holder keeps its promises as well: no queue leaks over any number of
\* processes.
THEOREM HolderKeepsPromises ==
  Spec => [](HolderProofs!NoQueueLeaks /\ HolderProofs!RetryUsesAnotherQueue)
<1>1. IInv => HolderProofs!NoQueueLeaks /\ HolderProofs!RetryUsesAnotherQueue
  BY DEF IInv, HolderProofs!IInv, HolderProofs!CallInv, HolderProofs!RetryUsesAnotherQueue
<1> QED
  BY <1>1, ProcessInvariance, PTL

-----------------------------------------------------------------------------
(* The log throttle: OnePerInterval needs ClockFollowsTime, since the throttle *)
(* only knows the clock, which is the time since a line and what it was set.   *)

\* The induction hypothesis: everything the steps need to know of a state.
ThrottleInv ==
  /\ Throttle!TypeOK /\ Throttle!EveryErrorAccounted
  /\ Throttle!FirstIsEmitted /\ Throttle!ClockFollowsTime

\* The state a process starts in satisfies the induction hypothesis.
LEMMA ThrottleInit ==
  ASSUME Throttle!ThrottleAssumption
  PROVE  Throttle!Init => ThrottleInv
<1> SUFFICES ASSUME Throttle!Init
             PROVE  ThrottleInv
  OBVIOUS
<1>1. Throttle!TypeOK
  <2>1. lastEmittedAt \in [Keys -> Nat \cup {Throttle!Never}]
    BY DEF Throttle!Init
  <2>2. clock \in Nat /\ time \in 0..MaxTime /\ steps \in 0..MaxSteps
    BY DEF Throttle!Init, Throttle!ThrottleAssumption
  <2>3. /\ suppressedCounts \in [Keys -> Nat]
        /\ lines \in [Keys -> Nat]
        /\ reported \in [Keys -> Nat]
    BY DEF Throttle!Init
  <2>4. seen \in [Keys -> 0..MaxErrors] /\ lineTime \in [Keys -> 0..MaxTime]
    BY DEF Throttle!Init, Throttle!ThrottleAssumption
  <2>5. degraded \in BOOLEAN /\ failing \in SUBSET Keys /\ announced \in SUBSET Keys
    BY Zenon DEF Throttle!Init
  <2>6. shift \in [Keys -> Int]
    BY DEF Throttle!Init
  <2> QED  BY <2>1, <2>2, <2>3, <2>4, <2>5, <2>6, SMTT(20) DEF Throttle!TypeOK
<1>2. Throttle!EveryErrorAccounted
  <2> SUFFICES ASSUME NEW k \in Keys
               PROVE  /\ seen[k] = lines[k] + reported[k] + suppressedCounts[k]
                      /\ suppressedCounts[k] = 0
    BY Zenon DEF Throttle!EveryErrorAccounted
  <2>1. seen[k] = 0 /\ lines[k] = 0 /\ reported[k] = 0 /\ suppressedCounts[k] = 0
    BY DEF Throttle!Init
  <2> QED  BY <2>1
<1>3. Throttle!FirstIsEmitted
  BY DEF Throttle!Init, Throttle!FirstIsEmitted
<1>4. Throttle!ClockFollowsTime
  BY Zenon DEF Throttle!Init, Throttle!ClockFollowsTime
<1> QED  BY <1>1, <1>2, <1>3, <1>4 DEF ThrottleInv

\* A suppressed repeat (shouldEmit returns null) keeps the hypothesis.
LEMMA RepeatKeepsCount ==
  ASSUME Throttle!ThrottleAssumption, ThrottleInv, NEW k \in Keys, Throttle!HandleError(k),
         Throttle!Suppress(k)
  PROVE  ThrottleInv'
<1> USE DEF Throttle!ThrottleAssumption
<1>1. Throttle!TypeOK'
  BY DEF ThrottleInv, Throttle!TypeOK, Throttle!HandleError, Throttle!CountRepeat
<1>2. k \in announced
  BY SMTT(20) DEF ThrottleInv, Throttle!ClockFollowsTime, Throttle!Suppress
<1>3. Throttle!EveryErrorAccounted'
  BY DEF ThrottleInv, Throttle!TypeOK, Throttle!EveryErrorAccounted, Throttle!HandleError,
         Throttle!CountRepeat
<1>4. Throttle!FirstIsEmitted'
  BY <1>2, SMTT(20) DEF ThrottleInv, Throttle!TypeOK, Throttle!FirstIsEmitted, Throttle!HandleError,
              Throttle!CountRepeat
<1>5. Throttle!ClockFollowsTime'
  BY DEF ThrottleInv, Throttle!ClockFollowsTime, Throttle!SinceLine, Throttle!HandleError,
         Throttle!CountRepeat
<1> QED  BY <1>1, <1>3, <1>4, <1>5, SMTT(20) DEF ThrottleInv

\* An emitted line (shouldEmit returns a decision) keeps the hypothesis.
LEMMA LineKeepsCount ==
  ASSUME Throttle!ThrottleAssumption, ThrottleInv, NEW k \in Keys, Throttle!HandleError(k),
         ~Throttle!Suppress(k)
  PROVE  ThrottleInv'
<1> USE DEF Throttle!ThrottleAssumption
<1>1. Throttle!TypeOK'
  BY SMTT(20) DEF ThrottleInv, Throttle!TypeOK, Throttle!HandleError, Throttle!EmitLine
<1>2. Throttle!EveryErrorAccounted'
  BY SMTT(20) DEF ThrottleInv, Throttle!TypeOK, Throttle!EveryErrorAccounted, Throttle!HandleError,
         Throttle!EmitLine
<1>3. Throttle!FirstIsEmitted'
  BY SMTT(20) DEF ThrottleInv, Throttle!TypeOK, Throttle!FirstIsEmitted, Throttle!HandleError,
         Throttle!EmitLine
<1>4. Throttle!ClockFollowsTime'
  <2> SUFFICES ASSUME NEW j \in Keys
               PROVE  /\ j \in announced' <=> lastEmittedAt'[j] # Throttle!Never
                      /\ j \in announced' =>
                           clock' - lastEmittedAt'[j] = time' - lineTime'[j] + shift'[j]
    BY DEF Throttle!ClockFollowsTime, Throttle!SinceLine
  <2>1. CASE j = k
    <3>1. /\ lastEmittedAt'[j] = clock /\ lineTime'[j] = time /\ j \in announced'
          /\ shift'[j] = 0
      BY <2>1 DEF ThrottleInv, Throttle!TypeOK, Throttle!HandleError, Throttle!EmitLine
    <3>2. clock \in Nat /\ time \in Nat /\ clock' = clock /\ time' = time
      BY SMTT(20) DEF ThrottleInv, Throttle!TypeOK, Throttle!HandleError
    <3> QED  BY <3>1, <3>2, SMTT(20) DEF Throttle!Never
  <2>2. CASE j # k
    BY <2>2 DEF ThrottleInv, Throttle!TypeOK, Throttle!ClockFollowsTime, Throttle!SinceLine,
                Throttle!HandleError, Throttle!EmitLine
  <2> QED  BY <2>1, <2>2, SMTT(20)
<1> QED  BY <1>1, <1>2, <1>3, <1>4, SMTT(20) DEF ThrottleInv

\* The recovery line and the reset of the throttle keep the hypothesis.
LEMMA ReadyKeepsCount ==
  ASSUME Throttle!ThrottleAssumption, ThrottleInv, Throttle!HandleReady
  PROVE  ThrottleInv'
<1> USE DEF Throttle!ThrottleAssumption
<1>1. Throttle!TypeOK'
  <2>1. lastEmittedAt' \in [Keys -> Nat \cup {Throttle!Never}]
    BY ZenonT(30) DEF Throttle!HandleReady, Throttle!Reset
  <2>2. suppressedCounts' \in [Keys -> Nat]
    BY Zenon DEF Throttle!HandleReady, Throttle!Reset
  <2>3. reported' \in [Keys -> Nat]
    BY DEF ThrottleInv, Throttle!TypeOK, Throttle!HandleReady
  <2>4. degraded' \in BOOLEAN /\ failing' \in SUBSET Keys /\ announced' \in SUBSET Keys
    BY Zenon DEF Throttle!HandleReady
  <2> QED  BY <2>1, <2>2, <2>3, <2>4, Zenon DEF ThrottleInv, Throttle!TypeOK, Throttle!HandleReady
<1>2. Throttle!EveryErrorAccounted'
  BY DEF ThrottleInv, Throttle!TypeOK, Throttle!EveryErrorAccounted, Throttle!HandleReady,
         Throttle!Reset
<1>3. Throttle!FirstIsEmitted'
  BY SMTT(20) DEF ThrottleInv, Throttle!FirstIsEmitted, Throttle!HandleReady
<1>4. Throttle!ClockFollowsTime'
  BY DEF ThrottleInv, Throttle!ClockFollowsTime, Throttle!HandleReady, Throttle!Reset
<1> QED  BY <1>1, <1>2, <1>3, <1>4, SMTT(20) DEF ThrottleInv

\* Passing time keeps the hypothesis.
LEMMA TimeKeepsCount ==
  ASSUME Throttle!ThrottleAssumption, ThrottleInv, Throttle!TimePasses
  PROVE  ThrottleInv'
<1> USE DEF Throttle!ThrottleAssumption
<1>1. Throttle!TypeOK'
  BY SMTT(20) DEF ThrottleInv, Throttle!TypeOK, Throttle!TimePasses,
         Throttle!throttleVars, Throttle!historyVars
<1>2. Throttle!EveryErrorAccounted' /\ Throttle!FirstIsEmitted'
  <2>1. UNCHANGED <<suppressedCounts, degraded, seen, lines, reported, failing, announced>>
    BY Zenon DEF Throttle!TimePasses, Throttle!throttleVars, Throttle!historyVars
  <2> QED  BY <2>1, Zenon DEF ThrottleInv, Throttle!EveryErrorAccounted, Throttle!FirstIsEmitted
<1>3. Throttle!ClockFollowsTime'
  BY SMTT(20) DEF ThrottleInv, Throttle!TypeOK, Throttle!ClockFollowsTime, Throttle!SinceLine,
         Throttle!TimePasses, Throttle!throttleVars, Throttle!historyVars
<1> QED  BY <1>1, <1>2, <1>3, SMTT(20) DEF ThrottleInv

\* A clock that is set back or forward keeps the hypothesis: the clock and the
\* shift of every code change by the same amount.
LEMMA ClockKeepsCount ==
  ASSUME Throttle!ThrottleAssumption, ThrottleInv, Throttle!ClockSet
  PROVE  ThrottleInv'
<1> USE DEF Throttle!ThrottleAssumption
<1>1. PICK d \in (-MaxTime)..MaxTime :
        clock + d >= 0 /\ clock' = clock + d /\ shift' = [k \in Keys |-> shift[k] + d]
  BY Zenon DEF Throttle!ClockSet
<1>2. UNCHANGED <<lastEmittedAt, suppressedCounts, degraded, time, seen, lines, reported,
                  failing, announced, lineTime>>
  BY Zenon DEF Throttle!ClockSet, Throttle!throttleVars
<1>3. d \in Int /\ clock' \in Nat /\ shift' \in [Keys -> Int]
  BY <1>1, SMTT(20) DEF ThrottleInv, Throttle!TypeOK
<1>4. steps' \in 0..MaxSteps
  BY SMTT(20) DEF ThrottleInv, Throttle!TypeOK, Throttle!ClockSet
<1>5. Throttle!TypeOK'
  BY <1>2, <1>3, <1>4, Zenon DEF ThrottleInv, Throttle!TypeOK
<1>6. Throttle!EveryErrorAccounted' /\ Throttle!FirstIsEmitted'
  BY <1>2, Zenon DEF ThrottleInv, Throttle!EveryErrorAccounted, Throttle!FirstIsEmitted
<1>7. ASSUME NEW k \in Keys
      PROVE  /\ k \in announced' <=> lastEmittedAt'[k] # Throttle!Never
             /\ k \in announced' => clock' - lastEmittedAt'[k] = Throttle!SinceLine(k)'
  BY <1>1, <1>2, <1>3, SMTT(20) DEF ThrottleInv, Throttle!TypeOK, Throttle!ClockFollowsTime,
                                    Throttle!SinceLine, Throttle!Never
<1> QED  BY <1>5, <1>6, <1>7, Zenon DEF ThrottleInv, Throttle!ClockFollowsTime

\* Every step keeps the induction hypothesis.
LEMMA ThrottleNext ==
  ASSUME Throttle!ThrottleAssumption
  PROVE  ThrottleInv /\ [Throttle!Next]_(Throttle!vars) => ThrottleInv'
<1> SUFFICES ASSUME ThrottleInv, [Throttle!Next]_(Throttle!vars)
             PROVE  ThrottleInv'
  OBVIOUS
<1>1. ASSUME NEW k \in Keys, Throttle!HandleError(k)  PROVE ThrottleInv'
  BY <1>1, RepeatKeepsCount, LineKeepsCount
<1>2. CASE Throttle!HandleReady
  BY <1>2, ReadyKeepsCount
<1>3. CASE Throttle!TimePasses \/ Throttle!ClockSet
  BY <1>3, TimeKeepsCount, ClockKeepsCount, SMTT(20)
<1>4. CASE UNCHANGED Throttle!vars
  BY <1>4 DEF Throttle!vars, Throttle!throttleVars, Throttle!historyVars, ThrottleInv,
              Throttle!TypeOK, Throttle!EveryErrorAccounted,
              Throttle!FirstIsEmitted, Throttle!ClockFollowsTime, Throttle!SinceLine
<1> QED  BY <1>1, <1>2, <1>3, <1>4 DEF Throttle!Next

\* Whatever errors, recoveries and clock corrections happen, the hypothesis holds.
LEMMA ThrottleInvariance ==
  ASSUME Throttle!ThrottleAssumption
  PROVE  Throttle!Spec => []ThrottleInv
  BY ThrottleInit, ThrottleNext, PTL DEF Throttle!Spec

\* Every error of every outage has its line, is reported as suppressed or still
\* counted; nothing is pending once the recovery line is out.
THEOREM Accounting ==
  ASSUME Throttle!ThrottleAssumption
  PROVE  Throttle!Spec => []Throttle!EveryErrorAccounted
<1>1. ThrottleInv => Throttle!EveryErrorAccounted
  BY DEF ThrottleInv
<1> QED  BY <1>1, ThrottleInvariance, PTL

\* The first error of each code in each outage is logged, and a recovery line is
\* never logged without one.
THEOREM FirstEmission ==
  ASSUME Throttle!ThrottleAssumption
  PROVE  Throttle!Spec => []Throttle!FirstIsEmitted
<1>1. ThrottleInv => Throttle!FirstIsEmitted
  BY DEF ThrottleInv
<1> QED  BY <1>1, ThrottleInvariance, PTL

\* Within an outage a repeated error is logged exactly when an interval has gone
\* by since the last line of its code, in real time but for what the clock was set
\* since then: a clock set forward brings the next line that much earlier, one set
\* back keeps it away that much longer, and nothing else does either.
THEOREM Spacing ==
  ASSUME Throttle!ThrottleAssumption
  PROVE  Throttle!Spec => Throttle!OnePerInterval
<1>1. ThrottleInv /\ [Throttle!Next]_(Throttle!vars) =>
        [\A k \in Keys :
           seen'[k] > seen[k] /\ k \in announced
             => (lines'[k] > lines[k] <=> Throttle!SinceLine(k) >= Interval)]_(Throttle!vars)
  <2> SUFFICES ASSUME ThrottleInv, Throttle!Next, NEW k \in Keys, seen'[k] > seen[k],
                      k \in announced
               PROVE  lines'[k] > lines[k] <=> Throttle!SinceLine(k) >= Interval
    OBVIOUS
  <2>1. lines \in [Keys -> Nat] /\ seen \in [Keys -> 0..MaxErrors] /\ MaxErrors \in Nat
    BY Zenon DEF ThrottleInv, Throttle!TypeOK, Throttle!ThrottleAssumption
  <2>2. PICK j \in Keys : Throttle!HandleError(j)
    BY <2>1, SMTT(20) DEF Throttle!Next, Throttle!HandleReady, Throttle!TimePasses,
                Throttle!ClockSet, Throttle!historyVars
  <2>3. j = k
    BY <2>1, <2>2, SMTT(20) DEF Throttle!HandleError
  <2>4. lines'[k] > lines[k] <=> ~Throttle!Suppress(k)
    BY <2>1, <2>2, <2>3, SMTT(20) DEF Throttle!HandleError, Throttle!CountRepeat, Throttle!EmitLine
  <2>5. /\ lastEmittedAt[k] # Throttle!Never /\ clock - lastEmittedAt[k] = Throttle!SinceLine(k)
        /\ lastEmittedAt[k] \in Nat /\ clock \in Nat /\ Interval \in Nat
    BY SMTT(20) DEF Throttle!ThrottleAssumption, ThrottleInv, Throttle!TypeOK,
                    Throttle!ClockFollowsTime, Throttle!Never
  <2>6. Throttle!Suppress(k) <=> Throttle!SinceLine(k) < Interval
    BY <2>5, Zenon DEF Throttle!Suppress
  <2>7. \A n \in Int : n >= Interval <=> ~(n < Interval)
    BY <2>5, SMTT(20)
  <2>8. Throttle!SinceLine(k) \in Int
    BY <2>5, SMTT(20)
  <2> QED  BY <2>4, <2>6, <2>7, <2>8, ZenonT(30)
<1> QED  BY <1>1, ThrottleInvariance, PTL DEF Throttle!Spec, Throttle!OnePerInterval
=============================================================================
