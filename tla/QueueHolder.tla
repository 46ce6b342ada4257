----------------------------- MODULE QueueHolder -----------------------------
(***************************************************************************)
(* WebhookEventsQueueHolder: the one BullMQ Queue of a process, replaced   *)
(* when it turns out to be poisoned, while publishers are using it and the *)
(* process may be shutting down.                                           *)
(*                                                                         *)
(* JavaScript runs one continuation at a time: one action is the code      *)
(* between two awaits.  The callback of recreatePromise and the finally    *)
(* that clears it are one action, because no add issued on the new queue   *)
(* can be answered between the two.                                        *)
(***************************************************************************)
EXTENDS Naturals

CONSTANTS
  Publishers,  \* concurrent calls of addProcessWebhookEvent
  MaxQueues    \* bound on the queues built: no add fails at the last one

ASSUME HolderAssumption == MaxQueues \in Nat \ {0}

NoQueue == 0

Queues == 1..MaxQueues

VARIABLES
  current,    \* currentQueue
  poisoned,
  recreate,   \* recreatePromise: the queues to replace it was asked for, if pending
  shutdown,   \* onModuleDestroy: not called, waiting for recreatePromise, done
  created,    \* number of queues built so far
  closed,     \* queues on which close was called
  pub         \* the calls of the publishers

vars == <<current, poisoned, recreate, shutdown, created, closed, pub>>

\* queue: the one the call works on; first: the one its first add failed on.
Idle == [pc |-> "idle", queue |-> NoQueue, first |-> NoQueue]

\* The factory provider of QueuesModule has called getQueue, which has built
\* the first queue, before anyone publishes.
Init ==
  /\ current = 1
  /\ poisoned = FALSE
  /\ recreate = {}
  /\ shutdown = "no"
  /\ created = 1
  /\ closed = {}
  /\ pub = [p \in Publishers |-> Idle]

destroyed == shutdown # "no"

-----------------------------------------------------------------------------
(* Replacing the queue *)

\* Mutant of ReplaceQueue: the old queue is not closed.
ReplaceQueueOnly ==
  /\ created' = created + 1
  /\ current' = created + 1
  /\ poisoned' = FALSE
  /\ UNCHANGED closed

\* replaceQueue(currentQueue): a new queue becomes current, the old is closed.
ReplaceQueue ==
  /\ created' = created + 1
  /\ current' = created + 1
  /\ poisoned' = FALSE
  /\ closed' = closed \cup ({current} \ {NoQueue})

Healthy == current # NoQueue /\ ~poisoned

\* recreateQueue(queue): joins the pending promise or creates it.
RecreateQueue(queue) ==
  recreate' = IF recreate = {} THEN {queue} ELSE recreate

\* Mutant of Settle: calls that joined a promise which fails are not woken.
SettleForgetsFailure(outcome) ==
  /\ recreate' = {}
  /\ pub' = [p \in Publishers |->
       CASE pub[p].pc = "waitFirst" /\ outcome # NoQueue
              -> [pub[p] EXCEPT !.pc = "add", !.queue = outcome]
         [] pub[p].pc = "waitRetry" /\ outcome # NoQueue
              -> [pub[p] EXCEPT !.pc = "retry", !.queue = outcome]
         [] pub[p].pc = "waitRecreate" /\ outcome # NoQueue
              -> [pub[p] EXCEPT !.pc = "getRetry"]
         [] OTHER -> pub[p]]

\* recreatePromise settles for everyone who waits for it.
Settle(outcome) ==
  /\ recreate' = {}
  /\ pub' = [p \in Publishers |->
       CASE pub[p].pc \in {"waitFirst", "waitRetry", "waitRecreate"} /\ outcome = NoQueue
              -> [pub[p] EXCEPT !.pc = "failed", !.queue = NoQueue]
         [] pub[p].pc = "waitFirst" /\ outcome # NoQueue
              -> [pub[p] EXCEPT !.pc = "add", !.queue = outcome]
         [] pub[p].pc = "waitRetry" /\ outcome # NoQueue
              -> [pub[p] EXCEPT !.pc = "retry", !.queue = outcome]
         [] pub[p].pc = "waitRecreate" /\ outcome # NoQueue
              -> [pub[p] EXCEPT !.pc = "getRetry"]
         [] OTHER -> pub[p]]

\* Another call has replaced the queue this one complained about.
AlreadyReplaced(queue) ==
  queue # NoQueue /\ current # NoQueue /\ current # queue /\ ~poisoned

\* Mutant of RunRecreate: the promise of a destroyed holder never settles.
RunRecreateIfActive ==
  \E queue \in recreate :
    /\ ~destroyed
    /\ IF AlreadyReplaced(queue)
         THEN Settle(current) /\ UNCHANGED <<current, poisoned, created, closed>>
         ELSE ReplaceQueue /\ Settle(created + 1)
    /\ UNCHANGED shutdown

\* The callback of recreatePromise; replaceQueue asserts that the holder is
\* active.
RunRecreate ==
  \E queue \in recreate :
    /\ \/ /\ AlreadyReplaced(queue)
          /\ Settle(current)
          /\ UNCHANGED <<current, poisoned, created, closed>>
       \/ /\ ~AlreadyReplaced(queue)
          /\ destroyed
          /\ Settle(NoQueue)
          /\ UNCHANGED <<current, poisoned, created, closed>>
       \/ /\ ~AlreadyReplaced(queue)
          /\ ~destroyed
          /\ ReplaceQueue
          /\ Settle(created + 1)
    /\ UNCHANGED shutdown

-----------------------------------------------------------------------------
(* addProcessWebhookEvent *)

Go(p, pc, queue) == pub' = [pub EXCEPT ![p].pc = pc, ![p].queue = queue]

\* getHealthyQueueForPublish: go to step use, or to step wait for a new queue.
GetHealthyQueueForPublish(p, use, wait) ==
  IF destroyed THEN Go(p, "failed", NoQueue) /\ UNCHANGED recreate
  ELSE IF Healthy THEN Go(p, use, current) /\ UNCHANGED recreate
  ELSE Go(p, wait, NoQueue) /\ RecreateQueue(current)

Start(p) ==
  /\ pub[p].pc = "idle"
  /\ GetHealthyQueueForPublish(p, "add", "waitFirst")
  /\ UNCHANGED <<current, poisoned, shutdown, created, closed>>

\* The bound on failures; a destroyed holder builds no queue after one.
MayFail == created < MaxQueues \/ destroyed

\* Mutant of MarkPoisoned: the failure is not remembered.
MarkPoisonedForgets(queue) == poisoned' = (poisoned /\ current # queue)

\* markPoisoned: only the current queue counts.
MarkPoisoned(queue) == poisoned' = (poisoned \/ current = queue)

\* The first add fails: the queue is poisoned and recreateQueue is called.
FirstAddFails(p) ==
  /\ pub[p].pc = "add"
  /\ MayFail
  /\ MarkPoisoned(pub[p].queue)
  /\ IF destroyed
       THEN Go(p, "failed", NoQueue) /\ UNCHANGED recreate
       ELSE /\ pub' = [pub EXCEPT ![p] = [pc |-> "waitRecreate", queue |-> NoQueue,
                                         first |-> pub[p].queue]]
            /\ RecreateQueue(pub[p].queue)
  /\ UNCHANGED <<current, shutdown, created, closed>>

GetRetryQueue(p) ==
  /\ pub[p].pc = "getRetry"
  /\ GetHealthyQueueForPublish(p, "retry", "waitRetry")
  /\ UNCHANGED <<current, poisoned, shutdown, created, closed>>

RetryFails(p) ==
  /\ pub[p].pc = "retry"
  /\ MayFail
  /\ MarkPoisoned(pub[p].queue)
  /\ Go(p, "failed", NoQueue)
  /\ UNCHANGED <<current, recreate, shutdown, created, closed>>

AddSucceeds(p) ==
  /\ pub[p].pc \in {"add", "retry"}
  /\ Go(p, "published", NoQueue)
  /\ UNCHANGED <<current, poisoned, recreate, shutdown, created, closed>>

\* The caller goes on; its next call may come at any time.
Return(p) ==
  /\ pub[p].pc \in {"published", "failed"}
  /\ pub' = [pub EXCEPT ![p] = Idle]
  /\ UNCHANGED <<current, poisoned, recreate, shutdown, created, closed>>

\* The 'error' listener createQueue installs; a closed queue may still emit.
ErrorEvent(queue) ==
  /\ queue <= created
  /\ MayFail
  /\ MarkPoisoned(queue)
  /\ UNCHANGED <<current, recreate, shutdown, created, closed, pub>>

-----------------------------------------------------------------------------
(* onModuleDestroy *)

\* The current queue is taken out and closed.
CloseCurrent ==
  /\ shutdown' = "done"
  /\ closed' = closed \cup ({current} \ {NoQueue})
  /\ current' = NoQueue
  /\ poisoned' = FALSE
  /\ UNCHANGED <<recreate, created, pub>>

\* onModuleDestroy goes straight on, or awaits the pending recreatePromise.
Destroy ==
  /\ shutdown = "no"
  /\ \/ recreate = {} /\ CloseCurrent
     \/ /\ recreate # {}
        /\ shutdown' = "waiting"
        /\ UNCHANGED <<current, poisoned, recreate, created, closed, pub>>

\* The promise has settled, with a queue or with an error.
DestroyResumes ==
  /\ shutdown = "waiting"
  /\ recreate = {}
  /\ CloseCurrent

PublishStep(p) ==
  \/ FirstAddFails(p) \/ GetRetryQueue(p) \/ RetryFails(p) \/ AddSucceeds(p)

Next ==
  \/ \E p \in Publishers : Start(p) \/ PublishStep(p) \/ Return(p)
  \/ \E queue \in Queues : ErrorEvent(queue)
  \/ RunRecreate \/ Destroy \/ DestroyResumes

Spec == Init /\ [][Next]_vars

-----------------------------------------------------------------------------
(* Properties *)

Waiting(p) == pub[p].pc \in {"waitFirst", "waitRetry", "waitRecreate"}

\* The state is well formed, and a call waits only while a promise is pending
\* that will wake it.
TypeOK ==
  /\ current \in Queues \cup {NoQueue}
  /\ poisoned \in BOOLEAN
  /\ recreate \in {{}} \cup {{queue} : queue \in Queues \cup {NoQueue}}
  /\ shutdown \in {"no", "waiting", "done"}
  /\ created \in 0..MaxQueues
  /\ closed \subseteq 1..created
  /\ pub \in [Publishers ->
       [pc : {"idle", "add", "waitFirst", "waitRecreate", "getRetry",
              "waitRetry", "retry", "published", "failed"},
        queue : Queues \cup {NoQueue}, first : Queues \cup {NoQueue}]]
  /\ \A p \in Publishers : Waiting(p) => recreate # {}

\* No connection leaks: whatever replacements, errors and shutdown race, every
\* queue built so far is the current one or has been closed, and the current
\* one has not; after onModuleDestroy all of them are closed.
NoQueueLeaks ==
  /\ TypeOK
  /\ 1..created \ closed = {current} \ {NoQueue}
  /\ shutdown = "done" => current = NoQueue

\* A retry never goes to the queue the first add has failed on, although other
\* calls may be replacing queues at the same time.
RetryUsesAnotherQueue ==
  \A p \in Publishers : pub[p].pc = "retry" => pub[p].queue # pub[p].first

\* The event loop runs pending continuations, and every add is answered (the
\* connection options bound its retries and its time).
FairSpec ==
  /\ Spec
  /\ \A p \in Publishers : WF_vars(PublishStep(p))
  /\ WF_vars(RunRecreate)
  /\ WF_vars(DestroyResumes)

\* No call hangs on a shared recreatePromise: every publish ends, by success or
\* by an error, also when the holder is destroyed meanwhile.
EveryPublishEnds ==
  \A p \in Publishers : pub[p].pc = "add" \/ Waiting(p) ~> pub[p].pc \in {"published", "failed"}

=============================================================================
