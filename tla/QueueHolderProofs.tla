--------------------------- MODULE QueueHolderProofs ---------------------------
(***************************************************************************)
(* No queue leaks and no retry repeats itself, for any number of           *)
(* publishers and of queues.                                               *)
(*                                                                         *)
(* Both rest on the flag poisoned.  It stays set until the queue it is     *)
(* about is replaced or taken out, so that a call whose first add failed   *)
(* on the current queue is never handed that queue again (FailedOn); and   *)
(* outside a shutdown a promise is pending, or the flag set, only while    *)
(* one more queue may be built (MayReplace).                               *)
(***************************************************************************)
EXTENDS QueueHolder, TLAPS

Call == [pc : {"idle", "add", "waitFirst", "waitRecreate", "getRetry",
               "waitRetry", "retry", "published", "failed"},
         queue : Queues \cup {NoQueue}, first : Queues \cup {NoQueue}]

\* A call in the middle of its two adds complains about a queue that was built,
\* and that is no longer current or known to be poisoned.
FailedOn(call) ==
  call.pc \in {"waitRecreate", "getRetry", "waitRetry"} =>
    call.first \in 1..created /\ (call.first = current => poisoned)

CallInv(call) ==
  /\ FailedOn(call)
  /\ call.pc \in {"add", "retry"} => call.queue \in 1..created
  /\ call.pc = "retry" => call.queue # call.first

MayReplace == ~destroyed /\ (poisoned \/ recreate # {}) => created < MaxQueues

\* The inductive invariant.
IInv ==
  /\ NoQueueLeaks
  /\ \A p \in Publishers : CallInv(pub[p])
  /\ MayReplace
  /\ current = NoQueue => shutdown = "done"
  /\ created > 0

-----------------------------------------------------------------------------
(* The steps of the publishers *)

\* What the invariant says of the parts of a state.
LEMMA StateFacts ==
  ASSUME IInv
  PROVE  /\ current \in 1..created \cup {NoQueue} /\ poisoned \in BOOLEAN
         /\ created \in 1..MaxQueues /\ 1..created \subseteq Queues /\ NoQueue \notin 1..created
         /\ pub \in [Publishers -> Call] /\ \A p \in Publishers : CallInv(pub[p])
         /\ ~destroyed => current \in 1..created
<1>1. TypeOK /\ created > 0 /\ 1..created \ closed = {current} \ {NoQueue}
  BY DEF IInv, NoQueueLeaks
<1>2. created \in 1..MaxQueues /\ poisoned \in BOOLEAN /\ pub \in [Publishers -> Call]
  BY <1>1, HolderAssumption DEF TypeOK, Call
<1>3. current = NoQueue \/ current \in 1..created
  BY <1>1
<1>4. 1..created \subseteq Queues /\ NoQueue \notin 1..created
  BY <1>2, HolderAssumption DEF Queues, NoQueue
<1> QED
  BY <1>2, <1>3, <1>4 DEF IInv, destroyed

\* A step of one call that may report its queue and ask for a new one.
LEMMA CallMoves ==
  ASSUME IInv, NEW p \in Publishers, NEW call \in Call, pub' = [pub EXCEPT ![p] = call],
         UNCHANGED <<current, shutdown, created, closed>>,
         poisoned' \in BOOLEAN, poisoned => poisoned',
         \/ recreate' = recreate
         \/ recreate = {} /\ \E queue \in Queues \cup {NoQueue} : recreate' = {queue},
         call.pc \in {"waitFirst", "waitRetry", "waitRecreate"} => recreate' # {},
         CallInv(call)', MayReplace'
  PROVE  IInv'
<1>1. TypeOK /\ pub \in [Publishers -> Call]
  BY StateFacts DEF IInv, NoQueueLeaks
<1>2. /\ pub' \in [Publishers -> Call] /\ pub'[p] = call
      /\ \A q \in Publishers \ {p} : pub'[q] = pub[q]
  BY <1>1
<1>3. recreate' \in {{}} \cup {{queue} : queue \in Queues \cup {NoQueue}}
  BY <1>1 DEF TypeOK
<1>4. ASSUME NEW q \in Publishers PROVE Waiting(q)' => recreate' # {}
  BY <1>1, <1>2 DEF TypeOK, Waiting
<1>5. TypeOK'
  BY <1>1, <1>2, <1>3, <1>4, Zenon DEF TypeOK, Call
<1>6. NoQueueLeaks' /\ (current' = NoQueue => shutdown' = "done") /\ created' > 0
  BY <1>5 DEF IInv, NoQueueLeaks
<1>7. ASSUME NEW q \in Publishers PROVE CallInv(pub[q])'
  BY <1>2 DEF IInv, CallInv, FailedOn
<1> QED
  BY <1>6, <1>7 DEF IInv

\* The record of a call after Go.
LEMMA GoFacts ==
  ASSUME IInv, NEW p \in Publishers,
         NEW pc \in {"add", "waitFirst", "waitRetry", "retry", "published", "failed"},
         NEW queue \in Queues \cup {NoQueue}, Go(p, pc, queue)
  PROVE  \E call \in Call : /\ pub' = [pub EXCEPT ![p] = call]
                            /\ call.pc = pc /\ call.queue = queue /\ call.first = pub[p].first
<1>1. pub[p] \in Call
  BY StateFacts
<1> DEFINE call == [pub[p] EXCEPT !.pc = pc, !.queue = queue]
<1>2. call \in Call /\ call.pc = pc /\ call.queue = queue /\ call.first = pub[p].first
  BY <1>1, Zenon DEF Call
<1>3. pub' = [pub EXCEPT ![p] = call]
  BY Zenon DEF Go
<1> QED
  BY <1>2, <1>3, Zenon

\* A call ends, after success or failure.
LEMMA EndInv ==
  ASSUME IInv, NEW p \in Publishers, NEW pc \in {"published", "failed"}, Go(p, pc, NoQueue),
         UNCHANGED <<current, recreate, shutdown, created, closed>>,
         poisoned' \in BOOLEAN, poisoned => poisoned',
         poisoned' => poisoned \/ created < MaxQueues \/ destroyed
  PROVE  IInv'
<1>1. PICK call \in Call : pub' = [pub EXCEPT ![p] = call] /\ call.pc = pc
  BY GoFacts
<1>2. CallInv(call)'
  BY <1>1 DEF CallInv, FailedOn
<1>3. MayReplace'
  BY DEF IInv, MayReplace, destroyed
<1> QED
  BY <1>1, <1>2, <1>3, CallMoves, Zenon

\* getHealthyQueueForPublish, for the first add and for the retry.
LEMMA HealthyInv ==
  ASSUME IInv, NEW p \in Publishers, NEW use \in {"add", "retry"},
         NEW wait \in {"waitFirst", "waitRetry"},
         GetHealthyQueueForPublish(p, use, wait),
         UNCHANGED <<current, poisoned, shutdown, created, closed>>,
         use = "retry" => pub[p].pc = "getRetry",
         wait = "waitRetry" => use = "retry"
  PROVE  IInv'
<1>1. /\ current \in 1..created \cup {NoQueue} /\ 1..created \subseteq Queues
      /\ poisoned \in BOOLEAN /\ CallInv(pub[p])
      /\ ~destroyed => current \in 1..created
      /\ created \in 1..MaxQueues /\ NoQueue \notin 1..created
  BY StateFacts
<1>2. CASE destroyed
  <2>1. Go(p, "failed", NoQueue) /\ UNCHANGED recreate
    BY <1>2 DEF GetHealthyQueueForPublish
  <2> QED
    BY <1>1, <2>1, EndInv
<1>3. CASE ~destroyed /\ Healthy
  <2>1. Go(p, use, current) /\ UNCHANGED recreate
    BY <1>3 DEF GetHealthyQueueForPublish
  <2>2. PICK call \in Call : /\ pub' = [pub EXCEPT ![p] = call]
                             /\ call.pc = use /\ call.queue = current
                             /\ call.first = pub[p].first
    BY <1>1, <2>1, GoFacts
  <2>3. CallInv(call)'
    BY <1>1, <1>3, <2>2 DEF CallInv, FailedOn, Healthy
  <2>4. MayReplace'
    BY <2>1 DEF IInv, MayReplace, destroyed
  <2> QED
    BY <1>1, <2>1, <2>2, <2>3, <2>4, CallMoves, Zenon
<1>4. CASE ~destroyed /\ ~Healthy
  <2>1. Go(p, wait, NoQueue) /\ RecreateQueue(current)
    BY <1>4 DEF GetHealthyQueueForPublish
  <2>2. PICK call \in Call : /\ pub' = [pub EXCEPT ![p] = call]
                             /\ call.pc = wait /\ call.first = pub[p].first
    BY <2>1, GoFacts
  <2>3. poisoned
    BY <1>1, <1>4 DEF Healthy
  <2>4. CallInv(call)'
    BY <1>1, <2>2, <2>3 DEF CallInv, FailedOn
  <2>5. MayReplace'
    BY <1>4, <2>3 DEF IInv, MayReplace, destroyed
  <2>6. /\ \/ recreate' = recreate
           \/ recreate = {} /\ \E queue \in Queues \cup {NoQueue} : recreate' = {queue}
        /\ recreate' # {}
    BY <1>1, <2>1 DEF RecreateQueue
  <2> QED
    BY <1>1, <2>2, <2>4, <2>5, <2>6, CallMoves, Zenon
<1> QED
  BY <1>2, <1>3, <1>4

\* The first add fails: the queue is poisoned before anyone can ask for it again.
LEMMA FirstAddFailsInv ==
  ASSUME IInv, NEW p \in Publishers, FirstAddFails(p)
  PROVE  IInv'
<1>1. /\ poisoned \in BOOLEAN /\ CallInv(pub[p]) /\ pub[p] \in Call
      /\ created \in 1..MaxQueues /\ 1..created \subseteq Queues
  BY StateFacts
<1>2. /\ pub[p].pc = "add" /\ pub[p].queue \in 1..created
      /\ created < MaxQueues \/ destroyed
      /\ poisoned' = (poisoned \/ current = pub[p].queue)
      /\ UNCHANGED <<current, shutdown, created, closed>>
  BY <1>1 DEF FirstAddFails, CallInv, MayFail, MarkPoisoned
<1>3. poisoned' \in BOOLEAN /\ (poisoned => poisoned')
  BY <1>1, <1>2
<1>4. CASE destroyed
  <2>1. Go(p, "failed", NoQueue) /\ UNCHANGED recreate
    BY <1>4 DEF FirstAddFails
  <2> QED
    BY <1>2, <1>3, <1>4, <2>1, EndInv
<1>5. CASE ~destroyed
  <2>1. /\ pub' = [pub EXCEPT ![p] = [pc |-> "waitRecreate", queue |-> NoQueue,
                                      first |-> pub[p].queue]]
        /\ RecreateQueue(pub[p].queue)
    BY <1>5 DEF FirstAddFails
  <2>2. PICK call \in Call : /\ pub' = [pub EXCEPT ![p] = call]
                             /\ call.pc = "waitRecreate" /\ call.first = pub[p].queue
    <3> DEFINE c == [pc |-> "waitRecreate", queue |-> NoQueue, first |-> pub[p].queue]
    <3>1. c \in Call /\ c.pc = "waitRecreate" /\ c.first = pub[p].queue
      BY <1>1, <1>2 DEF Call
    <3>2. pub' = [pub EXCEPT ![p] = c]
      BY <2>1
    <3> HIDE DEF c
    <3> QED
      BY <3>1, <3>2, Zenon
  <2>3. CallInv(call)'
    BY <1>2, <2>2, Zenon DEF CallInv, FailedOn
  <2>4. MayReplace'
    BY <1>2, <1>5 DEF MayReplace, destroyed
  <2>5. /\ \/ recreate' = recreate
           \/ recreate = {} /\ \E queue \in Queues \cup {NoQueue} : recreate' = {queue}
        /\ recreate' # {}
    BY <1>1, <1>2, <2>1 DEF RecreateQueue
  <2> QED
    BY <1>2, <1>3, <2>1, <2>2, <2>3, <2>4, <2>5, CallMoves, Zenon
<1> QED
  BY <1>4, <1>5

\* The other steps of a call.
LEMMA CallInvariant ==
  ASSUME IInv, NEW p \in Publishers, Start(p) \/ PublishStep(p) \/ Return(p)
  PROVE  IInv'
<1>1. poisoned \in BOOLEAN
  BY StateFacts
<1>2. CASE Start(p)
  BY <1>2, HealthyInv DEF Start
<1>3. CASE FirstAddFails(p)
  BY <1>3, FirstAddFailsInv
<1>4. CASE GetRetryQueue(p)
  BY <1>4, HealthyInv DEF GetRetryQueue
<1>5. CASE RetryFails(p)
  <2>1. poisoned' \in BOOLEAN /\ (poisoned => poisoned')
    BY <1>1, <1>5 DEF RetryFails, MarkPoisoned
  <2> QED
    BY <1>5, <2>1, EndInv DEF RetryFails, MayFail
<1>6. CASE AddSucceeds(p)
  BY <1>1, <1>6, EndInv DEF AddSucceeds
<1>7. CASE Return(p)
  <2>1. Idle \in Call /\ Idle.pc = "idle"
    BY DEF Idle, Call
  <2>2. CallInv(Idle)'
    BY <2>1 DEF CallInv, FailedOn
  <2>3. MayReplace'
    BY <1>7 DEF Return, IInv, MayReplace, destroyed
  <2> QED
    BY <1>1, <1>7, <2>1, <2>2, <2>3, CallMoves, Zenon DEF Return
<1> QED
  BY <1>2, <1>3, <1>4, <1>5, <1>6, <1>7 DEF PublishStep

-----------------------------------------------------------------------------
(* The holder *)

\* What the settled promise does to a call: nothing, or it wakes it.
LEMMA SettleFacts ==
  ASSUME IInv, NEW outcome \in Queues \cup {NoQueue}, Settle(outcome)
  PROVE  /\ recreate' = {} /\ pub' \in [Publishers -> Call]
         /\ \A p \in Publishers :
              /\ pub'[p].first = pub[p].first
              /\ pub'[p].pc \notin {"waitFirst", "waitRetry", "waitRecreate"}
              /\ \/ pub'[p] = pub[p]
                 \/ /\ pub'[p].pc = "failed"
                    /\ pub[p].pc \in {"waitFirst", "waitRetry", "waitRecreate"}
                 \/ /\ outcome # NoQueue /\ pub'[p].queue = outcome
                    /\ \/ pub[p].pc = "waitFirst" /\ pub'[p].pc = "add"
                       \/ pub[p].pc = "waitRetry" /\ pub'[p].pc = "retry"
                 \/ pub[p].pc = "waitRecreate" /\ pub'[p].pc = "getRetry"
<1> DEFINE woken(p) ==
      CASE pub[p].pc \in {"waitFirst", "waitRetry", "waitRecreate"} /\ outcome = NoQueue
             -> [pub[p] EXCEPT !.pc = "failed", !.queue = NoQueue]
        [] pub[p].pc = "waitFirst" /\ outcome # NoQueue
             -> [pub[p] EXCEPT !.pc = "add", !.queue = outcome]
        [] pub[p].pc = "waitRetry" /\ outcome # NoQueue
             -> [pub[p] EXCEPT !.pc = "retry", !.queue = outcome]
        [] pub[p].pc = "waitRecreate" /\ outcome # NoQueue
             -> [pub[p] EXCEPT !.pc = "getRetry"]
        [] OTHER -> pub[p]
<1>1. recreate' = {} /\ pub' = [p \in Publishers |-> woken(p)]
  BY Zenon DEF Settle
<1>2. ASSUME NEW p \in Publishers
      PROVE  /\ woken(p) \in Call /\ woken(p).first = pub[p].first
             /\ woken(p).pc \notin {"waitFirst", "waitRetry", "waitRecreate"}
             /\ \/ woken(p) = pub[p]
                \/ /\ woken(p).pc = "failed"
                   /\ pub[p].pc \in {"waitFirst", "waitRetry", "waitRecreate"}
                \/ /\ outcome # NoQueue /\ woken(p).queue = outcome
                   /\ \/ pub[p].pc = "waitFirst" /\ woken(p).pc = "add"
                      \/ pub[p].pc = "waitRetry" /\ woken(p).pc = "retry"
                \/ pub[p].pc = "waitRecreate" /\ woken(p).pc = "getRetry"
  <2>1. pub[p] \in Call
    BY StateFacts
  <2>2. CASE pub[p].pc \notin {"waitFirst", "waitRetry", "waitRecreate"}
    <3>1. woken(p) = pub[p]
      BY <2>2
    <3> QED
      BY <2>1, <2>2, <3>1
  <2>3. CASE pub[p].pc \in {"waitFirst", "waitRetry", "waitRecreate"} /\ outcome = NoQueue
    <3>1. woken(p) = [pub[p] EXCEPT !.pc = "failed", !.queue = NoQueue]
      BY <2>3
    <3> QED
      BY <2>1, <3>1, Zenon DEF Call
  <2>4. CASE pub[p].pc = "waitFirst" /\ outcome # NoQueue
    <3>1. woken(p) = [pub[p] EXCEPT !.pc = "add", !.queue = outcome]
      BY <2>4
    <3> QED
      BY <2>1, <2>4, <3>1, Zenon DEF Call
  <2>5. CASE pub[p].pc = "waitRetry" /\ outcome # NoQueue
    <3>1. woken(p) = [pub[p] EXCEPT !.pc = "retry", !.queue = outcome]
      BY <2>5
    <3> QED
      BY <2>1, <2>5, <3>1, Zenon DEF Call
  <2>6. CASE pub[p].pc = "waitRecreate" /\ outcome # NoQueue
    <3>1. woken(p) = [pub[p] EXCEPT !.pc = "getRetry"]
      BY <2>6
    <3> QED
      BY <2>1, <2>6, <3>1 DEF Call
  <2> QED
    BY <2>2, <2>3, <2>4, <2>5, <2>6
<1> HIDE DEF woken
<1>3. pub' \in [Publishers -> Call] /\ \A p \in Publishers : pub'[p] = woken(p)
  BY <1>1, <1>2
<1> QED
  BY <1>1, <1>2, <1>3

\* The callback of recreatePromise.
LEMMA RunRecreateInv ==
  ASSUME IInv, RunRecreate
  PROVE  IInv'
<1>1. /\ current \in 1..created \cup {NoQueue} /\ 1..created \subseteq Queues
      /\ poisoned \in BOOLEAN /\ created \in 1..MaxQueues /\ NoQueue \notin 1..created
      /\ ~destroyed => current \in 1..created
      /\ \A p \in Publishers : CallInv(pub[p])
  BY StateFacts
<1>2. TypeOK /\ 1..created \ closed = {current} \ {NoQueue} /\ shutdown' = shutdown
  BY DEF IInv, NoQueueLeaks, RunRecreate
<1>3. ASSUME NEW outcome \in Queues \cup {NoQueue}, Settle(outcome),
             created' \in 1..MaxQueues, created <= created',
             current' \in Queues \cup {NoQueue}, poisoned' \in BOOLEAN,
             closed' \subseteq 1..created', 1..created' \ closed' = {current'} \ {NoQueue},
             current' = NoQueue => shutdown = "done", shutdown = "done" => current' = NoQueue,
             poisoned' => poisoned /\ created' = created,
             outcome # NoQueue => outcome = current' /\ outcome \in 1..created',
             \A p \in Publishers :
               pub[p].pc \in {"waitRecreate", "getRetry", "waitRetry"} =>
                 /\ pub[p].first = current' => poisoned'
                 /\ outcome # NoQueue => pub[p].first # outcome
      PROVE  IInv'
  <2>1. /\ recreate' = {} /\ pub' \in [Publishers -> Call]
        /\ \A p \in Publishers :
             /\ pub'[p].first = pub[p].first
             /\ pub'[p].pc \notin {"waitFirst", "waitRetry", "waitRecreate"}
             /\ \/ pub'[p] = pub[p]
                \/ /\ pub'[p].pc = "failed"
                   /\ pub[p].pc \in {"waitFirst", "waitRetry", "waitRecreate"}
                \/ /\ outcome # NoQueue /\ pub'[p].queue = outcome
                   /\ \/ pub[p].pc = "waitFirst" /\ pub'[p].pc = "add"
                      \/ pub[p].pc = "waitRetry" /\ pub'[p].pc = "retry"
                \/ pub[p].pc = "waitRecreate" /\ pub'[p].pc = "getRetry"
    BY <1>3, SettleFacts
  <2>2. created' \in 0..MaxQueues /\ shutdown' \in {"no", "waiting", "done"}
    BY <1>2, <1>3, HolderAssumption DEF TypeOK
  <2>3. TypeOK'
    BY <1>3, <2>1, <2>2, Zenon DEF TypeOK, Waiting, Call
  <2>4. NoQueueLeaks'
    BY <1>2, <1>3, <2>3 DEF NoQueueLeaks
  <2>5. 1..created \subseteq 1..created' /\ created' > 0
    BY <1>1, <1>3
  <2>6. ASSUME NEW p \in Publishers PROVE CallInv(pub[p])'
    BY <1>1, <1>3, <2>1, <2>5, <2>6 DEF CallInv, FailedOn
  <2>7. MayReplace'
    BY <1>2, <1>3, <2>1 DEF IInv, MayReplace, destroyed
  <2> QED
    BY <1>2, <1>3, <2>4, <2>5, <2>6, <2>7 DEF IInv
<1>4. PICK queue \in recreate :
        \/ /\ AlreadyReplaced(queue) /\ Settle(current)
           /\ UNCHANGED <<current, poisoned, created, closed>>
        \/ /\ ~AlreadyReplaced(queue) /\ destroyed /\ Settle(NoQueue)
           /\ UNCHANGED <<current, poisoned, created, closed>>
        \/ ~AlreadyReplaced(queue) /\ ~destroyed /\ ReplaceQueue /\ Settle(created + 1)
  BY DEF RunRecreate
<1>5. CASE AlreadyReplaced(queue) /\ Settle(current)
           /\ UNCHANGED <<current, poisoned, created, closed>>
  <2>1. current # NoQueue /\ ~poisoned
    BY <1>5 DEF AlreadyReplaced
  <2>2. \A p \in Publishers : pub[p].pc \in {"waitRecreate", "getRetry", "waitRetry"} =>
          pub[p].first # current
    BY <1>1, <2>1 DEF CallInv, FailedOn
  <2>3. closed \subseteq 1..created /\ (shutdown = "done" => current = NoQueue)
    BY <1>2 DEF IInv, NoQueueLeaks, TypeOK
  <2> QED
    BY <1>1, <1>2, <1>3, <1>5, <2>1, <2>2, <2>3
<1>6. CASE destroyed /\ Settle(NoQueue) /\ UNCHANGED <<current, poisoned, created, closed>>
  <2>1. /\ closed \subseteq 1..created /\ (shutdown = "done" => current = NoQueue)
        /\ current = NoQueue => shutdown = "done"
    BY <1>2 DEF IInv, NoQueueLeaks, TypeOK
  <2>2. \A p \in Publishers : pub[p].pc \in {"waitRecreate", "getRetry", "waitRetry"} =>
          (pub[p].first = current => poisoned)
    BY <1>1 DEF CallInv, FailedOn
  <2> QED
    BY <1>1, <1>2, <1>3, <1>6, <2>1, <2>2
<1>7. CASE ~destroyed /\ ReplaceQueue /\ Settle(created + 1)
  <2>1. created < MaxQueues
    BY <1>4, <1>7 DEF IInv, MayReplace
  <2>2. /\ created' = created + 1 /\ current' = created + 1 /\ poisoned' = FALSE
        /\ closed' = closed \cup {current} /\ current # NoQueue
    BY <1>1, <1>7 DEF ReplaceQueue
  <2>3. /\ created + 1 \in 1..MaxQueues /\ created + 1 \in Queues /\ created <= created + 1
        /\ created + 1 \in 1..(created + 1) /\ created + 1 # NoQueue
        /\ created + 1 \notin 1..created /\ 1..(created + 1) = 1..created \cup {created + 1}
    BY <1>1, <2>1, HolderAssumption DEF Queues, NoQueue
  <2>4. closed' \subseteq 1..created' /\ 1..created' \ closed' = {current'} \ {NoQueue}
    <3>1. closed \subseteq 1..created /\ current \in 1..created
      BY <1>1, <1>2, <1>7 DEF TypeOK
    <3> QED
      BY <1>2, <2>2, <2>3, <3>1
  <2>5. \A p \in Publishers : pub[p].pc \in {"waitRecreate", "getRetry", "waitRetry"} =>
          pub[p].first # created + 1
    BY <1>1, <2>3 DEF CallInv, FailedOn
  <2>6. shutdown # "done"
    BY <1>7 DEF destroyed
  <2> QED
    BY <1>3, <1>7, <2>2, <2>3, <2>4, <2>5, <2>6, Zenon
<1> QED
  BY <1>4, <1>5, <1>6, <1>7

\* The listener of 'error' events.
LEMMA ErrorEventInv ==
  ASSUME IInv, NEW queue \in Queues, ErrorEvent(queue)
  PROVE  IInv'
<1>1. poisoned \in BOOLEAN
  BY StateFacts
<1>2. /\ UNCHANGED <<current, recreate, shutdown, created, closed, pub>>
      /\ poisoned' \in BOOLEAN /\ (poisoned => poisoned')
      /\ created < MaxQueues \/ destroyed
  BY <1>1 DEF ErrorEvent, MarkPoisoned, MayFail
<1>3. TypeOK'
  BY <1>2, Zenon DEF IInv, NoQueueLeaks, TypeOK, Waiting
<1>4. NoQueueLeaks' /\ (current' = NoQueue => shutdown' = "done") /\ created' > 0
  BY <1>2, <1>3 DEF IInv, NoQueueLeaks
<1>5. ASSUME NEW p \in Publishers PROVE CallInv(pub[p])'
  BY <1>2 DEF IInv, CallInv, FailedOn
<1>6. MayReplace'
  BY <1>2 DEF MayReplace, destroyed
<1> QED
  BY <1>4, <1>5, <1>6 DEF IInv

\* onModuleDestroy.
LEMMA DestroyInv ==
  ASSUME IInv, Destroy \/ DestroyResumes
  PROVE  IInv'
<1>1. /\ current \in 1..created \cup {NoQueue} /\ created \in 1..MaxQueues
      /\ NoQueue \notin 1..created /\ \A p \in Publishers : CallInv(pub[p])
  BY StateFacts
<1>2. TypeOK /\ 1..created \ closed = {current} \ {NoQueue} /\ closed \subseteq 1..created
  BY DEF IInv, NoQueueLeaks, TypeOK
<1>3. CASE CloseCurrent
  <2>1. /\ shutdown' = "done" /\ current' = NoQueue /\ poisoned' = FALSE
        /\ UNCHANGED <<recreate, created, pub>>
        /\ closed' = closed \cup ({current} \ {NoQueue})
    BY <1>3 DEF CloseCurrent
  <2>2. closed' \subseteq 1..created /\ 1..created \ closed' = {}
    BY <1>1, <1>2, <2>1, Zenon
  <2>3. TypeOK'
    BY <1>2, <2>1, <2>2, Zenon DEF TypeOK, Waiting
  <2>4. NoQueueLeaks'
    BY <2>1, <2>2, <2>3 DEF NoQueueLeaks
  <2>5. ASSUME NEW p \in Publishers PROVE CallInv(pub[p])'
    BY <1>1, <2>1, <2>5 DEF CallInv, FailedOn
  <2> QED
    BY <1>1, <2>1, <2>4, <2>5 DEF IInv, MayReplace, destroyed
<1>4. CASE shutdown = "no" /\ shutdown' = "waiting"
           /\ UNCHANGED <<current, poisoned, recreate, created, closed, pub>>
  <2>1. TypeOK'
    BY <1>2, <1>4, Zenon DEF TypeOK, Waiting
  <2>2. NoQueueLeaks' /\ current # NoQueue
    BY <1>4, <2>1 DEF IInv, NoQueueLeaks
  <2>3. ASSUME NEW p \in Publishers PROVE CallInv(pub[p])'
    BY <1>1, <1>4, <2>3 DEF CallInv, FailedOn
  <2> QED
    BY <1>4, <2>2, <2>3 DEF IInv, MayReplace, destroyed
<1> QED
  BY <1>3, <1>4 DEF Destroy, DestroyResumes

-----------------------------------------------------------------------------
(* The theorems *)

\* The invariant holds of a holder with its first queue.
LEMMA InitInv ==
  ASSUME Init
  PROVE  IInv
<1>1. Idle \in Call /\ Idle.pc = "idle"
  BY DEF Idle, Call
<1>2. pub \in [Publishers -> Call] /\ \A p \in Publishers : pub[p] = Idle
  BY <1>1 DEF Init
<1>3. /\ 1 \in Queues /\ created \in 0..MaxQueues /\ created > 0 /\ 1..created = {1}
      /\ current = 1 /\ current # NoQueue
  BY HolderAssumption DEF Init, Queues, NoQueue
<1>4. TypeOK
  BY <1>1, <1>2, <1>3, Zenon DEF Init, TypeOK, Waiting, Call
<1>5. \A p \in Publishers : CallInv(pub[p])
  BY <1>1, <1>2, Zenon DEF CallInv, FailedOn
<1> QED
  BY <1>3, <1>4, <1>5 DEF Init, IInv, NoQueueLeaks, MayReplace

\* Every step keeps the invariant.
LEMMA NextInv ==
  ASSUME IInv, [Next]_vars
  PROVE  IInv'
<1>1. CASE UNCHANGED vars
  <2>1. UNCHANGED <<current, poisoned, recreate, shutdown, created, closed, pub>>
    BY <1>1 DEF vars
  <2> QED
    BY <2>1 DEF IInv, NoQueueLeaks, TypeOK, Waiting, CallInv, FailedOn, MayReplace, destroyed
<1>2. CASE \E p \in Publishers : Start(p) \/ PublishStep(p) \/ Return(p)
  BY <1>2, CallInvariant
<1>3. CASE \E queue \in Queues : ErrorEvent(queue)
  BY <1>3, ErrorEventInv
<1>4. CASE RunRecreate
  BY <1>4, RunRecreateInv
<1>5. CASE Destroy \/ DestroyResumes
  BY <1>5, DestroyInv
<1> QED
  BY <1>1, <1>2, <1>3, <1>4, <1>5 DEF Next

\* The inductive invariant holds at all times.
LEMMA Invariance == Spec => []IInv
<1>1. Init => IInv
  BY InitInv
<1>2. IInv /\ [Next]_vars => IInv'
  BY NextInv
<1> QED
  BY <1>1, <1>2, PTL DEF Spec

\* How a call begins, ends and is answered: only Start and Return make a call of
\* nothing and nothing of a call, and only a successful add publishes.
LEMMA CallSteps ==
  ASSUME IInv, NEW p \in Publishers
  PROVE  /\ Start(p) => pub'[p].pc \notin {"idle", "published"}
         /\ AddSucceeds(p) => pub'[p].pc = "published" /\ pub[p].pc \in {"add", "retry"}
         /\ Return(p) => pub'[p].pc = "idle" /\ pub[p].pc \in {"published", "failed"}
         /\ FirstAddFails(p) \/ GetRetryQueue(p) \/ RetryFails(p) \/ RunRecreate =>
              /\ pub'[p].pc = "idle" <=> pub[p].pc = "idle"
              /\ pub'[p].pc = "published" => pub[p].pc = "published"
<1>1. /\ pub \in [Publishers -> Call] /\ pub[p] \in Call /\ current \in Queues \cup {NoQueue}
      /\ created \in 1..MaxQueues
  BY StateFacts
<1>2. ASSUME NEW pc, NEW queue, Go(p, pc, queue)
      PROVE  pub'[p].pc = pc
  BY <1>1, <1>2 DEF Go, Call
<1>3. Start(p) => pub'[p].pc \notin {"idle", "published"}
  BY <1>2 DEF Start, GetHealthyQueueForPublish
<1>4. AddSucceeds(p) => pub'[p].pc = "published" /\ pub[p].pc \in {"add", "retry"}
  BY <1>2 DEF AddSucceeds
<1>5. Return(p) => pub'[p].pc = "idle" /\ pub[p].pc \in {"published", "failed"}
  BY <1>1 DEF Return, Idle
<1>6. FirstAddFails(p) => pub'[p].pc \in {"failed", "waitRecreate"} /\ pub[p].pc = "add"
  BY <1>1, <1>2 DEF FirstAddFails
<1>7. GetRetryQueue(p) =>
        pub'[p].pc \in {"failed", "retry", "waitRetry"} /\ pub[p].pc = "getRetry"
  BY <1>2 DEF GetRetryQueue, GetHealthyQueueForPublish
<1>8. RetryFails(p) => pub'[p].pc = "failed" /\ pub[p].pc = "retry"
  BY <1>2 DEF RetryFails
<1>9. ASSUME RunRecreate
      PROVE  /\ pub'[p].pc = "idle" <=> pub[p].pc = "idle"
             /\ pub'[p].pc = "published" => pub[p].pc = "published"
  <2>1. PICK outcome \in Queues \cup {NoQueue} : Settle(outcome)
    <3>1. \/ Settle(current) \/ Settle(NoQueue)
          \/ recreate # {} /\ ~destroyed /\ Settle(created + 1)
      BY <1>9 DEF RunRecreate
    <3>2. recreate # {} /\ ~destroyed => created + 1 \in Queues
      BY <1>1, HolderAssumption DEF IInv, MayReplace, Queues
    <3> QED
      BY <1>1, <3>1, <3>2
  <2> QED
    BY <2>1, SettleFacts
<1> QED
  BY <1>3, <1>4, <1>5, <1>6, <1>7, <1>8, <1>9

\* Whatever replacements, error events and a shutdown race, every queue built so
\* far is the current one or was closed, and after onModuleDestroy all of them
\* were, for any number of concurrent publishers.
THEOREM QueuesAreClosed == Spec => []NoQueueLeaks
<1>1. IInv => NoQueueLeaks
  BY DEF IInv
<1> QED
  BY <1>1, Invariance, PTL

\* No retry goes to the queue its first add failed on.
THEOREM RetriesMoveOn == Spec => []RetryUsesAnotherQueue
<1>1. IInv => RetryUsesAnotherQueue
  BY DEF IInv, CallInv, RetryUsesAnotherQueue
<1> QED
  BY <1>1, Invariance, PTL

\* A destroyed holder builds no queue any more, although a promise to build one
\* may have been pending when onModuleDestroy was called; a closed queue is never
\* current again.
THEOREM NothingAfterDestroy ==
  Spec => [][/\ destroyed => UNCHANGED created
             /\ closed \subseteq closed' /\ current' \notin closed']_vars
<1>1. IInv /\ IInv' /\ [Next]_vars =>
        [/\ destroyed => UNCHANGED created
         /\ closed \subseteq closed' /\ current' \notin closed']_vars
  <2> SUFFICES ASSUME IInv, IInv', Next
               PROVE  /\ destroyed => UNCHANGED created
                      /\ closed \subseteq closed' /\ current' \notin closed'
    OBVIOUS
  <2>1. destroyed => UNCHANGED created
    BY DEF Next, Start, PublishStep, FirstAddFails, GetRetryQueue, RetryFails, AddSucceeds,
           Return, ErrorEvent, RunRecreate, Destroy, DestroyResumes, CloseCurrent
  <2>2. closed \subseteq closed'
    BY DEF Next, Start, PublishStep, FirstAddFails, GetRetryQueue, RetryFails, AddSucceeds,
           Return, ErrorEvent, RunRecreate, ReplaceQueue, Destroy, DestroyResumes, CloseCurrent
  <2>3. current' \notin closed'
    <3>1. /\ 1..created' \ closed' = {current'} \ {NoQueue} /\ closed' \subseteq 1..created'
          /\ created' \in Nat
      BY HolderAssumption DEF IInv, NoQueueLeaks, TypeOK
    <3>2. NoQueue \notin 1..created'
      BY <3>1 DEF NoQueue
    <3> QED
      BY <3>1, <3>2, Zenon
  <2> QED
    BY <2>1, <2>2, <2>3
<1> QED
  BY <1>1, Invariance, PTL DEF Spec
=============================================================================
