---------------------------- MODULE EventProcessor ----------------------------
(***************************************************************************)
(* WebhookEventProcessorService: the transaction a worker runs for one     *)
(* BullMQ job.  Several workers run it at once, on the same event (a       *)
(* duplicated or stalled job) or on events that name the same payment      *)
(* intent or the same transaction hash.                                    *)
(*                                                                         *)
(* PostgreSQL runs it at READ COMMITTED.  One action is one statement that *)
(* can wait (SELECT ... FOR UPDATE, or the UPDATE that enters the unique   *)
(* index on confirmed_tx_hash) together with the decisions the code takes  *)
(* before the next one.  events, attempts and intents hold committed rows; *)
(* tx[w] holds worker w's uncommitted writes and row locks.                *)
(***************************************************************************)
EXTENDS PaymentData

CONSTANTS
  Workers,    \* worker processes (concurrency 1 each)
  NoEvent,
  MaxFaults   \* bound on transactions that fail or crash

AttemptRow ==
  [status : {"SUCCEEDED", "FAILED"}, errorMessage : FailureReasons \cup {"null"}]

Steps == {"idle", "lockEvent", "rules", "findHolder", "saveIntent", "finish"}

Tx ==
  [pc : Steps,
   event : Events \cup {NoEvent},
   row : EventRow,                        \* uncommitted version of the event row
   locked : SUBSET Intents,               \* payment_intents rows locked
   confirms : TxHash \cup {NoTxHash}]     \* uncommitted confirmed_tx_hash

ASSUME ProcessorAssumption == NoEvent \notin Events /\ MaxFaults \in Nat

VARIABLES
  events,    \* webhook_events: status and failure_reason
  payloads,  \* webhook_events.payload, never updated
  attempts,  \* webhook_processing_attempts, as the set of distinct rows
  intents,   \* payment_intents: status and confirmed_tx_hash
  tx,        \* the transaction each worker runs
  faults

vars == <<events, payloads, attempts, intents, tx, faults>>

NoTx == [pc |-> "idle", event |-> NoEvent, row |-> Undecided,
         locked |-> {}, confirms |-> NoTxHash]

-----------------------------------------------------------------------------
(* Initial states *)

Init ==
  /\ payloads \in [Events -> Payloads]
  /\ events \in [Events -> InitialEvents]
  /\ attempts = [e \in Events |-> {}]
  /\ intents \in {t \in [Intents -> InitialIntents] : MigratedHashes(t)}
  /\ tx = [w \in Workers |-> NoTx]
  /\ faults = 0

-----------------------------------------------------------------------------
(* The worker transaction *)

HoldsEvent(w, e) == tx[w].event = e /\ tx[w].pc \notin {"idle", "lockEvent"}

EventLocked(e) == \E w \in Workers : HoldsEvent(w, e)

IntentLocked(p) == \E w \in Workers : p \in tx[w].locked

PayloadOf(w) == payloads[tx[w].event]

HashOf(w) == normalizeTxHash(PayloadOf(w).txHash)

\* markWebhookProcessed / failWebhookEvent: the event row is saved and the
\* attempt row inserted; nothing but the commit is left.
Finish(w, row, locks, hash) ==
  tx' = [tx EXCEPT ![w] = [pc |-> "finish", event |-> tx[w].event, row |-> row,
                           locked |-> locks, confirms |-> hash]]

\* BullMQ hands worker w a job for event e: a first delivery, a retry, a
\* duplicate, or a stalled job that another worker still runs.
Deliver(w, e) ==
  /\ tx[w].pc = "idle"
  /\ tx' = [tx EXCEPT ![w].pc = "lockEvent", ![w].event = e]
  /\ UNCHANGED <<events, payloads, attempts, intents, faults>>

\* The early returns of processWebhookEvent.
Final(row) == row.status \in {"PROCESSED", "FAILED"}

\* Mutant of LockWebhookEvent: the SELECT has no FOR UPDATE.
LockWebhookEventWithoutLock(w) ==
  /\ tx[w].pc = "lockEvent"
  /\ IF Final(events[tx[w].event])
       THEN Finish(w, events[tx[w].event], {}, NoTxHash)
       ELSE tx' = [tx EXCEPT ![w].pc = "rules", ![w].row = Undecided]
  /\ UNCHANGED <<events, payloads, attempts, intents, faults>>

\* lockWebhookEvent, then the PROCESSED and FAILED early returns or the save
\* of PROCESSING.
LockWebhookEvent(w) ==
  /\ tx[w].pc = "lockEvent"
  /\ ~EventLocked(tx[w].event)
  /\ LET row == events[tx[w].event] IN
       IF Final(row)
         THEN Finish(w, row, {}, NoTxHash)
         ELSE tx' = [tx EXCEPT ![w].pc = "rules",
                               ![w].row = Undecided]
  /\ UNCHANGED <<events, payloads, attempts, intents, faults>>

RejectPayload(w) ==
  /\ tx[w].pc = "rules"
  /\ PayloadFailure(PayloadOf(w)) # "null"
  /\ Finish(w, Failed(PayloadFailure(PayloadOf(w))), {}, NoTxHash)
  /\ UNCHANGED <<events, payloads, attempts, intents, faults>>

\* No committed row has the id: the SELECT ... FOR UPDATE returns nothing.
UnknownPaymentIntent(w) ==
  /\ tx[w].pc = "rules"
  /\ PayloadFailure(PayloadOf(w)) = "null"
  /\ LET p == PayloadOf(w).paymentIntentId IN
       p \in Intents => intents[p].status = "ABSENT"
  /\ Finish(w, Failed("UNKNOWN_PAYMENT_INTENT"), {}, NoTxHash)
  /\ UNCHANGED <<events, payloads, attempts, intents, faults>>

\* lockPaymentIntent waits for the row lock; the rules on the row follow.
LockPaymentIntent(w) ==
  /\ tx[w].pc = "rules"
  /\ PayloadFailure(PayloadOf(w)) = "null"
  /\ LET p == PayloadOf(w).paymentIntentId IN
       /\ p \in Intents
       /\ intents[p].status # "ABSENT"
       /\ ~IntentLocked(p)
       /\ LET verdict == IntentVerdict(PayloadOf(w), p, intents[p]) IN
            IF verdict # Undecided
              THEN Finish(w, verdict, {p}, NoTxHash)
              ELSE tx' = [tx EXCEPT ![w].pc = "findHolder", ![w].locked = {p}]
  /\ UNCHANGED <<events, payloads, attempts, intents, faults>>

\* Mutant of FindHolder: the lookup is left to the unique index.
FindHolderSkipped(w) ==
  /\ tx[w].pc = "findHolder"
  /\ tx' = [tx EXCEPT ![w].pc = "saveIntent"]
  /\ UNCHANGED <<events, payloads, attempts, intents, faults>>

\* The lookup by confirmed_tx_hash ... FOR UPDATE: it finds no committed row,
\* or waits for the lock of the row it finds and rejects the event.
FindHolder(w) ==
  /\ tx[w].pc = "findHolder"
  /\ LET others == HoldersIn(intents, HashOf(w)) \ {PayloadOf(w).paymentIntentId} IN
       \/ /\ others = {}
          /\ tx' = [tx EXCEPT ![w].pc = "saveIntent"]
       \/ \E q \in others :
            /\ ~IntentLocked(q)
            /\ Finish(w, Failed("CONFIRMED_TX_HASH_CONFLICT"),
                      tx[w].locked \cup {q}, NoTxHash)
  /\ UNCHANGED <<events, payloads, attempts, intents, faults>>

\* Some other transaction has entered the hash into the unique index and has
\* not ended yet.
HashInFlight(w) == \E v \in Workers \ {w} : tx[v].confirms = HashOf(w)

\* Mutant of SaveIntent: the intent is saved outside the transaction.
SaveIntentAutocommits(w) ==
  /\ tx[w].pc = "saveIntent"
  /\ ~HashInFlight(w)
  /\ HoldersIn(intents, HashOf(w)) \ {PayloadOf(w).paymentIntentId} = {}
  /\ Finish(w, Processed, tx[w].locked, HashOf(w))
  /\ intents' = [intents EXCEPT ![PayloadOf(w).paymentIntentId] =
                   [status |-> "CONFIRMED", confirmedTxHash |-> HashOf(w)]]
  /\ UNCHANGED <<events, payloads, attempts, faults>>

\* manager.save(paymentIntent): the UPDATE waits while the hash is in flight,
\* then succeeds, or violates the index and the transaction rolls back (the
\* job attempt fails and BullMQ retries it).
SaveIntent(w) ==
  /\ tx[w].pc = "saveIntent"
  /\ ~HashInFlight(w)
  /\ IF HoldersIn(intents, HashOf(w)) \ {PayloadOf(w).paymentIntentId} = {}
       THEN Finish(w, Processed, tx[w].locked, HashOf(w))
       ELSE tx' = [tx EXCEPT ![w] = NoTx]
  /\ UNCHANGED <<events, payloads, attempts, intents, faults>>

AttemptOf(row) ==
  [status |-> IF row.status = "PROCESSED" THEN "SUCCEEDED" ELSE "FAILED",
   errorMessage |-> row.failureReason]

Commit(w) ==
  /\ tx[w].pc = "finish"
  /\ LET e == tx[w].event
         p == PayloadOf(w).paymentIntentId
     IN /\ events' = [events EXCEPT ![e] = tx[w].row]
        /\ attempts' = [attempts EXCEPT ![e] = @ \cup {AttemptOf(tx[w].row)}]
        /\ intents' = IF tx[w].confirms = NoTxHash THEN intents
                      ELSE [intents EXCEPT ![p] =
                              [status |-> "CONFIRMED",
                               confirmedTxHash |-> tx[w].confirms]]
  /\ tx' = [tx EXCEPT ![w] = NoTx]
  /\ UNCHANGED <<payloads, faults>>

\* A statement throws, the connection drops or the process dies: PostgreSQL
\* rolls back and releases the locks.
Fail(w) ==
  /\ tx[w].pc # "idle"
  /\ faults < MaxFaults
  /\ faults' = faults + 1
  /\ tx' = [tx EXCEPT ![w] = NoTx]
  /\ UNCHANGED <<events, payloads, attempts, intents>>

-----------------------------------------------------------------------------
(* The rest of the gateway, as this transaction meets it *)

\* The dispatcher's conditional update waits for the row lock.
MarkWebhookQueued(e) ==
  /\ ~EventLocked(e)
  /\ events[e].status = "RECEIVED"
  /\ events' = [events EXCEPT ![e].status = "QUEUED"]
  /\ UNCHANGED <<payloads, attempts, intents, tx, faults>>

\* POST /payment-intents commits a new row.
CreatePaymentIntent(p) ==
  /\ intents[p].status = "ABSENT"
  /\ intents' = [intents EXCEPT ![p].status = "CREATED"]
  /\ UNCHANGED <<events, payloads, attempts, tx, faults>>

TxStep(w) ==
  \/ LockWebhookEvent(w)
  \/ RejectPayload(w)
  \/ UnknownPaymentIntent(w)
  \/ LockPaymentIntent(w)
  \/ FindHolder(w)
  \/ SaveIntent(w)
  \/ Commit(w)

Next ==
  \/ \E w \in Workers, e \in Events : Deliver(w, e)
  \/ \E w \in Workers : TxStep(w) \/ Fail(w)
  \/ \E e \in Events : MarkWebhookQueued(e)
  \/ \E p \in Intents : CreatePaymentIntent(p)

Spec == Init /\ [][Next]_vars

-----------------------------------------------------------------------------
(* Properties *)

CommittedStatus == {"RECEIVED", "QUEUED", "PROCESSED", "FAILED"}

\* The tables and transactions are well formed; in particular PROCESSING, which
\* processWebhookEvent saves inside its transaction, is never committed.
TypeOK ==
  /\ payloads \in [Events -> Payload]
  /\ events \in [Events -> EventRow]
  /\ \A e \in Events : events[e].status \in CommittedStatus
  /\ attempts \in [Events -> SUBSET AttemptRow]
  /\ intents \in [Intents -> IntentRow]
  /\ tx \in [Workers -> Tx]
  /\ \A w \in Workers : tx[w].pc # "idle" => tx[w].event \in Events
  /\ faults \in 0..MaxFaults

\* The payload agrees with the terms and the confirmed hash of the intent.
Pays(payload, p) ==
  /\ payload.type = "transaction.confirmed"
  /\ payload.txHash \in TxHash
  /\ validatePayloadMatchesPaymentIntent(payload, p) = "null"
  /\ intents[p].status = "CONFIRMED"
  /\ intents[p].confirmedTxHash \in TxHash
  /\ normalizeTxHash(intents[p].confirmedTxHash) = normalizeTxHash(payload.txHash)

\* A PROCESSED event has paid: the intent it names is CONFIRMED, with the
\* event's hash, amount and asset (applyProcessingRules reaches
\* markWebhookProcessed on no other path, and never leaves CONFIRMED).
ProcessedMeansPaid ==
  \A e \in Events : events[e].status = "PROCESSED" =>
    /\ payloads[e].paymentIntentId \in Intents
    /\ Pays(payloads[e], payloads[e].paymentIntentId)

\* The reason a FAILED event stores is a fact about the committed tables, and
\* stays one whatever commits later.  UNKNOWN_PAYMENT_INTENT alone may become
\* out of date: the intent can be created after the worker has looked.
RejectionStaysTrue ==
  \A e \in Events : events[e].status = "FAILED" =>
    LET payload == payloads[e]
        p == payload.paymentIntentId
        reason == events[e].failureReason
    IN /\ reason # "null"
       /\ reason \in {"UNSUPPORTED_EVENT_TYPE", "MISSING_TX_HASH"} =>
            PayloadFailure(payload) = reason
       /\ reason \in {"AMOUNT_MISMATCH", "ASSET_MISMATCH"} =>
            validatePayloadMatchesPaymentIntent(payload, p) = reason
       /\ reason = "PAYMENT_INTENT_TERMINAL" =>
            /\ intents[p].status \in {"CONFIRMED", "FAILED", "EXPIRED"}
            /\ ~Pays(payload, p)
       /\ reason = "CONFIRMED_TX_HASH_CONFLICT" =>
            HoldersIn(intents, normalizeTxHash(payload.txHash)) \ {p} # {}

\* The audit trail agrees with the inbox: an open event has no attempt row, a
\* decided one has rows of its own outcome only, however many jobs ran for it.
AttemptsMatchOutcome ==
  \A e \in Events :
    /\ attempts[e] = {} <=> Open(events[e])
    /\ \A attempt \in attempts[e] :
         /\ attempt.status = "SUCCEEDED" <=> events[e].status = "PROCESSED"
         /\ attempt.errorMessage = events[e].failureReason

\* Worker w waits for a lock, or for the index entry, of worker v.
WaitsFor(w, v) ==
  /\ w # v
  /\ \/ /\ tx[w].pc = "lockEvent"
        /\ HoldsEvent(v, tx[w].event)
     \/ /\ tx[w].pc = "rules"
        /\ PayloadFailure(PayloadOf(w)) = "null"
        /\ PayloadOf(w).paymentIntentId \in tx[v].locked
     \/ /\ tx[w].pc = "findHolder"
        /\ HoldersIn(intents, HashOf(w)) \cap tx[v].locked # {}
     \/ /\ tx[w].pc = "saveIntent"
        /\ tx[v].confirms = HashOf(w)

\* No set of workers waits for itself: the order event, intent, holder of the
\* hash, index entry in which applyProcessingRules locks cannot deadlock, so
\* PostgreSQL never has to kill one of these transactions.
NoDeadlock ==
  \A S \in (SUBSET Workers) \ {{}} :
    \E w \in S : \A v \in S : ~WaitsFor(w, v)

\* PROCESSED and FAILED events, and CONFIRMED, FAILED and EXPIRED intents, are
\* final: no job, duplicate or late, changes such a row again.
FinalRowsNeverChange ==
  [][/\ \A e \in Events :
          events[e].status \in {"PROCESSED", "FAILED"} => events'[e] = events[e]
     /\ \A p \in Intents :
          intents[p].status \in {"CONFIRMED", "FAILED", "EXPIRED"} =>
            intents'[p] = intents[p]]_vars

\* A transaction hash confirms at most one intent: when an intent becomes
\* CONFIRMED no other one holds that hash in any spelling, concurrent
\* confirmations and rows confirmed before normalization included.
HashConfirmsOnce ==
  [][\A p \in Intents :
       intents[p].status # "CONFIRMED" /\ intents'[p].status = "CONFIRMED" =>
         \A q \in Intents \ {p} :
           intents'[q].status = "CONFIRMED" =>
             intents'[q].confirmedTxHash.id # intents'[p].confirmedTxHash.id]_vars

\* An intent becomes CONFIRMED only in the commit that makes an event naming it
\* PROCESSED: no crash or rollback separates the two rows.
ConfirmedWithItsEvent ==
  [][\A p \in Intents :
       intents[p].status # "CONFIRMED" /\ intents'[p].status = "CONFIRMED" =>
         \E e \in Events :
           /\ Open(events[e])
           /\ events'[e].status = "PROCESSED"
           /\ payloads[e].paymentIntentId = p
           /\ normalizeTxHash(payloads[e].txHash)
                = intents'[p].confirmedTxHash]_vars

-----------------------------------------------------------------------------
(* The inductive invariant of the proofs *)

\* Worker w has passed the payload rules and holds the lock of an intent that
\* may still be confirmed.
MayConfirm(w) ==
  LET p == PayloadOf(w).paymentIntentId IN
  /\ PayloadFailure(PayloadOf(w)) = "null"
  /\ p \in Intents
  /\ intents[p].status # "ABSENT"
  /\ IntentVerdict(PayloadOf(w), p, intents[p]) = Undecided
  /\ tx[w].locked = {p}

\* What the steps of worker w may rely on.
TxOK(w) ==
  /\ tx[w].pc \in {"idle", "lockEvent", "rules"} => tx[w].locked = {}
  /\ tx[w].pc # "finish" => tx[w].confirms = NoTxHash /\ tx[w].row.status # "PROCESSED"
  /\ tx[w].pc \in {"rules", "findHolder", "saveIntent"} => Open(events[tx[w].event])
  /\ tx[w].pc \in {"findHolder", "saveIntent"} => MayConfirm(w)
  /\ tx[w].pc = "finish" => Final(tx[w].row)
  /\ tx[w].pc = "finish" /\ ~Open(events[tx[w].event]) =>
       tx[w].row = events[tx[w].event] /\ tx[w].confirms = NoTxHash
  /\ tx[w].confirms # NoTxHash =>
       /\ tx[w].row = Processed
       /\ MayConfirm(w)
       /\ tx[w].confirms = HashOf(w)
  /\ tx[w].row.status = "PROCESSED" /\ tx[w].confirms = NoTxHash =>
       /\ PayloadOf(w).paymentIntentId \in Intents
       /\ Pays(PayloadOf(w), PayloadOf(w).paymentIntentId)

TxInv == \A w \in Workers : TxOK(w)

\* Row locks exclude each other.
LockInv ==
  \A w, v \in Workers : w # v =>
    /\ tx[w].locked \cap tx[v].locked = {}
    /\ \A e \in Events : ~(HoldsEvent(w, e) /\ HoldsEvent(v, e))

\* The unique index, uncommitted entries included: a hash is committed once,
\* entered by one transaction at a time, and never both.
HashInv ==
  /\ \A p \in Intents :
       intents[p].confirmedTxHash # NoTxHash <=> intents[p].status = "CONFIRMED"
  /\ MigratedHashes(intents)
  /\ \A w \in Workers : tx[w].confirms # NoTxHash =>
       /\ HoldersIn(intents, tx[w].confirms) = {}
       /\ \A v \in Workers \ {w} : tx[v].confirms # tx[w].confirms

IInv == TypeOK /\ TxInv /\ LockInv /\ HashInv /\ ProcessedMeansPaid

-----------------------------------------------------------------------------
(* Refinement *)

\* Events a running transaction is about to reject as UNKNOWN_PAYMENT_INTENT.
LookedUpMissing ==
  {e \in Events :
     /\ Open(events[e])
     /\ \E w \in Workers :
          /\ HoldsEvent(w, e)
          /\ tx[w].row = Failed("UNKNOWN_PAYMENT_INTENT")}

Ledger == INSTANCE PaymentLedger WITH missing <- LookedUpMissing

\* Concurrent worker transactions are serializable: each commit is one step of
\* the PaymentLedger, which decides by the committed tables at that moment.
ImplementsLedger == Ledger!Spec

-----------------------------------------------------------------------------
(* Liveness *)

\* A running transaction keeps running (lock waits end when the holder ends:
\* no statement_timeout is set), and a job for every event is delivered again
\* and again: BullMQ serves its wait list in order, retries failed attempts,
\* and the reconciler republishes exhausted ones.
Fairness ==
  /\ \A w \in Workers : WF_vars(TxStep(w))
  /\ \A e \in Events : SF_vars(\E w \in Workers : Deliver(w, e))

FairSpec == Spec /\ Fairness

\* Every event is decided once the faults stop; in particular the loser of a
\* race on confirmed_tx_hash, whose attempt the unique index rolled back, is
\* decided by a retry and does not collide forever.
EveryEventDecided == \A e \in Events : <>~Open(events[e])
=============================================================================
