------------------------- MODULE EventProcessorProofs -------------------------
(***************************************************************************)
(* Proofs about EventProcessor, for any number of workers, events, intents *)
(* and faults.  IInv is inductive; most properties follow from it.  That   *)
(* the processor implements PaymentLedger, and that rejections stay true,  *)
(* needs DecisionInv too: decisions rest on the tables as they are.        *)
(***************************************************************************)
EXTENDS EventProcessor, TLAPS

-----------------------------------------------------------------------------
(* Data *)

\* normalizeTxHash yields the canonical spelling of the same hash, and is
\* idempotent.
LEMMA NormalizeType ==
  ASSUME NEW h \in TxHash
  PROVE  /\ normalizeTxHash(h) \in TxHash
         /\ normalizeTxHash(h).id = h.id
         /\ normalizeTxHash(h).spelling = "canonical"
         /\ normalizeTxHash(normalizeTxHash(h)) = normalizeTxHash(h)
BY Zenon DEF TxHash, normalizeTxHash

\* Two spellings of a hash have the same canonical form.
LEMMA NormalizeSame ==
  ASSUME NEW g \in TxHash, NEW h \in TxHash
  PROVE  g.id = h.id <=> normalizeTxHash(g) = normalizeTxHash(h)
BY DEF TxHash, normalizeTxHash

\* A payload rule yields a failure reason or "null".
LEMMA PayloadFailureType ==
  ASSUME NEW payload
  PROVE  PayloadFailure(payload) \in FailureReasons \cup {"null"}
BY DEF PayloadFailure, FailureReasons

\* The same for the comparison with the intent's terms.
LEMMA MismatchType ==
  ASSUME NEW payload, NEW p
  PROVE  validatePayloadMatchesPaymentIntent(payload, p) \in FailureReasons \cup {"null"}
BY DEF validatePayloadMatchesPaymentIntent, FailureReasons

\* The rows the rules can produce are event rows, and FAILED, PROCESSED and
\* undecided rows differ.
LEMMA RowTypes ==
  /\ Processed \in EventRow /\ Undecided \in EventRow
  /\ \A reason \in FailureReasons :
       Failed(reason) \in EventRow /\ Failed(reason).status = "FAILED"
  /\ Processed.status = "PROCESSED" /\ Undecided.status = "PROCESSING"
BY DEF Processed, Undecided, Failed, EventRow

\* A worker without a transaction holds and has written nothing.
LEMMA NoTxFields ==
  /\ NoTx \in Tx
  /\ NoTx.pc = "idle"
  /\ NoTx.locked = {}
  /\ NoTx.confirms = NoTxHash
  /\ NoTx.row.status # "PROCESSED"
BY RowTypes DEF NoTx, Tx, Steps

\* A stored event that no job has decided is RECEIVED or QUEUED.
LEMMA InitialEventsOpen ==
  ASSUME NEW row \in InitialEvents
  PROVE  row.status \in {"RECEIVED", "QUEUED"}
BY DEF InitialEvents

\* The fields of the row that a confirmation writes.
LEMMA ConfirmedRow ==
  ASSUME NEW row, NEW h, row = [status |-> "CONFIRMED", confirmedTxHash |-> h]
  PROVE  row.status = "CONFIRMED" /\ row.confirmedTxHash = h
OBVIOUS

\* The fields of a transaction after its last save.
LEMMA FinishedTx ==
  ASSUME NEW t, NEW e, NEW row, NEW locks, NEW hash,
         t = [pc |-> "finish", event |-> e, row |-> row, locked |-> locks,
              confirms |-> hash]
  PROVE  /\ t.pc = "finish" /\ t.event = e
         /\ t.row = row /\ t.locked = locks /\ t.confirms = hash
OBVIOUS

\* IntentVerdict is undecided, PROCESSED or FAILED; PROCESSED only for a
\* CONFIRMED row with the payload's hash, undecided only for an open row.
LEMMA VerdictCases ==
  ASSUME NEW payload, NEW p, NEW row \in IntentRow
  PROVE  LET verdict == IntentVerdict(payload, p, row) IN
         /\ verdict \in EventRow
         /\ verdict # Undecided => Final(verdict)
         /\ verdict.status = "PROCESSED" =>
              /\ validatePayloadMatchesPaymentIntent(payload, p) = "null"
              /\ row.status = "CONFIRMED"
              /\ row.confirmedTxHash # NoTxHash
              /\ normalizeTxHash(row.confirmedTxHash) = normalizeTxHash(payload.txHash)
         /\ verdict = Undecided =>
              /\ validatePayloadMatchesPaymentIntent(payload, p) = "null"
              /\ row.status \notin {"CONFIRMED", "FAILED", "EXPIRED"}
<1> DEFINE mismatch == validatePayloadMatchesPaymentIntent(payload, p)
<1>1. mismatch \in FailureReasons \cup {"null"}
  BY MismatchType
<1>2. "PAYMENT_INTENT_TERMINAL" \in FailureReasons
  BY DEF FailureReasons
<1>3. "null" \notin FailureReasons
  BY DEF FailureReasons
<1> HIDE DEF mismatch
<1>4. IntentVerdict(payload, p, row) =
        IF mismatch # "null" THEN Failed(mismatch)
        ELSE IF row.status = "CONFIRMED"
          THEN IF /\ row.confirmedTxHash # NoTxHash
                  /\ normalizeTxHash(row.confirmedTxHash) = normalizeTxHash(payload.txHash)
               THEN Processed
               ELSE Failed("PAYMENT_INTENT_TERMINAL")
        ELSE IF row.status \in {"FAILED", "EXPIRED"}
          THEN Failed("PAYMENT_INTENT_TERMINAL")
        ELSE Undecided
  BY DEF IntentVerdict, mismatch
<1> QED
  BY <1>1, <1>2, <1>3, <1>4, RowTypes DEF Final, mismatch

-----------------------------------------------------------------------------
(* Steps that change one transaction and no table *)

Holding(t) == t.pc \notin {"idle", "lockEvent"}

\* A step that only replaces worker w's transaction by t preserves the invariant
\* if t is what TxOK asks for and takes no lock, event or hash of another worker.
LEMMA OwnStep ==
  ASSUME IInv, NEW w \in Workers, NEW t \in Tx,
         tx' = [tx EXCEPT ![w] = t],
         UNCHANGED <<events, payloads, attempts, intents>>,
         faults' \in 0..MaxFaults,
         t.pc # "idle" => t.event \in Events,
         TxOK(w)',
         \A v \in Workers \ {w} :
           /\ t.locked \cap tx[v].locked = {}
           /\ Holding(t) /\ Holding(tx[v]) => t.event # tx[v].event
           /\ t.confirms # NoTxHash => tx[v].confirms # t.confirms,
         t.confirms # NoTxHash => HoldersIn(intents, t.confirms) = {}
  PROVE  IInv'
<1>1. /\ tx \in [Workers -> Tx]
      /\ tx' \in [Workers -> Tx]
      /\ tx'[w] = t
      /\ \A v \in Workers \ {w} : tx'[v] = tx[v]
  BY DEF IInv, TypeOK
<1>2. TypeOK'
  BY <1>1 DEF IInv, TypeOK
<1>3. TxInv'
  <2> SUFFICES ASSUME NEW v \in Workers, v # w PROVE TxOK(v)'
    BY DEF TxInv
  <2>1. TxOK(v)
    BY DEF IInv, TxInv
  <2> QED
    BY <1>1, <2>1, Zenon DEF TxOK, MayConfirm, PayloadOf, HashOf, Pays
<1>4. LockInv'
  <2> SUFFICES ASSUME NEW u \in Workers, NEW v \in Workers, u # v
               PROVE  /\ tx'[u].locked \cap tx'[v].locked = {}
                      /\ \A e \in Events : ~(HoldsEvent(u, e)' /\ HoldsEvent(v, e)')
    BY DEF LockInv
  <2>1. /\ tx[u].locked \cap tx[v].locked = {}
        /\ \A e \in Events : ~(HoldsEvent(u, e) /\ HoldsEvent(v, e))
    BY DEF IInv, LockInv
  <2>2. CASE u = w
    BY <1>1, <2>2 DEF HoldsEvent, Holding
  <2>3. CASE v = w
    BY <1>1, <2>3 DEF HoldsEvent, Holding
  <2>4. CASE u # w /\ v # w
    BY <1>1, <2>1, <2>4 DEF HoldsEvent
  <2> QED
    BY <2>2, <2>3, <2>4
<1>5. HashInv'
  <2>1. HashInv
    BY DEF IInv
  <2>2. (\A p \in Intents :
          intents[p].confirmedTxHash # NoTxHash <=> intents[p].status = "CONFIRMED")'
    BY <2>1 DEF HashInv
  <2>3. MigratedHashes(intents)'
    BY <2>1 DEF HashInv, MigratedHashes
  <2>4. ASSUME NEW u \in Workers, tx'[u].confirms # NoTxHash
        PROVE  /\ HoldersIn(intents', tx'[u].confirms) = {}
               /\ \A v \in Workers \ {u} : tx'[v].confirms # tx'[u].confirms
    <3>1. CASE u = w
      BY <1>1, <2>4, <3>1 DEF HoldersIn
    <3>2. CASE u # w
      <4>1. /\ HoldersIn(intents, tx[u].confirms) = {}
            /\ \A v \in Workers \ {u} : tx[v].confirms # tx[u].confirms
        BY <1>1, <2>1, <2>4, <3>2 DEF HashInv
      <4>2. t.confirms # tx[u].confirms
        BY <1>1, <2>4, <3>2
      <4> QED
        BY <1>1, <3>2, <4>1, <4>2 DEF HoldersIn
    <3> QED
      BY <3>1, <3>2
  <2> QED
    BY <2>2, <2>3, <2>4 DEF HashInv
<1>6. ProcessedMeansPaid'
  BY DEF IInv, ProcessedMeansPaid, Pays
<1> QED
  BY <1>2, <1>3, <1>4, <1>5, <1>6 DEF IInv

\* No transaction: what Fail and a violated unique index leave.
LEMMA NoTxStep ==
  ASSUME IInv, NEW w \in Workers, tx' = [tx EXCEPT ![w] = NoTx],
         UNCHANGED <<events, payloads, attempts, intents>>,
         faults' \in 0..MaxFaults
  PROVE  IInv'
<1>1. tx'[w] = NoTx
  BY DEF IInv, TypeOK
<1>2. TxOK(w)'
  BY <1>1, NoTxFields DEF TxOK
<1>3. ~Holding(NoTx)
  BY NoTxFields DEF Holding
<1> QED
  BY <1>2, <1>3, NoTxFields, OwnStep, Zenon

\* A new job locks nothing yet.
LEMMA DeliverStep ==
  ASSUME IInv, NEW w \in Workers, NEW e \in Events, Deliver(w, e)
  PROVE  IInv'
<1> DEFINE t == [tx[w] EXCEPT !.pc = "lockEvent", !.event = e]
<1>1. /\ tx[w] \in Tx
      /\ tx \in [Workers -> Tx]
      /\ TxOK(w)
      /\ faults \in 0..MaxFaults
  BY DEF IInv, TypeOK, TxInv
<1>2. /\ t \in Tx
      /\ t.pc = "lockEvent" /\ t.event = e
      /\ t.row = tx[w].row /\ t.locked = tx[w].locked /\ t.confirms = tx[w].confirms
  BY <1>1, Zenon DEF Tx, Steps
<1>3. tx' = [tx EXCEPT ![w] = t]
  BY <1>1, Zenon DEF Deliver
<1>4. tx[w].locked = {} /\ tx[w].confirms = NoTxHash /\ tx[w].row.status # "PROCESSED"
  BY <1>1 DEF TxOK, Deliver
<1>5. tx'[w] = t
  BY <1>1, <1>3
<1> HIDE DEF t
<1>6. TxOK(w)'
  BY <1>2, <1>4, <1>5 DEF TxOK
<1>7. /\ ~Holding(t)
      /\ t.locked = {}
      /\ t.confirms = NoTxHash
  BY <1>2, <1>4 DEF Holding
<1>8. /\ UNCHANGED <<events, payloads, attempts, intents>>
      /\ faults' \in 0..MaxFaults
  BY <1>1 DEF Deliver
<1>9. t \in Tx /\ t.event \in Events
  BY <1>2
<1> QED
  BY <1>3, <1>6, <1>7, <1>8, <1>9, OwnStep, Zenon

\* The last save of a transaction preserves the invariant if the row it is about
\* to commit is justified and its locks and hash are its own.
LEMMA FinishStep ==
  ASSUME IInv, NEW w \in Workers, tx[w].pc # "idle",
         NEW row \in EventRow, NEW locks \in SUBSET Intents,
         NEW hash \in TxHash \cup {NoTxHash},
         Finish(w, row, locks, hash),
         UNCHANGED <<events, payloads, attempts, intents, faults>>,
         Final(row),
         ~Open(events[tx[w].event]) => row = events[tx[w].event] /\ hash = NoTxHash,
         hash # NoTxHash =>
           /\ row = Processed
           /\ MayConfirm(w)
           /\ locks = tx[w].locked
           /\ hash = HashOf(w)
           /\ HoldersIn(intents, hash) = {},
         row.status = "PROCESSED" /\ hash = NoTxHash =>
           /\ PayloadOf(w).paymentIntentId \in Intents
           /\ Pays(PayloadOf(w), PayloadOf(w).paymentIntentId),
         \A v \in Workers \ {w} :
           /\ locks \cap tx[v].locked = {}
           /\ ~HoldsEvent(v, tx[w].event)
           /\ hash # NoTxHash => tx[v].confirms # hash
  PROVE  IInv'
<1> DEFINE t == [pc |-> "finish", event |-> tx[w].event, row |-> row,
                 locked |-> locks, confirms |-> hash]
<1>1. /\ tx[w] \in Tx
      /\ tx \in [Workers -> Tx]
      /\ faults \in 0..MaxFaults
      /\ tx[w].event \in Events
  BY DEF IInv, TypeOK
<1>2. t \in Tx
  BY <1>1 DEF Tx, Steps
<1>3. tx' = [tx EXCEPT ![w] = t]
  BY DEF Finish
<1>4. tx'[w] = t
  BY <1>1, <1>3
<1>5. /\ PayloadOf(w)' = PayloadOf(w)
      /\ HashOf(w)' = HashOf(w)
  BY <1>4 DEF PayloadOf, HashOf
<1>6. TxOK(w)'
  <2>1. /\ tx'[w].pc = "finish" /\ tx'[w].event = tx[w].event
        /\ tx'[w].row = row /\ tx'[w].locked = locks /\ tx'[w].confirms = hash
    <3>1. /\ t.pc = "finish" /\ t.event = tx[w].event
          /\ t.row = row /\ t.locked = locks /\ t.confirms = hash
      BY FinishedTx
    <3> HIDE DEF t
    <3> QED
      BY <1>4, <3>1
  <2>2. events'[tx'[w].event] = events[tx[w].event]
    BY <2>1
  <2>3. hash # NoTxHash => MayConfirm(w)'
    BY <1>5, <2>1 DEF MayConfirm
  <2>4. Pays(PayloadOf(w), PayloadOf(w).paymentIntentId) =>
          Pays(PayloadOf(w), PayloadOf(w).paymentIntentId)'
    BY <1>5 DEF Pays
  <2> QED
    BY <1>5, <2>1, <2>2, <2>3, <2>4 DEF TxOK
<1>7. \A v \in Workers \ {w} : Holding(tx[v]) => t.event # tx[v].event
  BY DEF HoldsEvent, Holding
<1> QED
  BY <1>1, <1>2, <1>3, <1>6, <1>7, OwnStep, Zenon

\* Past lockEvent, the event is worker w's own.
LEMMA OwnEvent ==
  ASSUME IInv, NEW w \in Workers, tx[w].pc \notin {"idle", "lockEvent"},
         NEW v \in Workers, v # w
  PROVE  ~HoldsEvent(v, tx[w].event)
BY DEF IInv, TypeOK, LockInv, HoldsEvent

\* lockWebhookEvent gives worker w an event no other worker holds; a final row is
\* committed again as it is.
LEMMA LockWebhookEventStep ==
  ASSUME IInv, NEW w \in Workers, LockWebhookEvent(w)
  PROVE  IInv'
<1>1. /\ tx[w] \in Tx
      /\ tx \in [Workers -> Tx]
      /\ faults \in 0..MaxFaults
      /\ tx[w].event \in Events
      /\ events[tx[w].event] \in EventRow
      /\ events[tx[w].event].status \in CommittedStatus
      /\ tx[w].pc = "lockEvent"
      /\ TxOK(w)
  BY DEF IInv, TypeOK, TxInv, LockWebhookEvent
<1>2. \A v \in Workers : ~HoldsEvent(v, tx[w].event)
  BY DEF LockWebhookEvent, EventLocked
<1>3. CASE Final(events[tx[w].event])
  <2>1. Finish(w, events[tx[w].event], {}, NoTxHash)
    BY <1>3 DEF LockWebhookEvent
  <2>2. events[tx[w].event].status = "PROCESSED" =>
          /\ PayloadOf(w).paymentIntentId \in Intents
          /\ Pays(PayloadOf(w), PayloadOf(w).paymentIntentId)
    BY <1>1 DEF IInv, ProcessedMeansPaid, PayloadOf
  <2> QED
    BY <1>1, <1>2, <1>3, <2>1, <2>2, FinishStep DEF LockWebhookEvent
<1>4. CASE ~Final(events[tx[w].event])
  <2> DEFINE t == [tx[w] EXCEPT !.pc = "rules", !.row = Undecided]
  <2>1. tx' = [tx EXCEPT ![w] = t]
    BY <1>1, <1>4, Zenon DEF LockWebhookEvent
  <2>2. /\ t \in Tx
        /\ t.pc = "rules" /\ t.event = tx[w].event
        /\ t.row = Undecided /\ t.locked = tx[w].locked /\ t.confirms = tx[w].confirms
    BY <1>1, RowTypes, Zenon DEF Tx, Steps
  <2>3. tx'[w] = t
    BY <1>1, <2>1
  <2> HIDE DEF t
  <2>4. t.locked = {} /\ t.confirms = NoTxHash
    BY <1>1, <2>2 DEF TxOK
  <2>5. Open(events[tx[w].event])
    BY <1>1, <1>4 DEF Open, Final, CommittedStatus
  <2>6. TxOK(w)'
    BY <2>2, <2>3, <2>4, <2>5, RowTypes DEF TxOK, LockWebhookEvent
  <2>7. \A v \in Workers \ {w} : Holding(tx[v]) => t.event # tx[v].event
    BY <1>2, <2>2 DEF HoldsEvent, Holding
  <2> QED
    BY <1>1, <2>1, <2>2, <2>4, <2>6, <2>7, OwnStep, Zenon DEF LockWebhookEvent
<1> QED
  BY <1>3, <1>4

\* A rejected payload leaves a FAILED row to commit and no locked intent.
LEMMA RejectPayloadStep ==
  ASSUME IInv, NEW w \in Workers, RejectPayload(w)
  PROVE  IInv'
<1>1. /\ tx[w].pc = "rules"
      /\ PayloadFailure(PayloadOf(w)) \in FailureReasons
      /\ Open(events[tx[w].event])
  BY PayloadFailureType DEF RejectPayload, IInv, TxInv, TxOK
<1>2. \A v \in Workers \ {w} : ~HoldsEvent(v, tx[w].event)
  BY <1>1, OwnEvent
<1> DEFINE row == Failed(PayloadFailure(PayloadOf(w)))
<1>3. row \in EventRow /\ row.status = "FAILED"
  BY <1>1, RowTypes
<1>4. Finish(w, row, {}, NoTxHash)
  BY DEF RejectPayload
<1> HIDE DEF row
<1> QED
  BY <1>1, <1>2, <1>3, <1>4, FinishStep DEF RejectPayload, Final

\* So does an unknown payment intent.
LEMMA UnknownPaymentIntentStep ==
  ASSUME IInv, NEW w \in Workers, UnknownPaymentIntent(w)
  PROVE  IInv'
<1>1. /\ tx[w].pc = "rules"
      /\ Open(events[tx[w].event])
  BY DEF UnknownPaymentIntent, IInv, TxInv, TxOK
<1>2. \A v \in Workers \ {w} : ~HoldsEvent(v, tx[w].event)
  BY <1>1, OwnEvent
<1> DEFINE row == Failed("UNKNOWN_PAYMENT_INTENT")
<1>3. row \in EventRow /\ row.status = "FAILED"
  BY RowTypes DEF FailureReasons
<1>4. Finish(w, row, {}, NoTxHash)
  BY DEF UnknownPaymentIntent
<1> HIDE DEF row
<1> QED
  BY <1>1, <1>2, <1>3, <1>4, FinishStep DEF UnknownPaymentIntent, Final

\* A payload that passed the payload rules has a hash.
LEMMA PayloadHash ==
  ASSUME IInv, NEW w \in Workers, tx[w].pc # "idle",
         PayloadFailure(PayloadOf(w)) = "null"
  PROVE  /\ PayloadOf(w) \in Payload
         /\ PayloadOf(w).type = "transaction.confirmed"
         /\ PayloadOf(w).txHash \in TxHash
         /\ HashOf(w) \in TxHash
         /\ HashOf(w) # NoTxHash
<1>1. PayloadOf(w) \in Payload
  BY DEF IInv, TypeOK, PayloadOf
<1>2. /\ PayloadOf(w).type = "transaction.confirmed"
      /\ PayloadOf(w).txHash # NoTxHash
  BY DEF PayloadFailure
<1>3. PayloadOf(w).txHash \in TxHash
  BY <1>1, <1>2 DEF Payload
<1> QED
  BY <1>1, <1>2, <1>3, NormalizeType, DataAssumption DEF HashOf

\* lockPaymentIntent gives worker w an intent no other worker has locked; what
\* the rules decide about the row stays true while the lock is held.
LEMMA LockPaymentIntentStep ==
  ASSUME IInv, NEW w \in Workers, LockPaymentIntent(w)
  PROVE  IInv'
<1> DEFINE p == PayloadOf(w).paymentIntentId
           verdict == IntentVerdict(PayloadOf(w), p, intents[p])
<1>1. /\ tx[w].pc = "rules"
      /\ PayloadFailure(PayloadOf(w)) = "null"
      /\ p \in Intents
      /\ intents[p].status # "ABSENT"
      /\ ~IntentLocked(p)
      /\ UNCHANGED <<events, payloads, attempts, intents, faults>>
      /\ IF verdict # Undecided
           THEN Finish(w, verdict, {p}, NoTxHash)
           ELSE tx' = [tx EXCEPT ![w].pc = "findHolder", ![w].locked = {p}]
  BY DEF LockPaymentIntent
<1>2. /\ tx[w] \in Tx
      /\ tx \in [Workers -> Tx]
      /\ faults \in 0..MaxFaults
      /\ tx[w].event \in Events
      /\ intents[p] \in IntentRow
      /\ TxOK(w)
  BY <1>1 DEF IInv, TypeOK, TxInv
<1>3. /\ Open(events[tx[w].event])
      /\ tx[w].confirms = NoTxHash
      /\ tx[w].row.status # "PROCESSED"
  BY <1>1, <1>2 DEF TxOK
<1>4. \A v \in Workers \ {w} : ~HoldsEvent(v, tx[w].event)
  BY <1>1, OwnEvent
<1>5. \A v \in Workers : {p} \cap tx[v].locked = {}
  BY <1>1 DEF IntentLocked
<1>6. /\ PayloadOf(w).type = "transaction.confirmed"
      /\ PayloadOf(w).txHash \in TxHash
  BY <1>1, PayloadHash
<1>7. CASE verdict # Undecided
  <2>1. verdict \in EventRow /\ Final(verdict)
    BY <1>2, <1>7, VerdictCases
  <2>2. verdict.status = "PROCESSED" => Pays(PayloadOf(w), p)
    <3> SUFFICES ASSUME verdict.status = "PROCESSED" PROVE Pays(PayloadOf(w), p)
      OBVIOUS
    <3>1. /\ validatePayloadMatchesPaymentIntent(PayloadOf(w), p) = "null"
          /\ intents[p].status = "CONFIRMED"
          /\ intents[p].confirmedTxHash # NoTxHash
          /\ normalizeTxHash(intents[p].confirmedTxHash)
               = normalizeTxHash(PayloadOf(w).txHash)
      BY <1>2, VerdictCases
    <3>2. intents[p].confirmedTxHash \in TxHash
      BY <1>2, <3>1 DEF IntentRow
    <3> QED
      BY <1>6, <3>1, <3>2 DEF Pays
  <2>3. Finish(w, verdict, {p}, NoTxHash)
    BY <1>1, <1>7
  <2> HIDE DEF verdict
  <2> QED
    BY <1>1, <1>2, <1>3, <1>4, <1>5, <2>1, <2>2, <2>3, FinishStep
<1>8. CASE verdict = Undecided
  <2> DEFINE t == [tx[w] EXCEPT !.pc = "findHolder", !.locked = {p}]
  <2>1. tx' = [tx EXCEPT ![w] = t]
    BY <1>1, <1>2, <1>8, Zenon
  <2>2. /\ t \in Tx
        /\ t.pc = "findHolder" /\ t.event = tx[w].event
        /\ t.row = tx[w].row /\ t.locked = {p} /\ t.confirms = tx[w].confirms
    BY <1>1, <1>2, Zenon DEF Tx, Steps
  <2>3. tx'[w] = t
    BY <1>2, <2>1
  <2> HIDE DEF t
  <2>4. PayloadOf(w)' = PayloadOf(w)
    BY <1>1, <2>2, <2>3 DEF PayloadOf
  <2>5. MayConfirm(w)'
    BY <1>1, <1>8, <2>2, <2>3, <2>4 DEF MayConfirm
  <2>6. TxOK(w)'
    BY <1>1, <1>3, <2>2, <2>3, <2>5 DEF TxOK
  <2>7. \A v \in Workers \ {w} : Holding(tx[v]) => t.event # tx[v].event
    BY <1>4, <2>2 DEF HoldsEvent, Holding
  <2> HIDE DEF p
  <2> QED
    BY <1>1, <1>2, <1>3, <1>5, <2>1, <2>2, <2>6, <2>7, OwnStep, ZenonT(30)
<1> QED
  BY <1>7, <1>8

\* The lookup by hash keeps the intent's lock, or adds the holder's.
LEMMA FindHolderStep ==
  ASSUME IInv, NEW w \in Workers, FindHolder(w)
  PROVE  IInv'
<1> DEFINE p == PayloadOf(w).paymentIntentId
           others == HoldersIn(intents, HashOf(w)) \ {p}
<1>1. /\ tx[w].pc = "findHolder"
      /\ UNCHANGED <<events, payloads, attempts, intents, faults>>
      /\ \/ tx' = [tx EXCEPT ![w].pc = "saveIntent"]
         \/ \E q \in others :
              /\ ~IntentLocked(q)
              /\ Finish(w, Failed("CONFIRMED_TX_HASH_CONFLICT"),
                        tx[w].locked \cup {q}, NoTxHash)
  BY DEF FindHolder
<1>2. /\ tx[w] \in Tx
      /\ tx \in [Workers -> Tx]
      /\ faults \in 0..MaxFaults
      /\ tx[w].event \in Events
      /\ TxOK(w)
  BY <1>1 DEF IInv, TypeOK, TxInv
<1>3. /\ Open(events[tx[w].event])
      /\ MayConfirm(w)
      /\ tx[w].confirms = NoTxHash
      /\ tx[w].row.status # "PROCESSED"
  BY <1>1, <1>2 DEF TxOK
<1>4. \A v \in Workers \ {w} : ~HoldsEvent(v, tx[w].event)
  BY <1>1, OwnEvent
<1>5. \A v \in Workers \ {w} : tx[w].locked \cap tx[v].locked = {}
  BY DEF IInv, LockInv
<1>6. CASE tx' = [tx EXCEPT ![w].pc = "saveIntent"]
  <2> DEFINE t == [tx[w] EXCEPT !.pc = "saveIntent"]
  <2>1. tx' = [tx EXCEPT ![w] = t]
    BY <1>2, <1>6
  <2>2. /\ t \in Tx
        /\ t.pc = "saveIntent" /\ t.event = tx[w].event
        /\ t.row = tx[w].row /\ t.locked = tx[w].locked /\ t.confirms = tx[w].confirms
    BY <1>2 DEF Tx, Steps
  <2>3. tx'[w] = t
    BY <1>2, <2>1
  <2> HIDE DEF t
  <2>4. PayloadOf(w)' = PayloadOf(w)
    BY <1>1, <2>2, <2>3 DEF PayloadOf
  <2>5. MayConfirm(w)'
    BY <1>1, <1>3, <2>2, <2>3, <2>4 DEF MayConfirm
  <2>6. TxOK(w)'
    BY <1>1, <1>3, <2>2, <2>3, <2>5 DEF TxOK
  <2>7. \A v \in Workers \ {w} : Holding(tx[v]) => t.event # tx[v].event
    BY <1>4, <2>2 DEF HoldsEvent, Holding
  <2> QED
    BY <1>1, <1>2, <1>3, <1>5, <2>1, <2>2, <2>6, <2>7, OwnStep, Zenon
<1>7. ASSUME NEW q \in others, ~IntentLocked(q),
             Finish(w, Failed("CONFIRMED_TX_HASH_CONFLICT"),
                    tx[w].locked \cup {q}, NoTxHash)
      PROVE  IInv'
  <2> DEFINE row == Failed("CONFIRMED_TX_HASH_CONFLICT")
             locks == tx[w].locked \cup {q}
  <2>1. row \in EventRow /\ row.status = "FAILED"
    BY RowTypes DEF FailureReasons
  <2>2. locks \in SUBSET Intents
    BY <1>2 DEF Tx, HoldersIn
  <2>3. \A v \in Workers \ {w} : locks \cap tx[v].locked = {}
    BY <1>5, <1>7 DEF IntentLocked
  <2>4. Finish(w, row, locks, NoTxHash)
    BY <1>7
  <2> HIDE DEF row, locks
  <2> QED
    BY <1>1, <1>3, <1>4, <2>1, <2>2, <2>3, <2>4, FinishStep DEF Final
<1> QED
  BY <1>1, <1>6, <1>7, Zenon

\* The save enters a hash that no committed row and no other transaction has, or
\* rolls back.
LEMMA SaveIntentStep ==
  ASSUME IInv, NEW w \in Workers, SaveIntent(w)
  PROVE  IInv'
<1> DEFINE p == PayloadOf(w).paymentIntentId
<1>1. /\ tx[w].pc = "saveIntent"
      /\ ~HashInFlight(w)
      /\ UNCHANGED <<events, payloads, attempts, intents, faults>>
      /\ \/ /\ HoldersIn(intents, HashOf(w)) \ {p} = {}
            /\ Finish(w, Processed, tx[w].locked, HashOf(w))
         \/ tx' = [tx EXCEPT ![w] = NoTx]
  BY DEF SaveIntent
<1>2. /\ tx[w] \in Tx
      /\ faults \in 0..MaxFaults
      /\ TxOK(w)
  BY DEF IInv, TypeOK, TxInv
<1>3. /\ Open(events[tx[w].event])
      /\ MayConfirm(w)
  BY <1>1, <1>2 DEF TxOK
<1>4. CASE tx' = [tx EXCEPT ![w] = NoTx]
  BY <1>1, <1>2, <1>4, NoTxStep, Zenon
<1>5. CASE /\ HoldersIn(intents, HashOf(w)) \ {p} = {}
           /\ Finish(w, Processed, tx[w].locked, HashOf(w))
  <2>1. HashOf(w) \in TxHash /\ HashOf(w) # NoTxHash
    BY <1>1, <1>3, PayloadHash DEF MayConfirm
  <2>2. p \in Intents /\ intents[p].status # "CONFIRMED"
    BY <1>3, VerdictCases DEF MayConfirm, IInv, TypeOK
  <2>3. intents[p].confirmedTxHash = NoTxHash
    BY <2>2 DEF IInv, HashInv
  <2>4. HoldersIn(intents, HashOf(w)) = {}
    BY <1>5, <2>1, <2>3 DEF HoldersIn
  <2>5. \A v \in Workers \ {w} :
          /\ tx[w].locked \cap tx[v].locked = {}
          /\ ~HoldsEvent(v, tx[w].event)
          /\ tx[v].confirms # HashOf(w)
    BY <1>1, OwnEvent DEF IInv, LockInv, HashInFlight
  <2>6. tx[w].locked \in SUBSET Intents
    BY <1>2 DEF Tx
  <2>7. Processed \in EventRow /\ Final(Processed)
    BY RowTypes DEF Final
  <2>8. /\ tx[w].pc # "idle"
        /\ UNCHANGED <<events, payloads, attempts, intents, faults>>
    BY <1>1
  <2> HIDE DEF p
  <2> DEFINE hash == HashOf(w)
             locks == tx[w].locked
  <2>9. /\ hash \in TxHash \cup {NoTxHash} /\ hash # NoTxHash
        /\ hash = HashOf(w) /\ locks = tx[w].locked
        /\ locks \in SUBSET Intents
        /\ Finish(w, Processed, locks, hash)
        /\ HoldersIn(intents, hash) = {}
        /\ \A v \in Workers \ {w} :
             /\ locks \cap tx[v].locked = {}
             /\ ~HoldsEvent(v, tx[w].event)
             /\ tx[v].confirms # hash
    BY <1>5, <2>1, <2>4, <2>5, <2>6
  <2> HIDE DEF hash, locks
  <2> QED
    BY <1>3, <2>7, <2>8, <2>9, FinishStep
<1> QED
  BY <1>1, <1>4, <1>5

-----------------------------------------------------------------------------
(* Steps that change a table *)

\* An intent that may be confirmed is not CONFIRMED and has no hash, and the
\* payload agrees with its terms.
LEMMA MayConfirmOpen ==
  ASSUME IInv, NEW w \in Workers, MayConfirm(w)
  PROVE  LET p == PayloadOf(w).paymentIntentId IN
         /\ p \in Intents
         /\ tx[w].locked = {p}
         /\ PayloadFailure(PayloadOf(w)) = "null"
         /\ intents[p].status \notin {"ABSENT", "CONFIRMED", "FAILED", "EXPIRED"}
         /\ intents[p].confirmedTxHash = NoTxHash
         /\ validatePayloadMatchesPaymentIntent(PayloadOf(w), p) = "null"
<1> DEFINE p == PayloadOf(w).paymentIntentId
<1>1. /\ p \in Intents
      /\ tx[w].locked = {p}
      /\ PayloadFailure(PayloadOf(w)) = "null"
      /\ intents[p].status # "ABSENT"
      /\ IntentVerdict(PayloadOf(w), p, intents[p]) = Undecided
  BY DEF MayConfirm
<1>2. intents[p] \in IntentRow
  BY <1>1 DEF IInv, TypeOK
<1>3. /\ validatePayloadMatchesPaymentIntent(PayloadOf(w), p) = "null"
      /\ intents[p].status \notin {"CONFIRMED", "FAILED", "EXPIRED"}
  BY <1>1, <1>2, VerdictCases
<1>4. intents[p].confirmedTxHash = NoTxHash
  BY <1>1, <1>3, Zenon DEF IInv, HashInv
<1> QED
  BY <1>1, <1>3, <1>4

\* Worker v relies on nothing that another worker's commit changes.
LEMMA OthersUndisturbed ==
  ASSUME NEW v \in Workers, TxOK(v), tx'[v] = tx[v], payloads' = payloads,
         tx[v].pc \notin {"idle", "lockEvent"} =>
           (Open(events[tx[v].event]) <=> Open(events'[tx[v].event])),
         tx[v].pc = "finish" /\ ~Open(events[tx[v].event]) =>
           events'[tx[v].event] = events[tx[v].event],
         \A p \in Intents :
           \/ intents'[p] = intents[p]
           \/ p \notin tx[v].locked /\ intents[p].status # "CONFIRMED"
  PROVE  TxOK(v)'
<1>1. PayloadOf(v)' = PayloadOf(v) /\ HashOf(v)' = HashOf(v)
  BY DEF PayloadOf, HashOf
<1>2. MayConfirm(v) => MayConfirm(v)'
  BY <1>1 DEF MayConfirm
<1>3. ASSUME PayloadOf(v).paymentIntentId \in Intents,
             Pays(PayloadOf(v), PayloadOf(v).paymentIntentId)
      PROVE  Pays(PayloadOf(v), PayloadOf(v).paymentIntentId)'
  BY <1>1, <1>3, Zenon DEF Pays
<1>4. (tx[v].row.status = "PROCESSED" /\ tx[v].confirms = NoTxHash =>
         /\ PayloadOf(v).paymentIntentId \in Intents
         /\ Pays(PayloadOf(v), PayloadOf(v).paymentIntentId))'
  BY <1>1, <1>3, Zenon DEF TxOK
<1>5. (tx[v].confirms # NoTxHash =>
         /\ tx[v].row = Processed
         /\ MayConfirm(v)
         /\ tx[v].confirms = HashOf(v))'
  BY <1>1, <1>2 DEF TxOK
<1>6. (tx[v].pc = "finish" /\ ~Open(events[tx[v].event]) =>
         tx[v].row = events[tx[v].event] /\ tx[v].confirms = NoTxHash)'
  BY DEF TxOK
<1>7. (tx[v].pc \in {"rules", "findHolder", "saveIntent"} =>
         Open(events[tx[v].event]))'
  BY DEF TxOK
<1> QED
  BY <1>2, <1>4, <1>5, <1>6, <1>7, Zenon DEF TxOK

\* A commit moves worker w's rows into the tables and ends its transaction; no
\* other worker relied on what it changes.
LEMMA CommitStep ==
  ASSUME IInv, NEW w \in Workers, Commit(w)
  PROVE  IInv'
<1> DEFINE e == tx[w].event
           p == PayloadOf(w).paymentIntentId
           h == tx[w].confirms
<1>1. /\ tx[w].pc = "finish"
      /\ events' = [events EXCEPT ![e] = tx[w].row]
      /\ attempts' = [attempts EXCEPT ![e] = @ \cup {AttemptOf(tx[w].row)}]
      /\ intents' = IF h = NoTxHash THEN intents
                    ELSE [intents EXCEPT ![p] = [status |-> "CONFIRMED",
                                                 confirmedTxHash |-> h]]
      /\ tx' = [tx EXCEPT ![w] = NoTx]
      /\ UNCHANGED <<payloads, faults>>
  BY DEF Commit
<1>2. /\ tx \in [Workers -> Tx] /\ tx[w] \in Tx
      /\ e \in Events
      /\ events \in [Events -> EventRow]
      /\ attempts \in [Events -> SUBSET AttemptRow]
      /\ intents \in [Intents -> IntentRow]
      /\ payloads \in [Events -> Payload]
      /\ TxOK(w)
  BY <1>1, ZenonT(30) DEF IInv, TypeOK, TxInv
<1>3. Final(tx[w].row) /\ tx[w].row \in EventRow
  BY <1>1, <1>2 DEF TxOK, Tx
<1>4. /\ NoTx \in Tx
      /\ tx' \in [Workers -> Tx]
      /\ tx'[w] = NoTx
      /\ \A v \in Workers \ {w} : tx'[v] = tx[v]
  BY <1>1, <1>2, NoTxFields
<1>5. h # NoTxHash =>
        /\ h \in TxHash
        /\ tx[w].row = Processed
        /\ MayConfirm(w)
        /\ h = HashOf(w)
        /\ HoldersIn(intents, h) = {}
  BY <1>2, Zenon DEF TxOK, Tx, IInv, HashInv
<1>6. h # NoTxHash =>
        /\ p \in Intents
        /\ p \in tx[w].locked
        /\ PayloadFailure(PayloadOf(w)) = "null"
        /\ intents[p].status \notin {"ABSENT", "CONFIRMED", "FAILED", "EXPIRED"}
        /\ intents[p].confirmedTxHash = NoTxHash
        /\ validatePayloadMatchesPaymentIntent(PayloadOf(w), p) = "null"
  BY <1>5, MayConfirmOpen
<1>7. h # NoTxHash => normalizeTxHash(h) = h
  <2> SUFFICES ASSUME h # NoTxHash PROVE normalizeTxHash(h) = h
    BY Zenon
  <2>1. PayloadOf(w).txHash \in TxHash
    BY <1>1, <1>6, PayloadHash
  <2> QED
    BY <1>5, <2>1, NormalizeType DEF HashOf
<1>8. intents' \in [Intents -> IntentRow]
  BY <1>1, <1>2, <1>5, Zenon DEF IntentRow
<1>9. \A q \in Intents : intents'[q] =
        IF h # NoTxHash /\ q = p THEN [status |-> "CONFIRMED", confirmedTxHash |-> h]
        ELSE intents[q]
  BY <1>1, <1>2
<1>10. \A f \in Events : events'[f] = IF f = e THEN tx[w].row ELSE events[f]
  BY <1>1, <1>2
<1> HIDE DEF e, p, h
<1>11. TypeOK'
  <2>1. AttemptOf(tx[w].row) \in AttemptRow
    BY <1>3 DEF AttemptOf, AttemptRow, EventRow
  <2>2. events' \in [Events -> EventRow]
    BY <1>1, <1>2, <1>3
  <2>3. attempts' \in [Events -> SUBSET AttemptRow]
    BY <1>1, <1>2, <2>1
  <2>4. \A f \in Events : events'[f].status \in CommittedStatus
    BY <1>3, <1>10 DEF IInv, TypeOK, Final, CommittedStatus
  <2>5. ASSUME NEW v \in Workers, tx'[v].pc # "idle" PROVE tx'[v].event \in Events
    <3>1. tx'[v] = tx[v]
      BY <1>4, <2>5, NoTxFields
    <3> QED
      BY <2>5, <3>1 DEF IInv, TypeOK
  <2>6. payloads' \in [Events -> Payload] /\ faults' \in 0..MaxFaults
    BY <1>1 DEF IInv, TypeOK
  <2> QED
    BY <1>4, <1>8, <2>2, <2>3, <2>4, <2>5, <2>6 DEF TypeOK
<1>12. TxInv'
  <2>1. TxOK(w)'
    <3>1. /\ tx'[w].pc = "idle"
          /\ tx'[w].locked = {}
          /\ tx'[w].confirms = NoTxHash
          /\ tx'[w].row.status # "PROCESSED"
      BY <1>4, NoTxFields, Zenon
    <3> QED
      BY <3>1 DEF TxOK
  <2>2. ASSUME NEW v \in Workers, v # w PROVE TxOK(v)'
    <3>1. TxOK(v) /\ tx'[v] = tx[v]
      BY <1>4, <2>2 DEF IInv, TxInv
    <3>2. tx[v].pc \notin {"idle", "lockEvent"} =>
            events'[tx[v].event] = events[tx[v].event]
      <4> SUFFICES ASSUME tx[v].pc \notin {"idle", "lockEvent"}
                   PROVE  events'[tx[v].event] = events[tx[v].event]
        OBVIOUS
      <4>1. tx[v].event \in Events
        BY DEF IInv, TypeOK
      <4>2. ~HoldsEvent(v, e)
        BY <1>1, <2>2, OwnEvent DEF e
      <4> QED
        BY <1>10, <4>1, <4>2 DEF HoldsEvent
    <3>3. tx[w].locked \cap tx[v].locked = {}
      BY <2>2, Zenon DEF IInv, LockInv
    <3>4. \A q \in Intents :
            \/ intents'[q] = intents[q]
            \/ q \notin tx[v].locked /\ intents[q].status # "CONFIRMED"
      BY <1>6, <1>9, <3>3
    <3> QED
      BY <1>1, <3>1, <3>2, <3>4, OthersUndisturbed
  <2> QED
    BY <2>1, <2>2, Zenon DEF TxInv
<1>13. LockInv'
  <2> SUFFICES ASSUME NEW u \in Workers, NEW v \in Workers, u # v
               PROVE  /\ tx'[u].locked \cap tx'[v].locked = {}
                      /\ \A f \in Events : ~(HoldsEvent(u, f)' /\ HoldsEvent(v, f)')
    BY DEF LockInv
  <2>1. /\ tx[u].locked \cap tx[v].locked = {}
        /\ \A f \in Events : ~(HoldsEvent(u, f) /\ HoldsEvent(v, f))
    BY DEF IInv, LockInv
  <2>2. (\A f \in Events : ~HoldsEvent(w, f)') /\ tx'[w].locked = {}
    BY <1>4, NoTxFields DEF HoldsEvent
  <2>3. CASE u = w \/ v = w
    BY <2>2, <2>3
  <2>4. CASE u # w /\ v # w
    BY <1>4, <2>1, <2>4 DEF HoldsEvent
  <2> QED
    BY <2>3, <2>4
<1>14. HashInv'
  <2>1. (\A q \in Intents :
          intents[q].confirmedTxHash # NoTxHash <=> intents[q].status = "CONFIRMED")'
    BY <1>9 DEF IInv, HashInv
  <2>2. ASSUME NEW q \in Intents, NEW r \in Intents, q # r,
               intents'[q].confirmedTxHash # NoTxHash
        PROVE  intents'[q].confirmedTxHash # intents'[r].confirmedTxHash
    <3>1. intents[q].confirmedTxHash # NoTxHash =>
            intents[q].confirmedTxHash # intents[r].confirmedTxHash
      BY <2>2 DEF IInv, HashInv, MigratedHashes
    <3>2. h # NoTxHash => intents[q].confirmedTxHash # h /\ intents[r].confirmedTxHash # h
      BY <1>5 DEF HoldersIn
    <3> QED
      BY <1>9, <2>2, <3>1, <3>2
  <2>3. ASSUME NEW q \in Intents, intents'[q].confirmedTxHash \in TxHash
        PROVE  \E r \in Intents :
                 intents'[r].confirmedTxHash = normalizeTxHash(intents'[q].confirmedTxHash)
    <3>1. CASE h # NoTxHash /\ q = p
      <4>1. intents'[q].confirmedTxHash = h
        BY <1>9, <3>1
      <4> QED
        BY <1>7, <3>1, <4>1
    <3>2. CASE ~(h # NoTxHash /\ q = p)
      <4>1. intents'[q] = intents[q]
        BY <1>9, <3>2
      <4>2. PICK r \in Intents :
              intents[r].confirmedTxHash = normalizeTxHash(intents[q].confirmedTxHash)
        BY <2>3, <4>1 DEF IInv, HashInv, MigratedHashes
      <4>3. intents[r].confirmedTxHash # NoTxHash
        BY <2>3, <4>1, <4>2, NormalizeType, DataAssumption, Zenon
      <4>4. intents'[r] = intents[r]
        BY <1>6, <1>9, <4>3
      <4> QED
        BY <4>1, <4>2, <4>4
    <3> QED
      BY <3>1, <3>2
  <2>4. MigratedHashes(intents')
    BY <2>2, <2>3 DEF MigratedHashes
  <2>5. ASSUME NEW u \in Workers, tx'[u].confirms # NoTxHash
        PROVE  /\ HoldersIn(intents', tx'[u].confirms) = {}
               /\ \A v \in Workers \ {u} : tx'[v].confirms # tx'[u].confirms
    <3>1. u # w /\ tx'[u] = tx[u]
      BY <1>4, <2>5 DEF NoTx
    <3>2. /\ HoldersIn(intents, tx[u].confirms) = {}
          /\ \A v \in Workers \ {u} : tx[v].confirms # tx[u].confirms
      BY <2>5, <3>1 DEF IInv, HashInv
    <3>3. HoldersIn(intents', tx[u].confirms) = {}
      <4>1. h # tx[u].confirms
        BY <3>1, <3>2 DEF h
      <4>2. \A q \in Intents : intents'[q].confirmedTxHash # tx[u].confirms
        BY <1>9, <3>2, <4>1 DEF HoldersIn
      <4> QED
        BY <4>2 DEF HoldersIn
    <3>4. \A v \in Workers \ {u} : tx'[v].confirms # tx[u].confirms
      BY <1>4, <2>5, <3>1, <3>2, NoTxFields
    <3> QED
      BY <3>1, <3>3, <3>4
  <2> QED
    BY <2>1, <2>4, <2>5 DEF HashInv
<1>15. ProcessedMeansPaid'
  <2> SUFFICES ASSUME NEW f \in Events, events'[f].status = "PROCESSED"
               PROVE  /\ payloads[f].paymentIntentId \in Intents
                      /\ Pays(payloads[f], payloads[f].paymentIntentId)'
    BY <1>1 DEF ProcessedMeansPaid, Pays
  <2>1. CASE f # e \/ h = NoTxHash
    <3>1. /\ payloads[f].paymentIntentId \in Intents
          /\ Pays(payloads[f], payloads[f].paymentIntentId)
      <4>1. CASE f # e
        BY <1>10, <4>1, ZenonT(30) DEF IInv, ProcessedMeansPaid
      <4>2. CASE f = e /\ h = NoTxHash
        BY <1>2, <1>10, <4>2, SMTT(20) DEF TxOK, PayloadOf, e, h
      <4> QED
        BY <2>1, <4>1, <4>2
    <3> DEFINE q == payloads[f].paymentIntentId
    <3>2. q \in Intents /\ intents[q].status = "CONFIRMED"
      BY <3>1, Zenon DEF Pays
    <3> HIDE DEF q
    <3>3. ~(h # NoTxHash /\ q = p)
      BY <1>6, <3>2, Zenon
    <3>4. intents'[q] = intents[q]
      BY <1>9, <3>2, <3>3, ZenonT(30)
    <3> QED
      BY <1>1, <3>1, <3>4, Zenon DEF Pays, q
  <2>2. CASE f = e /\ h # NoTxHash
    <3>1. payloads[f] = PayloadOf(w) /\ payloads[f].paymentIntentId = p
      BY <2>2, ZenonT(30) DEF PayloadOf, e, p
    <3>2. /\ PayloadOf(w).type = "transaction.confirmed"
          /\ PayloadOf(w).txHash \in TxHash
      BY <1>1, <1>6, <2>2, PayloadHash
    <3>3. /\ intents'[p].status = "CONFIRMED"
          /\ intents'[p].confirmedTxHash = h
      <4>1. intents'[p] = [status |-> "CONFIRMED", confirmedTxHash |-> h]
        BY <1>6, <1>9, <2>2
      <4> QED
        BY <4>1
    <3>4. normalizeTxHash(h) = normalizeTxHash(PayloadOf(w).txHash)
      BY <1>5, <1>7, <2>2 DEF HashOf
    <3> QED
      BY <1>1, <1>5, <1>6, <2>2, <3>1, <3>2, <3>3, <3>4 DEF Pays
  <2> QED
    BY <2>1, <2>2, Zenon
<1> QED
  BY <1>11, <1>12, <1>13, <1>14, <1>15 DEF IInv

\* The dispatcher's markWebhookQueued changes an event no worker holds.
LEMMA MarkWebhookQueuedStep ==
  ASSUME IInv, NEW e \in Events, MarkWebhookQueued(e)
  PROVE  IInv'
<1>1. /\ \A v \in Workers : ~HoldsEvent(v, e)
      /\ events[e].status = "RECEIVED"
      /\ events' = [events EXCEPT ![e].status = "QUEUED"]
      /\ UNCHANGED <<payloads, attempts, intents, tx, faults>>
  BY DEF MarkWebhookQueued, EventLocked
<1>2. /\ events' \in [Events -> EventRow]
      /\ events'[e].status = "QUEUED"
      /\ \A f \in Events \ {e} : events'[f] = events[f]
  BY <1>1 DEF IInv, TypeOK, EventRow
<1>3. TypeOK'
  BY <1>1, <1>2 DEF IInv, TypeOK, CommittedStatus
<1>4. TxInv'
  <2> SUFFICES ASSUME NEW v \in Workers PROVE TxOK(v)'
    BY DEF TxInv
  <2>1. TxOK(v)
    BY DEF IInv, TxInv
  <2>2. tx[v].pc \notin {"idle", "lockEvent"} =>
          events'[tx[v].event] = events[tx[v].event]
    BY <1>1, <1>2 DEF IInv, TypeOK, HoldsEvent
  <2> QED
    BY <1>1, <2>1, <2>2, OthersUndisturbed
<1>5. LockInv' /\ HashInv'
  BY <1>1 DEF IInv, LockInv, HoldsEvent, HashInv, MigratedHashes, HoldersIn
<1>6. ProcessedMeansPaid'
  BY <1>1, <1>2 DEF IInv, ProcessedMeansPaid, Pays
<1> QED
  BY <1>3, <1>4, <1>5, <1>6 DEF IInv

\* A payment intent created meanwhile is one no worker has locked.
LEMMA CreatePaymentIntentStep ==
  ASSUME IInv, NEW p \in Intents, CreatePaymentIntent(p)
  PROVE  IInv'
<1>1. /\ intents[p].status = "ABSENT"
      /\ intents' = [intents EXCEPT ![p].status = "CREATED"]
      /\ UNCHANGED <<events, payloads, attempts, tx, faults>>
  BY DEF CreatePaymentIntent
<1>2. /\ intents' \in [Intents -> IntentRow]
      /\ intents'[p].status = "CREATED"
      /\ \A q \in Intents : intents'[q].confirmedTxHash = intents[q].confirmedTxHash
      /\ \A q \in Intents \ {p} : intents'[q] = intents[q]
  BY <1>1 DEF IInv, TypeOK, IntentRow
<1>3. TypeOK'
  BY <1>1, <1>2 DEF IInv, TypeOK
<1>4. TxInv'
  <2> SUFFICES ASSUME NEW v \in Workers PROVE TxOK(v)'
    BY DEF TxInv
  <2>1. TxOK(v)
    BY DEF IInv, TxInv
  <2>2. PayloadOf(v)' = PayloadOf(v) /\ HashOf(v)' = HashOf(v)
    BY <1>1 DEF PayloadOf, HashOf
  <2>3. MayConfirm(v) => MayConfirm(v)'
    BY <1>1, <1>2, <2>2 DEF MayConfirm
  <2>4. ASSUME PayloadOf(v).paymentIntentId \in Intents,
               Pays(PayloadOf(v), PayloadOf(v).paymentIntentId)
        PROVE  Pays(PayloadOf(v), PayloadOf(v).paymentIntentId)'
    BY <1>1, <1>2, <2>2, <2>4 DEF Pays
  <2> QED
    BY <1>1, <2>1, <2>2, <2>3, <2>4 DEF TxOK
<1>5. LockInv'
  BY <1>1 DEF IInv, LockInv, HoldsEvent
<1>6. HashInv'
  <2>1. HashInv
    BY DEF IInv
  <2>2. (\A q \in Intents :
          intents[q].confirmedTxHash # NoTxHash <=> intents[q].status = "CONFIRMED")'
    BY <1>1, <1>2, <2>1 DEF HashInv
  <2>3. MigratedHashes(intents')
    <3>1. MigratedHashes(intents)
      BY <2>1 DEF HashInv
    <3>2. \A q \in Intents : intents'[q].confirmedTxHash = intents[q].confirmedTxHash
      BY <1>2
    <3> QED
      BY <3>1, <3>2 DEF MigratedHashes
  <2>4. \A hash : HoldersIn(intents', hash) = HoldersIn(intents, hash)
    BY <1>2 DEF HoldersIn
  <2> QED
    BY <1>1, <2>1, <2>2, <2>3, <2>4, Zenon DEF HashInv
<1>7. ProcessedMeansPaid'
  BY <1>1, <1>2 DEF IInv, ProcessedMeansPaid, Pays
<1> QED
  BY <1>3, <1>4, <1>5, <1>6, <1>7 DEF IInv

-----------------------------------------------------------------------------
(* The invariant *)

\* The tables after the migrations, and no running transaction.
LEMMA InitInvariant == Init => IInv
<1> SUFFICES ASSUME Init PROVE IInv
  OBVIOUS
<1>1. NoTx \in Tx
  BY RowTypes DEF NoTx, Tx, Steps
<1>2. \A row \in InitialEvents : row \in EventRow /\ row.status \in {"RECEIVED", "QUEUED"}
  BY DEF InitialEvents, EventRow
<1>3. /\ intents \in [Intents -> InitialIntents]
      /\ MigratedHashes(intents)
  BY DEF Init
<1>4. TypeOK
  <2>1. payloads \in [Events -> Payload] /\ intents \in [Intents -> IntentRow]
    BY <1>3, DataAssumption DEF Init
  <2>2. /\ events \in [Events -> EventRow]
        /\ \A e \in Events : events[e].status \in CommittedStatus
    BY <1>2 DEF Init, CommittedStatus
  <2>3. attempts \in [Events -> SUBSET AttemptRow]
    BY DEF Init
  <2>4. tx \in [Workers -> Tx] /\ \A w \in Workers : tx[w].pc = "idle"
    BY <1>1 DEF Init, NoTx
  <2>5. faults \in 0..MaxFaults
    <3>1. faults = 0 /\ MaxFaults \in Nat
      BY ProcessorAssumption, Zenon DEF Init
    <3> QED
      BY <3>1
  <2> QED
    BY <2>1, <2>2, <2>3, <2>4, <2>5 DEF TypeOK
<1>5. TxInv
  BY RowTypes, Zenon DEF Init, TxInv, TxOK, NoTx
<1>6. LockInv
  BY DEF Init, LockInv, HoldsEvent, NoTx
<1>7. HashInv
  BY <1>3, InitialIntentsAssumption DEF Init, HashInv, NoTx
<1>8. ProcessedMeansPaid
  BY <1>2 DEF Init, ProcessedMeansPaid
<1> QED
  BY <1>4, <1>5, <1>6, <1>7, <1>8 DEF IInv

\* Every step of the workers, the dispatcher and the API keeps the invariant.
LEMMA NextInvariant == IInv /\ [Next]_vars => IInv'
<1> SUFFICES ASSUME IInv, [Next]_vars PROVE IInv'
  OBVIOUS
<1>1. ASSUME NEW w \in Workers, NEW e \in Events, Deliver(w, e) PROVE IInv'
  BY <1>1, DeliverStep
<1>2. ASSUME NEW w \in Workers, TxStep(w) PROVE IInv'
  BY <1>2, LockWebhookEventStep, RejectPayloadStep, UnknownPaymentIntentStep,
     LockPaymentIntentStep, FindHolderStep, SaveIntentStep, CommitStep DEF TxStep
<1>3. ASSUME NEW w \in Workers, Fail(w) PROVE IInv'
  <2>1. faults' \in 0..MaxFaults
    BY <1>3, ProcessorAssumption DEF IInv, TypeOK, Fail
  <2> QED
    BY <1>3, <2>1, NoTxStep, Zenon DEF Fail
<1>4. ASSUME NEW e \in Events, MarkWebhookQueued(e) PROVE IInv'
  BY <1>4, MarkWebhookQueuedStep
<1>5. ASSUME NEW p \in Intents, CreatePaymentIntent(p) PROVE IInv'
  BY <1>5, CreatePaymentIntentStep
<1>6. CASE UNCHANGED vars
  <2>1. UNCHANGED <<events, payloads, attempts, intents, tx, faults>>
    BY <1>6 DEF vars
  <2>2. TypeOK'
    BY <2>1 DEF IInv, TypeOK
  <2>3. TxInv'
    <3> SUFFICES ASSUME NEW w \in Workers PROVE TxOK(w)'
      BY DEF TxInv
    <3>1. TxOK(w)
      BY DEF IInv, TxInv
    <3>2. PayloadOf(w)' = PayloadOf(w) /\ HashOf(w)' = HashOf(w)
      BY <2>1 DEF PayloadOf, HashOf
    <3>3. MayConfirm(w) => MayConfirm(w)'
      BY <2>1, <3>2, Zenon DEF MayConfirm
    <3>4. Pays(PayloadOf(w), PayloadOf(w).paymentIntentId) =>
            Pays(PayloadOf(w), PayloadOf(w).paymentIntentId)'
      BY <2>1, <3>2, Zenon DEF Pays
    <3> QED
      BY <2>1, <3>1, <3>2, <3>3, <3>4, Zenon DEF TxOK
  <2>4. LockInv' /\ HashInv'
    BY <2>1, Zenon DEF IInv, LockInv, HoldsEvent, HashInv, MigratedHashes, HoldersIn
  <2>5. ProcessedMeansPaid'
    BY <2>1 DEF IInv, ProcessedMeansPaid, Pays
  <2> QED
    BY <2>2, <2>3, <2>4, <2>5 DEF IInv
<1> QED
  BY <1>1, <1>2, <1>3, <1>4, <1>5, <1>6 DEF Next

\* IInv holds throughout: types, locks, hashes and what each step relies on.
THEOREM Invariance == Spec => []IInv
BY InitInvariant, NextInvariant, PTL DEF Spec

\* The tables and transactions stay well formed; PROCESSING is never committed.
THEOREM TypeCorrect == Spec => []TypeOK
<1>1. IInv => TypeOK
  BY DEF IInv
<1> QED
  BY <1>1, Invariance, PTL

\* A PROCESSED event has paid the intent it names, whatever workers, crashes and
\* duplicate jobs there are.
THEOREM ProcessedHavePaid == Spec => []ProcessedMeansPaid
<1>1. IInv => ProcessedMeansPaid
  BY Zenon DEF IInv
<1> QED
  BY <1>1, Invariance, PTL

-----------------------------------------------------------------------------
(* Deadlock freedom *)

\* A worker waits only for workers further on in applyProcessingRules; one that
\* looks for the holder of a hash, or saves the intent, only for workers that
\* have nothing left but their commit.
LEMMA WaitsForLater ==
  ASSUME IInv, NEW w \in Workers, NEW v \in Workers, WaitsFor(w, v)
  PROVE  /\ tx[w].pc \in {"lockEvent", "rules", "findHolder", "saveIntent"}
         /\ tx[w].pc = "lockEvent" =>
              tx[v].pc \in {"rules", "findHolder", "saveIntent", "finish"}
         /\ tx[w].pc = "rules" => tx[v].pc \in {"findHolder", "saveIntent", "finish"}
         /\ tx[w].pc \in {"findHolder", "saveIntent"} => tx[v].pc = "finish"
<1>1. /\ tx[w] \in Tx /\ tx[v] \in Tx
      /\ TxOK(w) /\ TxOK(v)
      /\ HashInv
  BY DEF IInv, TypeOK, TxInv
<1>2. tx[v].pc \in Steps
  BY <1>1, Zenon DEF Tx
<1>3. CASE tx[w].pc = "lockEvent"
  BY <1>2, <1>3 DEF WaitsFor, HoldsEvent, Steps
<1>4. CASE tx[w].pc = "rules"
  BY <1>1, <1>2, <1>4, Zenon DEF WaitsFor, TxOK, Steps
<1>5. CASE tx[w].pc = "findHolder"
  <2>1. MayConfirm(w)
    BY <1>1, <1>5 DEF TxOK
  <2>2. HashOf(w) \in TxHash
    BY <1>1, <1>5, <2>1, PayloadHash, ZenonT(30) DEF MayConfirm, IInv, TypeOK
  <2>3. PICK q \in Intents : intents[q].confirmedTxHash = HashOf(w) /\ q \in tx[v].locked
    BY <1>5, Zenon DEF WaitsFor, HoldersIn
  <2>4. intents[q].status = "CONFIRMED" /\ intents[q] \in IntentRow
    BY <1>1, <2>2, <2>3, DataAssumption, ZenonT(30) DEF HashInv, IInv, TypeOK
  <2>5. ASSUME MayConfirm(v), tx[v].locked = {PayloadOf(v).paymentIntentId} PROVE FALSE
    <3>1. PayloadOf(v).paymentIntentId = q
      BY <2>3, <2>5
    <3>2. IntentVerdict(PayloadOf(v), q, intents[q]) = Undecided
      BY <2>5, <3>1 DEF MayConfirm
    <3> QED
      BY <2>4, <3>2, VerdictCases
  <2>6. tx[v].pc \notin {"findHolder", "saveIntent"}
    BY <1>1, <2>5, Zenon DEF TxOK, MayConfirm
  <2> QED
    BY <1>1, <1>2, <1>5, <2>3, <2>6, ZenonT(30) DEF TxOK, Steps
<1>6. CASE tx[w].pc = "saveIntent"
  <2>1. MayConfirm(w)
    BY <1>1, <1>6, Zenon DEF TxOK
  <2>2. HashOf(w) \in TxHash
    BY <1>1, <1>6, <2>1, PayloadHash, Zenon DEF MayConfirm, IInv, TypeOK
  <2>3. tx[v].confirms # NoTxHash
    BY <1>6, <2>2, DataAssumption, Zenon DEF WaitsFor
  <2> QED
    BY <1>1, <1>6, <2>3, Zenon DEF TxOK
<1> QED
  BY <1>3, <1>4, <1>5, <1>6 DEF WaitsFor

\* No set of workers waits for itself, whatever their number: the worker that is
\* furthest on waits for none of the others.
THEOREM NeverDeadlocked == Spec => []NoDeadlock
<1>1. ASSUME IInv PROVE NoDeadlock
  <2> SUFFICES ASSUME NEW S \in SUBSET Workers, S # {}
               PROVE  \E w \in S : \A v \in S : ~WaitsFor(w, v)
    BY DEF NoDeadlock
  <2>1. \A w, v \in S : WaitsFor(w, v) =>
          /\ tx[w].pc \in {"lockEvent", "rules", "findHolder", "saveIntent"}
          /\ tx[w].pc = "lockEvent" =>
               tx[v].pc \in {"rules", "findHolder", "saveIntent", "finish"}
          /\ tx[w].pc = "rules" => tx[v].pc \in {"findHolder", "saveIntent", "finish"}
          /\ tx[w].pc \in {"findHolder", "saveIntent"} => tx[v].pc = "finish"
    BY <1>1, WaitsForLater
  <2>2. CASE \E w \in S : tx[w].pc = "finish"
    BY <2>1, <2>2
  <2>3. CASE /\ \A v \in S : tx[v].pc # "finish"
             /\ \E w \in S : tx[w].pc \in {"findHolder", "saveIntent"}
    BY <2>1, <2>3
  <2>4. CASE /\ \A v \in S : tx[v].pc \notin {"findHolder", "saveIntent", "finish"}
             /\ \E w \in S : tx[w].pc = "rules"
    BY <2>1, <2>4
  <2>5. CASE \A v \in S : tx[v].pc \notin {"rules", "findHolder", "saveIntent", "finish"}
    BY <2>1, <2>5
  <2> QED
    BY <2>2, <2>3, <2>4, <2>5
<1> QED
  BY <1>1, Invariance, PTL

-----------------------------------------------------------------------------
(* What a step may never do *)

\* Every step but a commit, a MarkWebhookQueued and a CreatePaymentIntent leaves
\* the tables alone.
LEMMA TablesChange ==
  ASSUME [Next]_vars
  PROVE  \/ UNCHANGED <<events, attempts, intents>>
         \/ \E w \in Workers : Commit(w)
         \/ \E e \in Events : MarkWebhookQueued(e)
         \/ \E p \in Intents : CreatePaymentIntent(p)
<1>1. ASSUME NEW w \in Workers, NEW e \in Events, Deliver(w, e)
      PROVE  UNCHANGED <<events, attempts, intents>>
  BY <1>1 DEF Deliver
<1>2. ASSUME NEW w \in Workers, TxStep(w)
      PROVE  UNCHANGED <<events, attempts, intents>> \/ Commit(w)
  BY <1>2 DEF TxStep, LockWebhookEvent, RejectPayload, UnknownPaymentIntent,
     LockPaymentIntent, FindHolder, SaveIntent
<1>3. ASSUME NEW w \in Workers, Fail(w)
      PROVE  UNCHANGED <<events, attempts, intents>>
  BY <1>3 DEF Fail
<1>4. CASE UNCHANGED vars
  BY <1>4 DEF vars
<1> QED
  BY <1>1, <1>2, <1>3, <1>4 DEF Next

\* What a commit writes: the decided row of its event, and at most the one
\* intent it has confirmed.
LEMMA CommitEffect ==
  ASSUME IInv, NEW w \in Workers, Commit(w)
  PROVE  /\ tx[w].event \in Events
         /\ events'[tx[w].event] = tx[w].row
         /\ \A e \in Events \ {tx[w].event} : events'[e] = events[e]
         /\ ~Open(events[tx[w].event]) => tx[w].row = events[tx[w].event]
         /\ tx[w].confirms = NoTxHash => intents' = intents
         /\ tx[w].confirms # NoTxHash =>
              LET p == PayloadOf(w).paymentIntentId IN
              /\ p \in Intents
              /\ tx[w].row = Processed
              /\ Open(events[tx[w].event])
              /\ intents[p].status \notin {"CONFIRMED", "FAILED", "EXPIRED"}
              /\ tx[w].confirms = HashOf(w)
              /\ HashOf(w) \in TxHash
              /\ HashOf(w).spelling = "canonical"
              /\ HoldersIn(intents, HashOf(w)) = {}
              /\ intents'[p] = [status |-> "CONFIRMED", confirmedTxHash |-> HashOf(w)]
              /\ \A q \in Intents \ {p} : intents'[q] = intents[q]
<1>1. /\ TxOK(w) /\ tx[w].pc = "finish" /\ tx[w].event \in Events
      /\ events \in [Events -> EventRow] /\ intents \in [Intents -> IntentRow]
      /\ HashInv
  BY DEF IInv, TypeOK, TxInv, Commit
<1>2. events' = [events EXCEPT ![tx[w].event] = tx[w].row]
  BY Zenon DEF Commit
<1>3. ~Open(events[tx[w].event]) => tx[w].row = events[tx[w].event] /\ tx[w].confirms = NoTxHash
  BY <1>1 DEF TxOK
<1>4. tx[w].confirms = NoTxHash => intents' = intents
  BY DEF Commit
<1>5. ASSUME tx[w].confirms # NoTxHash
      PROVE  LET p == PayloadOf(w).paymentIntentId IN
              /\ p \in Intents
              /\ tx[w].row = Processed
              /\ intents[p].status \notin {"CONFIRMED", "FAILED", "EXPIRED"}
              /\ tx[w].confirms = HashOf(w)
              /\ HashOf(w) \in TxHash
              /\ HashOf(w).spelling = "canonical"
              /\ HoldersIn(intents, HashOf(w)) = {}
              /\ intents'[p] = [status |-> "CONFIRMED", confirmedTxHash |-> HashOf(w)]
              /\ \A q \in Intents \ {p} : intents'[q] = intents[q]
  <2> DEFINE p == PayloadOf(w).paymentIntentId
  <2>1. MayConfirm(w) /\ tx[w].row = Processed /\ tx[w].confirms = HashOf(w)
    BY <1>1, <1>5, Zenon DEF TxOK
  <2>2. p \in Intents /\ IntentVerdict(PayloadOf(w), p, intents[p]) = Undecided
    BY <2>1, Zenon DEF MayConfirm
  <2>3. intents[p].status \notin {"CONFIRMED", "FAILED", "EXPIRED"}
    BY <1>1, <2>2, VerdictCases
  <2>4. payloads[tx[w].event] \in Payload
    BY <1>1, Zenon DEF IInv, TypeOK
  <2>5. PayloadOf(w).txHash \in TxHash
    BY <2>1, <2>4 DEF MayConfirm, PayloadOf, PayloadFailure, Payload
  <2>6. HashOf(w) \in TxHash /\ HashOf(w).spelling = "canonical"
    BY <2>5, NormalizeType, Zenon DEF HashOf
  <2>7. HoldersIn(intents, HashOf(w)) = {}
    BY <1>1, <1>5, <2>1 DEF HashInv
  <2>8. intents' = [intents EXCEPT ![p] = [status |-> "CONFIRMED",
                                           confirmedTxHash |-> tx[w].confirms]]
    BY <1>5, Zenon DEF Commit
  <2> QED
    BY <1>1, <2>1, <2>2, <2>3, <2>6, <2>7, <2>8, ZenonT(30)
<1> QED
  BY <1>1, <1>2, <1>3, <1>4, <1>5, Zenon

\* A step keeps decided events and closed intents as they are.
LEMMA FinalKept ==
  ASSUME IInv, [Next]_vars
  PROVE  /\ \A e \in Events :
              events[e].status \in {"PROCESSED", "FAILED"} => events'[e] = events[e]
         /\ \A p \in Intents :
              intents[p].status \in {"CONFIRMED", "FAILED", "EXPIRED"} =>
                intents'[p] = intents[p]
<1> DEFINE Kept ==
      /\ \A e \in Events :
           events[e].status \in {"PROCESSED", "FAILED"} => events'[e] = events[e]
      /\ \A p \in Intents :
           intents[p].status \in {"CONFIRMED", "FAILED", "EXPIRED"} =>
             intents'[p] = intents[p]
<1>1. CASE UNCHANGED <<events, intents>>
  BY <1>1, Zenon
<1>2. ASSUME NEW w \in Workers, Commit(w) PROVE Kept
  <2>1. \A e \in Events :
          events[e].status \in {"PROCESSED", "FAILED"} => events'[e] = events[e]
    BY <1>2, CommitEffect, Zenon DEF Open
  <2>2. CASE tx[w].confirms = NoTxHash
    BY <1>2, <2>1, <2>2, CommitEffect, Zenon
  <2>3. CASE tx[w].confirms # NoTxHash
    <3>1. LET p == PayloadOf(w).paymentIntentId IN
            /\ intents[p].status \notin {"CONFIRMED", "FAILED", "EXPIRED"}
            /\ \A q \in Intents \ {p} : intents'[q] = intents[q]
      BY <1>2, <2>3, CommitEffect, Zenon
    <3> QED
      BY <2>1, <3>1
  <2> QED
    BY <2>2, <2>3
<1>3. ASSUME NEW e \in Events, MarkWebhookQueued(e) PROVE Kept
  <2>1. events \in [Events -> EventRow]
    BY DEF IInv, TypeOK
  <2> QED
    BY <1>3, <2>1 DEF MarkWebhookQueued
<1>4. ASSUME NEW p \in Intents, CreatePaymentIntent(p) PROVE Kept
  <2>1. intents \in [Intents -> IntentRow]
    BY DEF IInv, TypeOK
  <2> QED
    BY <1>4, <2>1 DEF CreatePaymentIntent
<1> QED
  BY <1>1, <1>2, <1>3, <1>4, TablesChange

\* PROCESSED and FAILED events, CONFIRMED, FAILED and EXPIRED intents are never
\* changed again, by a duplicate or a late job either.
THEOREM FinalRowsAreFinal == Spec => FinalRowsNeverChange
BY FinalKept, Invariance, PTL DEF Spec, FinalRowsNeverChange

\* The only step that makes an intent CONFIRMED is the commit of a worker that
\* holds its lock and has entered its canonical hash into the index.
LEMMA NewlyConfirmed ==
  ASSUME IInv, [Next]_vars, NEW p \in Intents,
         intents[p].status # "CONFIRMED", intents'[p].status = "CONFIRMED"
  PROVE  \E w \in Workers :
           /\ Commit(w)
           /\ tx[w].confirms # NoTxHash
           /\ PayloadOf(w).paymentIntentId = p
<1>1. intents \in [Intents -> IntentRow]
  BY DEF IInv, TypeOK
<1>2. ASSUME NEW w \in Workers, Commit(w)
      PROVE  tx[w].confirms # NoTxHash /\ PayloadOf(w).paymentIntentId = p
  BY <1>2, CommitEffect, Zenon
<1>3. ASSUME NEW q \in Intents, CreatePaymentIntent(q) PROVE FALSE
  BY <1>1, <1>3 DEF CreatePaymentIntent
<1>4. ASSUME NEW e \in Events, MarkWebhookQueued(e) PROVE FALSE
  BY <1>4 DEF MarkWebhookQueued
<1> QED
  BY <1>2, <1>3, <1>4, TablesChange, Zenon

\* A transaction hash confirms at most one intent, in any spelling.  A legacy
\* spelling elsewhere would come with a row that holds the canonical one
\* (MigratedHashes), and the committing worker found none.
THEOREM HashConfirmsOneIntent == Spec => HashConfirmsOnce
<1> DEFINE Once ==
      \A p \in Intents :
        intents[p].status # "CONFIRMED" /\ intents'[p].status = "CONFIRMED" =>
          \A q \in Intents \ {p} :
            intents'[q].status = "CONFIRMED" =>
              intents'[q].confirmedTxHash.id # intents'[p].confirmedTxHash.id
<1>1. ASSUME IInv, [Next]_vars PROVE Once
  <2> SUFFICES ASSUME NEW p \in Intents,
                      intents[p].status # "CONFIRMED", intents'[p].status = "CONFIRMED",
                      NEW q \in Intents, q # p, intents'[q].status = "CONFIRMED",
                      intents'[q].confirmedTxHash.id = intents'[p].confirmedTxHash.id
               PROVE  FALSE
    OBVIOUS
  <2>1. PICK w \in Workers :
          Commit(w) /\ tx[w].confirms # NoTxHash /\ PayloadOf(w).paymentIntentId = p
    BY <1>1, NewlyConfirmed, Zenon
  <2>2. /\ HashOf(w) \in TxHash
        /\ HashOf(w).spelling = "canonical"
        /\ HoldersIn(intents, HashOf(w)) = {}
        /\ intents'[p].confirmedTxHash = HashOf(w)
        /\ intents'[q] = intents[q]
    <3>1. LET r == PayloadOf(w).paymentIntentId IN
            /\ HashOf(w) \in TxHash
            /\ HashOf(w).spelling = "canonical"
            /\ HoldersIn(intents, HashOf(w)) = {}
            /\ intents'[r] = [status |-> "CONFIRMED", confirmedTxHash |-> HashOf(w)]
            /\ \A s \in Intents \ {r} : intents'[s] = intents[s]
      BY <1>1, <2>1, CommitEffect, Zenon
    <3>2. /\ intents'[p] = [status |-> "CONFIRMED", confirmedTxHash |-> HashOf(w)]
          /\ intents'[q] = intents[q]
      BY <2>1, <3>1, Zenon
    <3>3. intents'[p].confirmedTxHash = HashOf(w)
      BY <3>2, ConfirmedRow, ZenonT(30)
    <3> QED
      BY <3>1, <3>2, <3>3
  <2>3. HashInv /\ intents[q] \in IntentRow
    BY <1>1, Zenon DEF IInv, TypeOK
  <2>4. intents[q].confirmedTxHash \in TxHash
    BY <2>2, <2>3 DEF HashInv, IntentRow
  <2>5. normalizeTxHash(intents[q].confirmedTxHash) = HashOf(w)
    <3>1. normalizeTxHash(intents[q].confirmedTxHash) = normalizeTxHash(HashOf(w))
      BY <2>2, <2>4, NormalizeSame
    <3>2. normalizeTxHash(HashOf(w)) = HashOf(w)
      BY <2>2, Zenon DEF normalizeTxHash, TxHash
    <3> QED
      BY <3>1, <3>2
  <2>6. PICK r \in Intents : intents[r].confirmedTxHash = HashOf(w)
    BY <2>3, <2>4, <2>5 DEF HashInv, MigratedHashes
  <2> QED
    BY <2>2, <2>6, Zenon DEF HoldersIn
<1> QED
  BY <1>1, Invariance, PTL DEF Spec, HashConfirmsOnce

\* An intent becomes CONFIRMED in the very commit that makes the event that
\* names it PROCESSED, with the hash of that event.
THEOREM ConfirmationIsAtomic == Spec => ConfirmedWithItsEvent
<1> DEFINE Together ==
      \A p \in Intents :
        intents[p].status # "CONFIRMED" /\ intents'[p].status = "CONFIRMED" =>
          \E e \in Events :
            /\ Open(events[e])
            /\ events'[e].status = "PROCESSED"
            /\ payloads[e].paymentIntentId = p
            /\ normalizeTxHash(payloads[e].txHash) = intents'[p].confirmedTxHash
<1>1. ASSUME IInv, [Next]_vars PROVE Together
  <2> SUFFICES ASSUME NEW p \in Intents,
                      intents[p].status # "CONFIRMED", intents'[p].status = "CONFIRMED"
               PROVE  \E e \in Events :
                        /\ Open(events[e])
                        /\ events'[e].status = "PROCESSED"
                        /\ payloads[e].paymentIntentId = p
                        /\ normalizeTxHash(payloads[e].txHash) = intents'[p].confirmedTxHash
    BY Zenon
  <2>1. PICK w \in Workers :
          Commit(w) /\ tx[w].confirms # NoTxHash /\ PayloadOf(w).paymentIntentId = p
    BY <1>1, NewlyConfirmed
  <2>2. /\ tx[w].event \in Events
        /\ Open(events[tx[w].event])
        /\ events'[tx[w].event] = Processed
        /\ intents'[p].confirmedTxHash = HashOf(w)
    <3>1. LET r == PayloadOf(w).paymentIntentId IN
            /\ tx[w].event \in Events
            /\ Open(events[tx[w].event])
            /\ events'[tx[w].event] = tx[w].row
            /\ tx[w].row = Processed
            /\ intents'[r] = [status |-> "CONFIRMED", confirmedTxHash |-> HashOf(w)]
      BY <1>1, <2>1, CommitEffect
    <3>2. intents'[p] = [status |-> "CONFIRMED", confirmedTxHash |-> HashOf(w)]
      BY <2>1, <3>1, Zenon
    <3>3. intents'[p].confirmedTxHash = HashOf(w)
      BY <3>2, ConfirmedRow, Zenon
    <3> QED
      BY <3>1, <3>3, ZenonT(30)
  <2> QED
    BY <2>1, <2>2, RowTypes, Zenon DEF PayloadOf, HashOf
<1> QED
  BY <1>1, Invariance, PTL DEF Spec, ConfirmedWithItsEvent

-----------------------------------------------------------------------------
(* The audit trail *)

\* webhook_processing_attempts agrees with webhook_events: an open event has no
\* attempt, a decided one only attempts of its own outcome.  A transaction that
\* rolls back leaves no attempt; a duplicate job repeats the stored outcome.
THEOREM AuditTrailAgrees == Spec => []AttemptsMatchOutcome
<1>1. Init => AttemptsMatchOutcome
  <2> SUFFICES ASSUME Init, NEW e \in Events
               PROVE  attempts[e] = {} /\ Open(events[e])
    BY Zenon DEF AttemptsMatchOutcome
  <2>1. events[e] \in InitialEvents /\ attempts[e] = {}
    BY DEF Init
  <2>2. events[e].status \in {"RECEIVED", "QUEUED"}
    BY <2>1, InitialEventsOpen
  <2> QED
    BY <2>1, <2>2 DEF Open
<1>2. ASSUME IInv, AttemptsMatchOutcome, [Next]_vars PROVE AttemptsMatchOutcome'
  <2>1. CASE UNCHANGED <<events, attempts>>
    BY <1>2, <2>1, Zenon DEF AttemptsMatchOutcome, Open
  <2>2. ASSUME NEW w \in Workers, Commit(w) PROVE AttemptsMatchOutcome'
    <3> DEFINE e == tx[w].event
               row == tx[w].row
    <3>1. /\ e \in Events
          /\ events'[e] = row
          /\ \A f \in Events \ {e} : events'[f] = events[f]
          /\ ~Open(events[e]) => row = events[e]
      BY <1>2, <2>2, CommitEffect, Zenon
    <3>2. attempts \in [Events -> SUBSET AttemptRow]
      BY <1>2 DEF IInv, TypeOK
    <3>3. Final(row)
      BY <1>2, <2>2, Zenon DEF IInv, TxInv, TxOK, Commit
    <3>4. attempts' = [attempts EXCEPT ![e] = @ \cup {AttemptOf(row)}]
      BY <2>2, Zenon DEF Commit
    <3>5. /\ attempts'[e] = attempts[e] \cup {AttemptOf(row)}
          /\ \A f \in Events \ {e} : attempts'[f] = attempts[f]
      BY <3>1, <3>2, <3>4
    <3>6. /\ AttemptOf(row).status = "SUCCEEDED" <=> row.status = "PROCESSED"
          /\ AttemptOf(row).errorMessage = row.failureReason
      BY Zenon DEF AttemptOf
    <3> HIDE DEF e, row
    <3>7. \A attempt \in attempts[e] :
            /\ attempt.status = "SUCCEEDED" <=> row.status = "PROCESSED"
            /\ attempt.errorMessage = row.failureReason
      BY <1>2, <3>1 DEF AttemptsMatchOutcome
    <3>8. /\ attempts'[e] # {} /\ ~Open(row)
          /\ \A attempt \in attempts'[e] :
               /\ attempt.status = "SUCCEEDED" <=> row.status = "PROCESSED"
               /\ attempt.errorMessage = row.failureReason
      BY <3>3, <3>5, <3>6, <3>7 DEF Open, Final
    <3> SUFFICES ASSUME NEW f \in Events
                 PROVE  /\ attempts'[f] = {} <=> Open(events'[f])
                        /\ \A attempt \in attempts'[f] :
                             /\ attempt.status = "SUCCEEDED" <=> events'[f].status = "PROCESSED"
                             /\ attempt.errorMessage = events'[f].failureReason
      BY DEF AttemptsMatchOutcome, Open
    <3>9. CASE f = e
      BY <3>1, <3>8, <3>9
    <3>10. CASE f # e
      <4>1. attempts'[f] = attempts[f] /\ events'[f] = events[f]
        BY <3>1, <3>5, <3>10
      <4> QED
        BY <1>2, <4>1 DEF AttemptsMatchOutcome
    <3> QED
      BY <3>9, <3>10
  <2>3. ASSUME NEW e \in Events, MarkWebhookQueued(e) PROVE AttemptsMatchOutcome'
    <3>1. events \in [Events -> EventRow]
      BY <1>2 DEF IInv, TypeOK
    <3>2. /\ attempts' = attempts
          /\ events[e].status = "RECEIVED" /\ events'[e].status = "QUEUED"
          /\ \A f \in Events \ {e} : events'[f] = events[f]
      BY <2>3, <3>1 DEF MarkWebhookQueued, EventRow
    <3> QED
      BY <1>2, <3>2 DEF AttemptsMatchOutcome, Open
  <2>4. ASSUME NEW p \in Intents, CreatePaymentIntent(p) PROVE UNCHANGED <<events, attempts>>
    BY <2>4 DEF CreatePaymentIntent
  <2> QED
    BY <1>2, <2>1, <2>2, <2>3, <2>4, TablesChange
<1> QED
  BY <1>1, <1>2, Invariance, PTL DEF Spec

-----------------------------------------------------------------------------
(* Decisions rest on the committed tables *)

\* The intent that worker w's event names exists and is locked by w.
Named(w) ==
  LET p == PayloadOf(w).paymentIntentId IN
  /\ PayloadFailure(PayloadOf(w)) = "null"
  /\ p \in Intents
  /\ intents[p].status # "ABSENT"
  /\ p \in tx[w].locked

\* The rules, applied to the committed tables as they are now, lead to the row
\* that worker w is about to commit.
Justified(w) ==
  LET payload == PayloadOf(w)
      p == payload.paymentIntentId
      verdict == IntentVerdict(payload, p, intents[p])
  IN \/ tx[w].confirms # NoTxHash
     \/ /\ PayloadFailure(payload) # "null"
        /\ tx[w].row = Failed(PayloadFailure(payload))
     \/ tx[w].row = Failed("UNKNOWN_PAYMENT_INTENT")
     \/ /\ Named(w) /\ verdict # Undecided
        /\ tx[w].row = verdict
     \/ /\ Named(w) /\ verdict = Undecided
        /\ HoldersIn(intents, HashOf(w)) \ {p} # {}
        /\ tx[w].row = Failed("CONFIRMED_TX_HASH_CONFLICT")

\* What worker w has decided, if it has.
Decided(w) ==
  IF tx[w].pc = "finish" THEN Open(events[tx[w].event]) => Justified(w)
                         ELSE tx[w].row = Undecided

DecisionInv == \A w \in Workers : Decided(w)

\* The committed tables give this reason to reject the payload.
Grounds(payload, reason) ==
  LET p == payload.paymentIntentId IN
  \/ reason # "null" /\ reason = PayloadFailure(payload)
  \/ reason = "UNKNOWN_PAYMENT_INTENT"
  \/ /\ p \in Intents
     /\ reason # "null" /\ reason = validatePayloadMatchesPaymentIntent(payload, p)
  \/ /\ p \in Intents
     /\ reason = "PAYMENT_INTENT_TERMINAL"
     /\ intents[p].status \in {"CONFIRMED", "FAILED", "EXPIRED"}
     /\ ~Pays(payload, p)
  \/ /\ payload.txHash \in TxHash
     /\ reason = "CONFIRMED_TX_HASH_CONFLICT"
     /\ HoldersIn(intents, normalizeTxHash(payload.txHash)) \ {p} # {}

RejectInv ==
  \A e \in Events :
    events[e].status = "FAILED" => Grounds(payloads[e], events[e].failureReason)

\* The payload column is never updated.
LEMMA PayloadsKept ==
  ASSUME [Next]_vars
  PROVE  payloads' = payloads
<1>1. ASSUME NEW w \in Workers, TxStep(w)
      PROVE  payloads' = payloads
  BY <1>1 DEF TxStep, LockWebhookEvent, RejectPayload, UnknownPaymentIntent,
     LockPaymentIntent, FindHolder, SaveIntent, Commit
<1> QED
  BY <1>1, Zenon DEF Next, vars, Deliver, Fail, MarkWebhookQueued, CreatePaymentIntent

\* A row that holds a hash is closed, so it goes on holding it.
LEMMA HoldersKept ==
  ASSUME IInv, [Next]_vars, NEW h \in TxHash
  PROVE  HoldersIn(intents, h) \subseteq HoldersIn(intents', h)
<1> SUFFICES ASSUME NEW q \in Intents, intents[q].confirmedTxHash = h
             PROVE  intents'[q].confirmedTxHash = h
  BY DEF HoldersIn
<1>1. intents[q].confirmedTxHash # NoTxHash
  BY DataAssumption, Zenon
<1>2. intents[q].status = "CONFIRMED"
  BY <1>1 DEF IInv, HashInv
<1> QED
  BY <1>2, FinalKept

\* Grounds stay grounds: what they say of an intent they say of a closed one.
LEMMA GroundsKept ==
  ASSUME IInv, [Next]_vars, NEW payload, NEW reason, Grounds(payload, reason)
  PROVE  Grounds(payload, reason)'
<1> DEFINE p == payload.paymentIntentId
<1>1. CASE \/ reason # "null" /\ reason = PayloadFailure(payload)
           \/ reason = "UNKNOWN_PAYMENT_INTENT"
           \/ /\ p \in Intents
              /\ reason # "null" /\ reason = validatePayloadMatchesPaymentIntent(payload, p)
  BY <1>1, Zenon DEF Grounds
<1>2. CASE /\ p \in Intents
           /\ reason = "PAYMENT_INTENT_TERMINAL"
           /\ intents[p].status \in {"CONFIRMED", "FAILED", "EXPIRED"}
           /\ ~Pays(payload, p)
  <2>1. intents'[p] = intents[p]
    BY <1>2, FinalKept
  <2>2. ~Pays(payload, p)'
    BY <1>2, <2>1, Zenon DEF Pays
  <2> QED
    BY <1>2, <2>1, <2>2, Zenon DEF Grounds
<1>3. CASE /\ payload.txHash \in TxHash
           /\ reason = "CONFIRMED_TX_HASH_CONFLICT"
           /\ HoldersIn(intents, normalizeTxHash(payload.txHash)) \ {p} # {}
  <2>1. normalizeTxHash(payload.txHash) \in TxHash
    BY <1>3, NormalizeType
  <2>2. HoldersIn(intents', normalizeTxHash(payload.txHash)) \ {p} # {}
    BY <1>3, <2>1, HoldersKept
  <2> QED
    BY <1>3, <2>2, Zenon DEF Grounds
<1> QED
  BY <1>1, <1>2, <1>3, Zenon DEF Grounds

\* What worker v is about to commit stays justified while v keeps its locks and
\* nobody writes the intent it has locked.
LEMMA JustifiedKept ==
  ASSUME IInv, [Next]_vars, NEW v \in Workers, tx[v].pc = "finish",
         tx'[v] = tx[v], Justified(v),
         Named(v) => intents'[PayloadOf(v).paymentIntentId]
                       = intents[PayloadOf(v).paymentIntentId]
  PROVE  Justified(v)'
<1> DEFINE payload == PayloadOf(v)
           p == payload.paymentIntentId
<1>1. payloads' = payloads
  BY PayloadsKept, Zenon
<1>2. PayloadOf(v)' = PayloadOf(v) /\ HashOf(v)' = HashOf(v)
  BY <1>1 DEF PayloadOf, HashOf
<1>3. CASE \/ tx[v].confirms # NoTxHash
           \/ /\ PayloadFailure(payload) # "null"
              /\ tx[v].row = Failed(PayloadFailure(payload))
           \/ tx[v].row = Failed("UNKNOWN_PAYMENT_INTENT")
  BY <1>2, <1>3, Zenon DEF Justified
<1>4. ASSUME Named(v)
      PROVE  Named(v)' /\ IntentVerdict(payload, p, intents[p])'
                            = IntentVerdict(payload, p, intents[p])
  BY <1>2, <1>4, Zenon DEF Named
<1>5. CASE /\ Named(v) /\ IntentVerdict(payload, p, intents[p]) # Undecided
           /\ tx[v].row = IntentVerdict(payload, p, intents[p])
  BY <1>2, <1>4, <1>5, Zenon DEF Justified
<1>6. CASE /\ Named(v) /\ IntentVerdict(payload, p, intents[p]) = Undecided
           /\ HoldersIn(intents, HashOf(v)) \ {p} # {}
           /\ tx[v].row = Failed("CONFIRMED_TX_HASH_CONFLICT")
  <2>1. PayloadFailure(payload) = "null"
    BY <1>6, Zenon DEF Named
  <2>2. HashOf(v) \in TxHash
    BY <2>1, PayloadHash, NormalizeType, Zenon DEF HashOf
  <2>3. HoldersIn(intents', HashOf(v)) \ {p} # {}
    BY <1>6, <2>2, HoldersKept, Zenon
  <2> QED
    BY <1>2, <1>4, <1>6, <2>3, Zenon DEF Justified
<1> QED
  BY <1>3, <1>5, <1>6, Zenon DEF Justified

\* A step of worker w that writes no table leaves the decisions of the others
\* justified.
LEMMA OwnDecision ==
  ASSUME IInv, DecisionInv, [Next]_vars, NEW w \in Workers,
         UNCHANGED <<events, intents>>,
         \A v \in Workers \ {w} : tx'[v] = tx[v],
         Decided(w)'
  PROVE  DecisionInv'
<1> SUFFICES ASSUME NEW v \in Workers, v # w
             PROVE  Decided(v)'
  BY Zenon DEF DecisionInv, Decided
<1>1. Decided(v) /\ tx'[v] = tx[v]
  BY Zenon DEF DecisionInv, Decided
<1>2. CASE tx[v].pc = "finish" /\ Open(events[tx[v].event])
  <2>1. Justified(v)
    BY <1>1, <1>2, Zenon DEF Decided
  <2>2. Justified(v)'
    BY <1>1, <1>2, <2>1, JustifiedKept, Zenon
  <2> QED
    BY <1>1, <1>2, <2>2, Zenon DEF Decided
<1>3. CASE ~(tx[v].pc = "finish" /\ Open(events[tx[v].event]))
  BY <1>1, <1>3, Zenon DEF Decided, Open
<1> QED
  BY <1>2, <1>3

\* What Finish leaves behind.
LEMMA FinishFields ==
  ASSUME IInv, [Next]_vars, NEW w \in Workers, NEW row, NEW locks, NEW hash,
         Finish(w, row, locks, hash)
  PROVE  /\ tx'[w].pc = "finish" /\ tx'[w].event = tx[w].event
         /\ tx'[w].row = row /\ tx'[w].locked = locks /\ tx'[w].confirms = hash
         /\ \A v \in Workers \ {w} : tx'[v] = tx[v]
         /\ PayloadOf(w)' = PayloadOf(w) /\ HashOf(w)' = HashOf(w)
<1> DEFINE t == [pc |-> "finish", event |-> tx[w].event, row |-> row,
                 locked |-> locks, confirms |-> hash]
<1>1. tx' = [tx EXCEPT ![w] = t]
  BY DEF Finish
<1>2. tx \in [Workers -> Tx]
  BY DEF IInv, TypeOK
<1>3. tx'[w] = t /\ \A v \in Workers \ {w} : tx'[v] = tx[v]
  <2> HIDE DEF t
  <2> QED  BY <1>1, <1>2, Zenon
<1>4. /\ tx'[w].pc = "finish" /\ tx'[w].event = tx[w].event
      /\ tx'[w].row = row /\ tx'[w].locked = locks /\ tx'[w].confirms = hash
  BY <1>3
<1>5. payloads' = payloads
  BY PayloadsKept
<1> QED
  BY <1>3, <1>4, <1>5, Zenon DEF PayloadOf, HashOf

\* A transaction that ends or begins has decided nothing.
LEMMA UndecidedStep ==
  ASSUME IInv, DecisionInv, [Next]_vars, NEW w \in Workers, NEW t,
         tx' = [tx EXCEPT ![w] = t], t.pc # "finish", t.row = Undecided,
         UNCHANGED <<events, intents>>
  PROVE  DecisionInv'
<1>1. tx \in [Workers -> Tx]
  BY DEF IInv, TypeOK
<1>2. tx'[w] = t /\ \A v \in Workers \ {w} : tx'[v] = tx[v]
  BY <1>1
<1>3. Decided(w)'
  BY <1>2, Zenon DEF Decided
<1> QED
  BY <1>2, <1>3, OwnDecision, Zenon

\* Every step of a worker before its commit decides by the committed tables.
LEMMA WorkerDecides ==
  ASSUME IInv, DecisionInv, [Next]_vars, NEW w \in Workers,
         TxStep(w), ~Commit(w)
  PROVE  DecisionInv'
<1> DEFINE payload == PayloadOf(w)
           p == payload.paymentIntentId
           verdict == IntentVerdict(payload, p, intents[p])
<1>1. tx[w].pc # "finish" => tx[w].row = Undecided
  BY Zenon DEF DecisionInv, Decided
<1>2. CASE LockWebhookEvent(w)
  <2>1. UNCHANGED <<events, intents>>
    BY <1>2 DEF LockWebhookEvent
  <2>2. CASE Final(events[tx[w].event])
    <3>1. Finish(w, events[tx[w].event], {}, NoTxHash)
      BY <1>2, <2>2 DEF LockWebhookEvent
    <3>2. /\ tx'[w].pc = "finish" /\ tx'[w].event = tx[w].event
          /\ \A v \in Workers \ {w} : tx'[v] = tx[v]
      BY <3>1, FinishFields, Zenon
    <3>3. ~Open(events[tx[w].event])
      BY <2>2 DEF Final, Open
    <3>4. Decided(w)'
      BY <2>1, <3>2, <3>3, Zenon DEF Decided, Open
    <3> QED
      BY <2>1, <3>2, <3>4, OwnDecision, Zenon
  <2>3. CASE ~Final(events[tx[w].event])
    <3> DEFINE t == [tx[w] EXCEPT !.pc = "rules", !.row = Undecided]
    <3>1. tx' = [tx EXCEPT ![w] = t]
      BY <1>2, <2>3, Zenon DEF LockWebhookEvent
    <3>2. tx[w] \in Tx
      BY DEF IInv, TypeOK
    <3>3. t.pc # "finish" /\ t.row = Undecided
      BY <3>2 DEF Tx
    <3> HIDE DEF t
    <3> QED
      BY <2>1, <3>1, <3>3, UndecidedStep, Zenon
  <2> QED
    BY <2>2, <2>3
<1>3. CASE RejectPayload(w)
  <2>1. /\ Finish(w, Failed(PayloadFailure(payload)), {}, NoTxHash)
        /\ PayloadFailure(payload) # "null" /\ UNCHANGED <<events, intents>>
    BY <1>3 DEF RejectPayload
  <2>2. /\ tx'[w].row = Failed(PayloadFailure(payload)) /\ PayloadOf(w)' = payload
        /\ tx'[w].pc = "finish" /\ \A v \in Workers \ {w} : tx'[v] = tx[v]
    BY <2>1, FinishFields, Zenon
  <2>3. Decided(w)'
    BY <2>1, <2>2, Zenon DEF Decided, Justified
  <2> QED
    BY <2>1, <2>2, <2>3, OwnDecision, Zenon
<1>4. CASE UnknownPaymentIntent(w)
  <2>1. /\ Finish(w, Failed("UNKNOWN_PAYMENT_INTENT"), {}, NoTxHash)
        /\ UNCHANGED <<events, intents>>
    BY <1>4 DEF UnknownPaymentIntent
  <2>2. /\ tx'[w].row = Failed("UNKNOWN_PAYMENT_INTENT")
        /\ tx'[w].pc = "finish" /\ \A v \in Workers \ {w} : tx'[v] = tx[v]
    BY <2>1, FinishFields, Zenon
  <2>3. Decided(w)'
    BY <2>1, <2>2, Zenon DEF Decided, Justified
  <2> QED
    BY <2>1, <2>2, <2>3, OwnDecision, Zenon
<1>5. CASE LockPaymentIntent(w)
  <2>1. /\ UNCHANGED <<events, intents>> /\ tx[w].pc = "rules"
        /\ PayloadFailure(payload) = "null"
        /\ p \in Intents /\ intents[p].status # "ABSENT"
        /\ verdict # Undecided => Finish(w, verdict, {p}, NoTxHash)
        /\ verdict = Undecided =>
             tx' = [tx EXCEPT ![w].pc = "findHolder", ![w].locked = {p}]
    BY <1>5, Zenon DEF LockPaymentIntent
  <2>2. CASE verdict # Undecided
    <3>1. /\ tx'[w].row = verdict /\ tx'[w].locked = {p} /\ PayloadOf(w)' = payload
          /\ tx'[w].pc = "finish" /\ \A v \in Workers \ {w} : tx'[v] = tx[v]
      BY <2>1, <2>2, FinishFields, Zenon
    <3>2. Named(w)'
      BY <2>1, <3>1, Zenon DEF Named
    <3>3. Decided(w)'
      BY <2>1, <2>2, <3>1, <3>2, Zenon DEF Decided, Justified
    <3> QED
      BY <2>1, <3>1, <3>3, OwnDecision, Zenon
  <2>3. CASE verdict = Undecided
    <3> DEFINE t == [tx[w] EXCEPT !.pc = "findHolder", !.locked = {p}]
    <3>1. tx' = [tx EXCEPT ![w] = t]
      BY <2>1, <2>3, Zenon
    <3>2. tx[w] \in Tx
      BY DEF IInv, TypeOK
    <3>3. t.pc # "finish" /\ t.row = Undecided
      BY <1>1, <2>1, <3>2 DEF Tx
    <3> HIDE DEF t
    <3> QED
      BY <2>1, <3>1, <3>3, UndecidedStep, Zenon
  <2> QED
    BY <2>2, <2>3
<1>6. CASE FindHolder(w)
  <2> DEFINE others == HoldersIn(intents, HashOf(w)) \ {p}
  <2>1. /\ UNCHANGED <<events, intents>> /\ tx[w].pc = "findHolder"
        /\ \/ tx' = [tx EXCEPT ![w].pc = "saveIntent"]
           \/ \E q \in others :
                Finish(w, Failed("CONFIRMED_TX_HASH_CONFLICT"), tx[w].locked \cup {q}, NoTxHash)
    BY <1>6, Zenon DEF FindHolder
  <2>2. MayConfirm(w)
    BY <2>1, Zenon DEF IInv, TxInv, TxOK
  <2>3. ASSUME NEW q \in others,
               Finish(w, Failed("CONFIRMED_TX_HASH_CONFLICT"), tx[w].locked \cup {q}, NoTxHash)
        PROVE  DecisionInv'
    <3> DEFINE locks == tx[w].locked \cup {q}
    <3>0. Finish(w, Failed("CONFIRMED_TX_HASH_CONFLICT"), locks, NoTxHash)
      BY <2>3, Zenon
    <3> HIDE DEF locks, others
    <3>1. /\ tx'[w].row = Failed("CONFIRMED_TX_HASH_CONFLICT") /\ tx'[w].locked = locks
          /\ PayloadOf(w)' = payload /\ HashOf(w)' = HashOf(w)
          /\ tx'[w].pc = "finish" /\ \A v \in Workers \ {w} : tx'[v] = tx[v]
      <4> DEFINE row == Failed("CONFIRMED_TX_HASH_CONFLICT")
      <4>1. Finish(w, row, locks, NoTxHash)
        BY <3>0
      <4> HIDE DEF row
      <4>2. /\ tx'[w].row = row /\ tx'[w].locked = locks
            /\ PayloadOf(w)' = payload /\ HashOf(w)' = HashOf(w)
            /\ tx'[w].pc = "finish" /\ \A v \in Workers \ {w} : tx'[v] = tx[v]
        BY <4>1, FinishFields, ZenonT(30)
      <4> QED
        BY <4>2 DEF row
    <3>2. /\ PayloadFailure(payload) = "null" /\ p \in Intents
          /\ intents[p].status # "ABSENT" /\ verdict = Undecided /\ p \in locks
      BY <2>2, Zenon DEF MayConfirm, locks
    <3>3. Named(w)'
      BY <2>1, <3>1, <3>2, Zenon DEF Named
    <3>4. others # {}
      BY <2>3
    <3>5. Decided(w)'
      BY <2>1, <3>1, <3>2, <3>3, <3>4, Zenon DEF Decided, Justified, others
    <3> QED
      BY <2>1, <3>1, <3>5, OwnDecision, Zenon
  <2>4. CASE tx' = [tx EXCEPT ![w].pc = "saveIntent"]
    <3> DEFINE t == [tx[w] EXCEPT !.pc = "saveIntent"]
    <3>1. tx' = [tx EXCEPT ![w] = t]
      BY <2>4
    <3>2. tx[w] \in Tx
      BY DEF IInv, TypeOK
    <3>3. t.pc # "finish" /\ t.row = Undecided
      BY <1>1, <2>1, <3>2 DEF Tx
    <3> HIDE DEF t
    <3> QED
      BY <2>1, <3>1, <3>3, UndecidedStep, Zenon
  <2> QED
    BY <2>1, <2>3, <2>4, Zenon
<1>7. CASE SaveIntent(w)
  <2>1. /\ UNCHANGED <<events, intents>> /\ tx[w].pc = "saveIntent"
        /\ \/ tx' = [tx EXCEPT ![w] = NoTx]
           \/ Finish(w, Processed, tx[w].locked, HashOf(w))
    BY <1>7, Zenon DEF SaveIntent
  <2>2. CASE Finish(w, Processed, tx[w].locked, HashOf(w))
    <3>1. MayConfirm(w)
      BY <2>1, ZenonT(30) DEF IInv, TxInv, TxOK
    <3>2. HashOf(w) # NoTxHash
      BY <2>1, <3>1, PayloadHash DEF MayConfirm
    <3>3. /\ tx'[w].confirms = HashOf(w)
          /\ tx'[w].pc = "finish" /\ \A v \in Workers \ {w} : tx'[v] = tx[v]
      BY <2>2, FinishFields, Zenon
    <3>4. Decided(w)'
      BY <3>2, <3>3, Zenon DEF Decided, Justified
    <3> QED
      BY <2>1, <3>3, <3>4, OwnDecision, Zenon
  <2>3. CASE tx' = [tx EXCEPT ![w] = NoTx]
    <3>1. NoTx.pc # "finish" /\ NoTx.row = Undecided
      BY DEF NoTx
    <3> QED
      BY <2>1, <2>3, <3>1, UndecidedStep, Zenon
  <2> QED
    BY <2>1, <2>2, <2>3, Zenon
<1> QED
  BY <1>2, <1>3, <1>4, <1>5, <1>6, <1>7, Zenon DEF TxStep

\* Decisions stay justified until they are committed: a commit writes only an
\* intent that the committing worker has locked.
LEMMA DecisionNext ==
  ASSUME IInv, DecisionInv, [Next]_vars
  PROVE  DecisionInv'
<1>1. ASSUME NEW w \in Workers, NEW e \in Events, Deliver(w, e) PROVE DecisionInv'
  <2> DEFINE t == [tx[w] EXCEPT !.pc = "lockEvent", !.event = e]
  <2>1. tx' = [tx EXCEPT ![w] = t] /\ tx[w].pc = "idle" /\ UNCHANGED <<events, intents>>
    BY <1>1, Zenon DEF Deliver
  <2>2. tx[w] \in Tx /\ tx[w].row = Undecided
    BY <2>1 DEF IInv, TypeOK, DecisionInv, Decided
  <2>3. t.pc # "finish" /\ t.row = Undecided
    BY <2>2 DEF Tx
  <2> HIDE DEF t
  <2> QED
    BY <2>1, <2>3, UndecidedStep, Zenon
<1>2. ASSUME NEW w \in Workers, Fail(w) PROVE DecisionInv'
  <2>1. NoTx.pc # "finish" /\ NoTx.row = Undecided
    BY DEF NoTx
  <2>2. tx' = [tx EXCEPT ![w] = NoTx] /\ UNCHANGED <<events, intents>>
    BY <1>2 DEF Fail
  <2> QED
    BY <2>1, <2>2, UndecidedStep, Zenon
<1>3. ASSUME NEW w \in Workers, Commit(w) PROVE DecisionInv'
  <2>1. /\ tx \in [Workers -> Tx] /\ tx' = [tx EXCEPT ![w] = NoTx]
        /\ tx[w].pc = "finish"
    BY <1>3 DEF IInv, TypeOK, Commit
  <2>2. tx'[w] = NoTx /\ \A v \in Workers \ {w} : tx'[v] = tx[v]
    BY <2>1
  <2> SUFFICES ASSUME NEW v \in Workers PROVE Decided(v)'
    BY Zenon DEF DecisionInv, Decided
  <2>3. CASE v = w
    <3>1. NoTx.pc # "finish" /\ NoTx.row = Undecided
      BY DEF NoTx
    <3> QED
      BY <2>2, <2>3, <3>1, Zenon DEF Decided
  <2>4. CASE v # w /\ tx[v].pc # "finish"
    BY <2>2, <2>4, Zenon DEF DecisionInv, Decided
  <2>5. CASE v # w /\ tx[v].pc = "finish"
    <3>1. tx[v].event \in Events /\ tx[v].event # tx[w].event
      BY <2>1, <2>5, OwnEvent DEF IInv, TypeOK, HoldsEvent
    <3>2. events'[tx[v].event] = events[tx[v].event]
      BY <1>3, <3>1, CommitEffect, Zenon
    <3>3. ASSUME Named(v)
          PROVE  intents'[PayloadOf(v).paymentIntentId] = intents[PayloadOf(v).paymentIntentId]
      <4> DEFINE q == PayloadOf(v).paymentIntentId
      <4>1. q \in Intents /\ q \in tx[v].locked
        BY <3>3, Zenon DEF Named
      <4>2. CASE tx[w].confirms = NoTxHash
        BY <1>3, <4>2, CommitEffect, Zenon
      <4>3. CASE tx[w].confirms # NoTxHash
        <5>1. MayConfirm(w)
          BY <4>3, Zenon DEF IInv, TxInv, TxOK
        <5>2. PayloadOf(w).paymentIntentId \in tx[w].locked
          BY <5>1, Zenon DEF MayConfirm
        <5>3. tx[w].locked \cap tx[v].locked = {}
          BY <2>5 DEF IInv, LockInv
        <5>4. q # PayloadOf(w).paymentIntentId
          BY <4>1, <5>2, <5>3
        <5> HIDE DEF q
        <5> QED
          BY <1>3, <4>1, <4>3, <5>4, CommitEffect, Zenon DEF q
      <4> QED
        BY <4>2, <4>3, Zenon
    <3>4. CASE Open(events[tx[v].event])
      <4>1. Justified(v)
        BY <2>5, <3>4, Zenon DEF DecisionInv, Decided
      <4>2. Justified(v)'
        BY <2>2, <2>5, <3>3, <4>1, JustifiedKept, Zenon
      <4> QED
        BY <2>2, <2>5, <4>2, Zenon DEF Decided
    <3>5. CASE ~Open(events[tx[v].event])
      BY <2>2, <2>5, <3>2, <3>5, Zenon DEF Decided, Open
    <3> QED
      BY <3>4, <3>5, Zenon
  <2> QED
    BY <2>3, <2>4, <2>5, Zenon
<1>4. ASSUME NEW e \in Events, MarkWebhookQueued(e) PROVE DecisionInv'
  <2>1. /\ events \in [Events -> EventRow] /\ UNCHANGED <<intents, tx>>
        /\ events[e].status = "RECEIVED"
        /\ events' = [events EXCEPT ![e].status = "QUEUED"]
    BY <1>4 DEF IInv, TypeOK, MarkWebhookQueued
  <2>2. \A f \in Events : Open(events'[f]) <=> Open(events[f])
    BY <2>1 DEF Open, EventRow
  <2> SUFFICES ASSUME NEW v \in Workers PROVE Decided(v)'
    BY Zenon DEF DecisionInv, Decided
  <2>3. CASE tx[v].pc = "finish"
    <3>1. tx[v].event \in Events
      BY <2>3 DEF IInv, TypeOK
    <3>2. Open(events[tx[v].event])' <=> Open(events[tx[v].event])
      BY <2>1, <2>2, <3>1 DEF Open
    <3>3. Justified(v) => Justified(v)'
      BY <2>1, <2>3, JustifiedKept, Zenon
    <3> QED
      BY <2>1, <2>3, <3>2, <3>3, Zenon DEF DecisionInv, Decided
  <2>4. CASE tx[v].pc # "finish"
    BY <2>1, <2>4, Zenon DEF DecisionInv, Decided
  <2> QED
    BY <2>3, <2>4
<1>5. ASSUME NEW p \in Intents, CreatePaymentIntent(p) PROVE DecisionInv'
  <2>1. /\ intents \in [Intents -> IntentRow] /\ UNCHANGED <<events, tx>>
        /\ intents[p].status = "ABSENT"
        /\ intents' = [intents EXCEPT ![p].status = "CREATED"]
    BY <1>5 DEF IInv, TypeOK, CreatePaymentIntent
  <2>2. \A q \in Intents : intents[q].status # "ABSENT" => intents'[q] = intents[q]
    BY <2>1
  <2> SUFFICES ASSUME NEW v \in Workers PROVE Decided(v)'
    BY Zenon DEF DecisionInv, Decided
  <2>3. CASE tx[v].pc = "finish"
    <3>1. Named(v) => intents'[PayloadOf(v).paymentIntentId]
                        = intents[PayloadOf(v).paymentIntentId]
      BY <2>2, Zenon DEF Named
    <3>2. Justified(v) => Justified(v)'
      BY <2>1, <2>3, <3>1, JustifiedKept, Zenon
    <3> QED
      BY <2>1, <2>3, <3>2, Zenon DEF DecisionInv, Decided, Open
  <2>4. CASE tx[v].pc # "finish"
    BY <2>1, <2>4, Zenon DEF DecisionInv, Decided
  <2> QED
    BY <2>3, <2>4
<1>6. ASSUME UNCHANGED vars PROVE DecisionInv'
  BY <1>6, ZenonT(30) DEF vars, DecisionInv, Decided, Justified, Named, PayloadOf, HashOf, Open
<1>7. ASSUME NEW w \in Workers, TxStep(w) PROVE DecisionInv'
  BY <1>3, <1>7, WorkerDecides, Zenon
<1> QED
  BY <1>1, <1>2, <1>4, <1>5, <1>6, <1>7 DEF Next

\* Every decision is justified by the tables of the moment it is committed.
LEMMA DecisionInvariance == Spec => []DecisionInv
<1>1. Init => DecisionInv
  BY DEF Init, DecisionInv, Decided, NoTx
<1>2. IInv /\ DecisionInv /\ [Next]_vars => DecisionInv'
  BY DecisionNext
<1> QED
  BY <1>1, <1>2, Invariance, PTL DEF Spec

\* A rejection that the tables justify has its grounds.
LEMMA RejectionHasGrounds ==
  ASSUME IInv, NEW w \in Workers, tx[w].pc = "finish", Justified(w),
         tx[w].row.status = "FAILED"
  PROVE  Grounds(PayloadOf(w), tx[w].row.failureReason)
<1> DEFINE payload == PayloadOf(w)
           p == payload.paymentIntentId
           verdict == IntentVerdict(payload, p, intents[p])
<1>1. \A reason : Failed(reason).failureReason = reason
  BY DEF Failed
<1>2. tx[w].confirms = NoTxHash
  BY RowTypes, Zenon DEF IInv, TxInv, TxOK
<1>3. CASE /\ PayloadFailure(payload) # "null"
           /\ tx[w].row = Failed(PayloadFailure(payload))
  BY <1>1, <1>3, Zenon DEF Grounds
<1>4. CASE tx[w].row = Failed("UNKNOWN_PAYMENT_INTENT")
  BY <1>1, <1>4, Zenon DEF Grounds
<1>5. CASE Named(w) /\ verdict # Undecided /\ tx[w].row = verdict
  <2>1. p \in Intents
    BY <1>5, Zenon DEF Named
  <2> DEFINE mismatch == validatePayloadMatchesPaymentIntent(payload, p)
  <2>2. CASE mismatch # "null"
    <3>1. verdict = Failed(mismatch)
      BY <2>2, Zenon DEF IntentVerdict
    <3> QED
      BY <1>1, <1>5, <2>1, <2>2, <3>1, Zenon DEF Grounds
  <2>3. CASE mismatch = "null"
    <3>1. /\ verdict = Failed("PAYMENT_INTENT_TERMINAL")
          /\ intents[p].status \in {"CONFIRMED", "FAILED", "EXPIRED"}
          /\ ~(/\ intents[p].status = "CONFIRMED"
               /\ intents[p].confirmedTxHash # NoTxHash
               /\ normalizeTxHash(intents[p].confirmedTxHash) = normalizeTxHash(payload.txHash))
      <4> HIDE DEF payload, p, mismatch
      <4>1. verdict = IF intents[p].status = "CONFIRMED"
                        THEN IF /\ intents[p].confirmedTxHash # NoTxHash
                                /\ normalizeTxHash(intents[p].confirmedTxHash)
                                     = normalizeTxHash(payload.txHash)
                             THEN Processed
                             ELSE Failed("PAYMENT_INTENT_TERMINAL")
                      ELSE IF intents[p].status \in {"FAILED", "EXPIRED"}
                        THEN Failed("PAYMENT_INTENT_TERMINAL")
                      ELSE Undecided
        BY <2>3, Zenon DEF IntentVerdict, mismatch
      <4> HIDE DEF verdict
      <4>2. Processed.status = "PROCESSED" /\ verdict.status = "FAILED" /\ verdict # Undecided
        BY <1>5, RowTypes, SMTT(20)
      <4> QED
        BY <4>1, <4>2
    <3>2. ~Pays(payload, p)
      BY <3>1, DataAssumption, Zenon DEF Pays
    <3> QED
      BY <1>1, <1>5, <2>1, <3>1, <3>2, ZenonT(30) DEF Grounds
  <2> QED
    BY <2>2, <2>3
<1>6. CASE /\ Named(w) /\ HoldersIn(intents, HashOf(w)) \ {p} # {}
           /\ tx[w].row = Failed("CONFIRMED_TX_HASH_CONFLICT")
  <2>1. payload.txHash \in TxHash
    BY <1>6, PayloadHash, SMTT(20) DEF Named
  <2> QED
    BY <1>1, <1>6, <2>1, Zenon DEF Grounds, HashOf
<1> QED
  BY <1>2, <1>3, <1>4, <1>5, <1>6, Zenon DEF Justified

\* A step leaves every stored rejection with its grounds.
LEMMA RejectNext ==
  ASSUME IInv, DecisionInv, RejectInv, [Next]_vars
  PROVE  RejectInv'
<1> SUFFICES ASSUME NEW e \in Events, events'[e].status = "FAILED"
             PROVE  Grounds(payloads[e], events[e].failureReason)'
  BY Zenon DEF RejectInv
<1>1. PICK payload : payload = payloads[e] /\ payload = payloads'[e]
  BY PayloadsKept, Zenon
<1>2. PICK reason : reason = events'[e].failureReason
  OBVIOUS
<1>3. ASSUME Grounds(payload, reason)
      PROVE  Grounds(payloads[e], events[e].failureReason)'
  <2>1. Grounds(payload, reason)'
    BY <1>3, GroundsKept, Zenon
  <2> QED
    BY <1>1, <1>2, <2>1, Zenon
<1>4. CASE events[e].status = "FAILED"
  <2>1. events'[e] = events[e]
    BY <1>4, FinalKept
  <2>2. Grounds(payload, reason)
    BY <1>1, <1>2, <1>4, <2>1, Zenon DEF RejectInv
  <2> QED
    BY <1>3, <2>2, Zenon
<1>5. CASE events[e].status # "FAILED"
  <2>1. PICK w \in Workers : Commit(w) /\ tx[w].event = e
    <3>1. events \in [Events -> EventRow]
      BY DEF IInv, TypeOK
    <3>2. ASSUME NEW f \in Events, MarkWebhookQueued(f) PROVE FALSE
      BY <1>5, <3>1, <3>2 DEF MarkWebhookQueued, EventRow
    <3>3. ASSUME NEW p \in Intents, CreatePaymentIntent(p) PROVE FALSE
      BY <1>5, <3>3, Zenon DEF CreatePaymentIntent
    <3>4. PICK w \in Workers : Commit(w)
      BY <1>5, <3>2, <3>3, TablesChange
    <3>5. tx[w].event = e
      BY <1>5, <3>4, CommitEffect, Zenon
    <3> QED
      BY <3>4, <3>5, Zenon
  <2>2. events'[e] = tx[w].row /\ (~Open(events[e]) => tx[w].row = events[e])
    BY <2>1, CommitEffect, Zenon
  <2>3. Open(events[e]) /\ tx[w].pc = "finish"
    BY <1>5, <2>1, <2>2 DEF Commit
  <2>4. Justified(w)
    BY <2>1, <2>3, Zenon DEF DecisionInv, Decided
  <2>5. Grounds(PayloadOf(w), tx[w].row.failureReason)
    BY <2>2, <2>3, <2>4, RejectionHasGrounds, Zenon
  <2>6. Grounds(payload, reason)
    BY <1>1, <1>2, <2>1, <2>2, <2>5, Zenon DEF PayloadOf
  <2> QED
    BY <1>3, <2>6, Zenon
<1> QED
  BY <1>4, <1>5

\* A stored rejection tells the truth about the committed tables, and goes on
\* telling it whatever is confirmed or created later.
THEOREM RejectionsStayTrue == Spec => []RejectionStaysTrue
<1>1. Init => RejectInv
  <2> SUFFICES ASSUME Init, NEW e \in Events PROVE events[e].status # "FAILED"
    BY Zenon DEF RejectInv
  <2>1. events[e] \in InitialEvents
    BY DEF Init
  <2> QED
    BY <2>1, InitialEventsOpen
<1>2. IInv /\ DecisionInv /\ RejectInv /\ [Next]_vars => RejectInv'
  BY RejectNext, Zenon
<1>3. RejectInv => RejectionStaysTrue
  <2> SUFFICES ASSUME NEW payload, NEW reason, Grounds(payload, reason)
               PROVE  LET p == payload.paymentIntentId IN
                 /\ reason # "null"
                 /\ reason \in {"UNSUPPORTED_EVENT_TYPE", "MISSING_TX_HASH"} =>
                      PayloadFailure(payload) = reason
                 /\ reason \in {"AMOUNT_MISMATCH", "ASSET_MISMATCH"} =>
                      validatePayloadMatchesPaymentIntent(payload, p) = reason
                 /\ reason = "PAYMENT_INTENT_TERMINAL" =>
                      /\ intents[p].status \in {"CONFIRMED", "FAILED", "EXPIRED"}
                      /\ ~Pays(payload, p)
                 /\ reason = "CONFIRMED_TX_HASH_CONFLICT" =>
                      HoldersIn(intents, normalizeTxHash(payload.txHash)) \ {p} # {}
    BY Zenon DEF RejectInv, RejectionStaysTrue
  <2>1. PayloadFailure(payload) \in {"UNSUPPORTED_EVENT_TYPE", "MISSING_TX_HASH", "null"}
    BY DEF PayloadFailure
  <2>2. validatePayloadMatchesPaymentIntent(payload, payload.paymentIntentId)
          \in {"AMOUNT_MISMATCH", "ASSET_MISMATCH", "null"}
    BY DEF validatePayloadMatchesPaymentIntent
  <2> QED
    BY <2>1, <2>2 DEF Grounds
<1> QED
  BY <1>1, <1>2, <1>3, Invariance, DecisionInvariance, PTL DEF Spec

-----------------------------------------------------------------------------
(* The refinement of PaymentLedger *)

\* The ledger applies the rules of the processor.
LEMMA SameRules ==
  /\ \A payload : Ledger!PayloadFailure(payload) = PayloadFailure(payload)
  /\ \A payload, p, row : Ledger!IntentVerdict(payload, p, row) = IntentVerdict(payload, p, row)
  /\ \A table, h : Ledger!HoldersIn(table, h) = HoldersIn(table, h)
  /\ \A h : Ledger!normalizeTxHash(h) = normalizeTxHash(h)
  /\ \A reason : Ledger!Failed(reason) = Failed(reason)
  /\ Ledger!Processed = Processed /\ Ledger!Undecided = Undecided
  /\ \A row : Ledger!Open(row) <=> Open(row)
  /\ Ledger!InitialEvents = InitialEvents
  /\ \A table : Ledger!MigratedHashes(table) <=> MigratedHashes(table)
<1>1. \A payload : Ledger!PayloadFailure(payload) = PayloadFailure(payload)
  BY Zenon DEF Ledger!PayloadFailure, PayloadFailure
<1>2. \A h : Ledger!normalizeTxHash(h) = normalizeTxHash(h)
  BY Zenon DEF Ledger!normalizeTxHash, normalizeTxHash
<1>3. /\ \A reason : Ledger!Failed(reason) = Failed(reason)
      /\ Ledger!Processed = Processed /\ Ledger!Undecided = Undecided
  BY Zenon DEF Ledger!Failed, Failed, Ledger!Processed, Processed, Ledger!Undecided, Undecided
<1>4. \A payload, p : Ledger!validatePayloadMatchesPaymentIntent(payload, p)
                        = validatePayloadMatchesPaymentIntent(payload, p)
  BY Zenon DEF Ledger!validatePayloadMatchesPaymentIntent, Ledger!normalizeAmount,
     validatePayloadMatchesPaymentIntent, normalizeAmount
<1>5. \A payload, p, row : Ledger!IntentVerdict(payload, p, row) = IntentVerdict(payload, p, row)
  BY <1>2, <1>3, <1>4, Zenon DEF Ledger!IntentVerdict, IntentVerdict
<1>6. \A table, h : Ledger!HoldersIn(table, h) = HoldersIn(table, h)
  BY Zenon DEF Ledger!HoldersIn, HoldersIn
<1>7. \A row : Ledger!Open(row) <=> Open(row)
  BY Zenon DEF Ledger!Open, Open
<1>8. Ledger!InitialEvents = InitialEvents
  BY Zenon DEF Ledger!InitialEvents, InitialEvents
<1>9. \A table : Ledger!MigratedHashes(table) <=> MigratedHashes(table)
  BY <1>2, Zenon DEF Ledger!MigratedHashes, MigratedHashes, Ledger!TxHash, TxHash
<1> QED
  BY <1>1, <1>2, <1>3, <1>5, <1>6, <1>7, <1>8, <1>9, Zenon

\* The initial tables are those of the ledger, and nothing is looked up yet.
LEMMA LedgerInit == Init => Ledger!Init
<1> SUFFICES ASSUME Init PROVE Ledger!Init
  OBVIOUS
<1>1. LookedUpMissing = {}
  BY DEF Init, LookedUpMissing, HoldsEvent, NoTx
<1>2. \A t \in [Intents -> InitialIntents] : Ledger!MigratedHashes(t) <=> MigratedHashes(t)
  BY SameRules, Zenon
<1>3. {t \in [Intents -> InitialIntents] : Ledger!MigratedHashes(t)}
        = {t \in [Intents -> InitialIntents] : MigratedHashes(t)}
  BY <1>2, Zenon
<1> QED
  BY <1>1, <1>3, SameRules, Zenon DEF Init, Ledger!Init

\* Worker w has looked for the intent of event f in vain.
Misses(w, f) == HoldsEvent(w, f) /\ tx[w].row = Failed("UNKNOWN_PAYMENT_INTENT")

\* Only a transaction about to commit misses an intent, and it has one event.
LEMMA MissesFacts ==
  ASSUME DecisionInv, NEW w \in Workers, NEW f, Misses(w, f)
  PROVE  tx[w].pc = "finish" /\ tx[w].event = f
<1>1. Failed("UNKNOWN_PAYMENT_INTENT") # Undecided
  BY DEF Failed, Undecided
<1> QED
  BY <1>1, Zenon DEF DecisionInv, Decided, Misses, HoldsEvent

\* Some other worker than w has.
OthersMiss(w, f) == \E v \in Workers \ {w} : Misses(v, f)

\* The set the ledger calls missing before and after a step of worker w.
LEMMA MissingMembers ==
  ASSUME NEW w \in Workers, \A v \in Workers \ {w} : tx'[v] = tx[v]
  PROVE  /\ \A f : f \in LookedUpMissing <=>
              /\ f \in Events /\ Open(events[f])
              /\ Misses(w, f) \/ OthersMiss(w, f)
         /\ \A f : f \in LookedUpMissing' <=>
              /\ f \in Events /\ Open(events'[f])
              /\ Misses(w, f)' \/ OthersMiss(w, f)
<1>1. \A v \in Workers \ {w} : \A f : Misses(v, f)' <=> Misses(v, f)
  BY Zenon DEF Misses, HoldsEvent
<1>2. \A f : (\E v \in Workers : Misses(v, f)) <=> Misses(w, f) \/ OthersMiss(w, f)
  BY Zenon DEF OthersMiss
<1>3. \A f : (\E v \in Workers : Misses(v, f)') <=> Misses(w, f)' \/ OthersMiss(w, f)
  BY <1>1 DEF OthersMiss
<1>4. \A f : f \in LookedUpMissing <=>
        f \in Events /\ Open(events[f]) /\ \E v \in Workers : Misses(v, f)
  BY Zenon DEF LookedUpMissing, Misses
<1>5. \A f : f \in LookedUpMissing' <=>
        f \in Events /\ Open(events'[f]) /\ \E v \in Workers : Misses(v, f)'
  BY Zenon DEF LookedUpMissing, Misses, Open
<1> QED
  BY <1>2, <1>3, <1>4, <1>5, Zenon

\* The steps of a transaction that decide nothing, or what no event waits for,
\* are not seen by the ledger.
LEMMA LedgerStutter ==
  ASSUME IInv, DecisionInv, [Next]_vars, NEW w \in Workers,
         UNCHANGED <<events, intents>>,
         \A v \in Workers \ {w} : tx'[v] = tx[v],
         tx[w].pc = "finish" => \/ tx[w].row # Failed("UNKNOWN_PAYMENT_INTENT")
                                \/ ~Open(events[tx[w].event]),
         tx'[w].pc = "finish" => \/ tx'[w].row # Failed("UNKNOWN_PAYMENT_INTENT")
                                 \/ ~Open(events[tx'[w].event])
  PROVE  UNCHANGED Ledger!vars
<1>1. DecisionInv'
  BY DecisionNext
<1>2. \A f : Misses(w, f) => ~Open(events[f])
  BY MissesFacts, Zenon DEF Misses
<1>3. \A f : Misses(w, f)' => tx'[w].pc = "finish" /\ tx'[w].event = f
  <2> SUFFICES ASSUME NEW f, Misses(w, f)' PROVE tx'[w].pc = "finish" /\ tx'[w].event = f
    BY Zenon
  <2>1. Failed("UNKNOWN_PAYMENT_INTENT") # Undecided
    BY DEF Failed, Undecided
  <2> QED
    BY <1>1, <2>1, Zenon DEF DecisionInv, Decided, Misses, HoldsEvent
<1>4. \A f : Misses(w, f)' => ~Open(events[f])
  BY <1>3, Zenon DEF Misses
<1>5. \A f : events'[f] = events[f]
  OBVIOUS
<1>6. \A f : f \in LookedUpMissing' <=> f \in LookedUpMissing
  BY <1>2, <1>4, <1>5, MissingMembers, Zenon
<1>7. LookedUpMissing' = LookedUpMissing
  <2>1. LookedUpMissing \subseteq LookedUpMissing' /\ LookedUpMissing' \subseteq LookedUpMissing
    BY <1>6, Zenon
  <2> QED
    BY <2>1, Zenon
<1> QED
  BY <1>7, PayloadsKept, Zenon DEF Ledger!vars

\* Only one worker holds an event.
LEMMA OneHolderOfEvent ==
  ASSUME IInv, NEW w \in Workers, NEW v \in Workers, w # v,
         NEW e \in Events, HoldsEvent(w, e)
  PROVE  ~HoldsEvent(v, e)
BY DEF IInv, LockInv

\* A lookup in vain is a step of the ledger.
LEMMA LedgerLookUp ==
  ASSUME IInv, DecisionInv, [Next]_vars, NEW w \in Workers, UnknownPaymentIntent(w)
  PROVE  \E e \in Events : Ledger!LookUpMissing(e)
<1> DEFINE e == tx[w].event
<1>1. /\ tx[w].pc = "rules" /\ PayloadFailure(PayloadOf(w)) = "null"
      /\ PayloadOf(w).paymentIntentId \in Intents =>
           intents[PayloadOf(w).paymentIntentId].status = "ABSENT"
      /\ Finish(w, Failed("UNKNOWN_PAYMENT_INTENT"), {}, NoTxHash)
      /\ UNCHANGED <<events, intents>>
  BY Zenon DEF UnknownPaymentIntent
<1>2. e \in Events /\ Open(events[e])
  <2>1. e \in Events
    BY <1>1 DEF IInv, TypeOK
  <2>2. Open(events[e])
    BY <1>1, Zenon DEF IInv, TxInv, TxOK
  <2> QED
    BY <2>1, <2>2
<1>3. /\ tx'[w].pc = "finish" /\ tx'[w].event = e
      /\ tx'[w].row = Failed("UNKNOWN_PAYMENT_INTENT")
      /\ \A v \in Workers \ {w} : tx'[v] = tx[v]
  BY <1>1, FinishFields, Zenon
<1>4. \A f : Misses(w, f)' <=> f = e
  BY <1>3, Zenon DEF Misses, HoldsEvent
<1>5. \A f : ~Misses(w, f)
  BY <1>1, MissesFacts, ZenonT(30)
<1>6. events' = events
  BY <1>1
<1> HIDE DEF e
<1>7. LookedUpMissing' = LookedUpMissing \cup {e}
  <2>1. \A f : f \in LookedUpMissing' <=> f \in LookedUpMissing \/ f = e
    BY <1>2, <1>3, <1>4, <1>5, <1>6, MissingMembers, Zenon
  <2>2. \A f : f \in LookedUpMissing' <=> f \in LookedUpMissing \cup {e}
    BY <2>1
  <2> QED
    BY <2>2, Zenon
<1>8. ~Ledger!Applicable(e)
  BY <1>1, Zenon DEF Ledger!Applicable, Ledger!IntentOf, PayloadOf, e
<1>9. Ledger!LookUpMissing(e)
  BY <1>1, <1>2, <1>7, <1>8, SameRules, PayloadsKept, Zenon DEF Ledger!LookUpMissing, PayloadOf, e
<1> QED
  BY <1>2, <1>9

\* A transaction that rolls back forgets what it has looked up.
LEMMA LedgerForget ==
  ASSUME IInv, DecisionInv, [Next]_vars, NEW w \in Workers,
         tx' = [tx EXCEPT ![w] = NoTx], UNCHANGED <<events, intents>>
  PROVE  UNCHANGED Ledger!vars \/ \E e \in Events : Ledger!ForgetMissing(e)
<1> DEFINE e == tx[w].event
<1>1. tx \in [Workers -> Tx]
  BY DEF IInv, TypeOK
<1>2. tx'[w].pc = "idle" /\ \A v \in Workers \ {w} : tx'[v] = tx[v]
  BY <1>1, NoTxFields, Zenon
<1>3. CASE ~(/\ tx[w].pc = "finish" /\ Open(events[e])
             /\ tx[w].row = Failed("UNKNOWN_PAYMENT_INTENT"))
  BY <1>2, <1>3, LedgerStutter
<1>4. CASE /\ tx[w].pc = "finish" /\ Open(events[e])
           /\ tx[w].row = Failed("UNKNOWN_PAYMENT_INTENT")
  <2>1. e \in Events
    BY <1>4, Zenon DEF IInv, TypeOK
  <2>2. HoldsEvent(w, e) /\ Misses(w, e) /\ \A f : Misses(w, f) => f = e
    BY <1>4 DEF HoldsEvent, Misses
  <2>3. \A f : ~Misses(w, f)'
    BY <1>2 DEF Misses, HoldsEvent
  <2>4. ~OthersMiss(w, e)
    BY <2>1, <2>2, OneHolderOfEvent DEF OthersMiss, Misses
  <2> HIDE DEF e
  <2>5. e \in LookedUpMissing
    BY <1>2, <1>4, <2>1, <2>2, MissingMembers, Zenon DEF e
  <2>6. \A f : f \in LookedUpMissing' <=> f \in LookedUpMissing /\ f # e
    BY <1>2, <2>2, <2>3, <2>4, MissingMembers, Zenon
  <2>7. LookedUpMissing' = LookedUpMissing \ {e}
    <3>1. \A f : f \in LookedUpMissing' <=> f \in LookedUpMissing \ {e}
      BY <2>6
    <3> QED
      BY <3>1, Zenon
  <2>8. Ledger!ForgetMissing(e)
    BY <2>5, <2>7, PayloadsKept, Zenon DEF Ledger!ForgetMissing
  <2> QED
    BY <2>1, <2>8
<1> QED
  BY <1>3, <1>4

\* A commit is the one step in which the ledger decides the event, by the same
\* rule and with the same effect; a job for a decided event changes nothing.
LEMMA LedgerCommit ==
  ASSUME IInv, DecisionInv, [Next]_vars, NEW w \in Workers, Commit(w)
  PROVE  UNCHANGED Ledger!vars \/ Ledger!Next
<1> DEFINE e == tx[w].event
           row == tx[w].row
           payload == PayloadOf(w)
           p == payload.paymentIntentId
<1>1. /\ tx \in [Workers -> Tx] /\ events \in [Events -> EventRow]
      /\ tx[w].pc = "finish" /\ e \in Events /\ TxOK(w) /\ HashInv
      /\ tx' = [tx EXCEPT ![w] = NoTx] /\ events' = [events EXCEPT ![e] = row]
  BY Zenon DEF IInv, TypeOK, TxInv, Commit
<1>2. tx'[w].pc = "idle" /\ \A v \in Workers \ {w} : tx'[v] = tx[v]
  BY <1>1, NoTxFields, Zenon
<1>3. payloads' = payloads /\ payload = payloads[e]
  BY PayloadsKept, Zenon DEF PayloadOf
<1>4. CASE ~Open(events[e])
  <2>1. row = events[e] /\ tx[w].confirms = NoTxHash
    BY <1>1, <1>4, ZenonT(30) DEF TxOK
  <2>2. intents' = intents
    BY <2>1 DEF Commit
  <2>3. events' = events
    BY <1>1, <2>1
  <2> QED
    BY <1>2, <1>4, <2>2, <2>3, LedgerStutter
<1>5. CASE Open(events[e])
  <2>1. Justified(w)
    BY <1>1, <1>5, Zenon DEF DecisionInv, Decided
  <2>2. ~Open(row) /\ row = events'[e] /\ \A f \in Events \ {e} : events'[f] = events[f]
    BY <1>1, Zenon DEF TxOK, Final, Open
  <2>3. /\ \A f : Misses(w, f) => f = e
        /\ \A f : ~Misses(w, f)'
    BY <1>2, Zenon DEF Misses, HoldsEvent
  <2>4. ~OthersMiss(w, e)
    BY <1>1, OneHolderOfEvent DEF OthersMiss, Misses, HoldsEvent
  <2>5. LookedUpMissing' = LookedUpMissing \ {e}
    <3> HIDE DEF e, row
    <3>1. \A f : f \in LookedUpMissing' <=> f \in LookedUpMissing /\ f # e
      <4> SUFFICES ASSUME NEW f PROVE f \in LookedUpMissing' <=> f \in LookedUpMissing /\ f # e
        OBVIOUS
      <4>1. CASE f = e
        BY <1>2, <2>2, <4>1, MissingMembers, Zenon
      <4>2. CASE f # e
        <5>1. f \in Events => events'[f] = events[f]
          BY <2>2, <4>2
        <5> QED
          BY <1>2, <2>3, <4>2, <5>1, MissingMembers, Zenon
      <4> QED
        BY <4>1, <4>2
    <3>2. \A f : f \in LookedUpMissing' <=> f \in LookedUpMissing \ {e}
      BY <3>1
    <3> QED
      BY <3>2, Zenon
  <2>6. Ledger!Decide(e, row)
    BY <1>1, <1>3, <1>5, <2>5, SameRules, Zenon DEF Ledger!Decide
  <2>7. tx[w].confirms = NoTxHash => intents' = intents
    BY DEF Commit
  <2>8. Ledger!IntentOf(e) = p /\ Ledger!HashOf(e) = HashOf(w)
    BY <1>3, SameRules, Zenon DEF Ledger!IntentOf, Ledger!HashOf, HashOf
  <2>9. Ledger!PayloadFailure(payloads[e]) = PayloadFailure(payload)
    BY <1>3, SameRules, Zenon
  <2>10. Ledger!Verdict(e) = IntentVerdict(payload, p, intents[p])
    BY <1>3, <2>8, SameRules, Zenon DEF Ledger!Verdict
  <2>11. Ledger!OtherHolders(e) = HoldersIn(intents, HashOf(w)) \ {p}
    BY <2>8, SameRules, Zenon DEF Ledger!OtherHolders
  <2>12. ASSUME Named(w) \/ MayConfirm(w) PROVE Ledger!Applicable(e)
    BY <2>8, <2>9, <2>12, Zenon DEF Ledger!Applicable, Named, MayConfirm
  <2>13. CASE tx[w].confirms # NoTxHash
    <3>1. MayConfirm(w) /\ row = Processed /\ tx[w].confirms = HashOf(w)
      BY <1>1, <2>13, Zenon DEF TxOK
    <3>2. HoldersIn(intents, HashOf(w)) \ {p} = {}
      BY <1>1, <2>13, <3>1, Zenon DEF HashInv
    <3>3. IntentVerdict(payload, p, intents[p]) = Undecided
      BY <3>1, Zenon DEF MayConfirm
    <3>4. intents' = [intents EXCEPT ![p] = [status |-> "CONFIRMED",
                                             confirmedTxHash |-> HashOf(w)]]
      BY <2>13, <3>1, Zenon DEF Commit
    <3>5. Ledger!Confirm(e)
      BY <2>6, <2>8, <2>10, <2>11, <2>12, <3>1, <3>2, <3>3, <3>4, SameRules, Zenon
         DEF Ledger!Confirm
    <3> QED
      BY <1>1, <3>5, Zenon DEF Ledger!Next
  <2>14. CASE /\ tx[w].confirms = NoTxHash
              /\ PayloadFailure(payload) # "null" /\ row = Failed(PayloadFailure(payload))
    <3>1. Ledger!RejectPayload(e)
      BY <2>6, <2>7, <2>9, <2>14, SameRules, Zenon DEF Ledger!RejectPayload
    <3> QED
      BY <1>1, <3>1, Zenon DEF Ledger!Next
  <2>15. CASE tx[w].confirms = NoTxHash /\ row = Failed("UNKNOWN_PAYMENT_INTENT")
    <3>1. Misses(w, e)
      BY <1>1, <2>15 DEF Misses, HoldsEvent
    <3>2. e \in LookedUpMissing
      BY <1>1, <1>2, <1>5, <3>1, MissingMembers, Zenon
    <3>3. Ledger!RejectUnknown(e)
      BY <2>6, <2>7, <2>15, <3>2, SameRules, Zenon DEF Ledger!RejectUnknown
    <3> QED
      BY <1>1, <3>3, Zenon DEF Ledger!Next
  <2>16. CASE /\ tx[w].confirms = NoTxHash /\ Named(w)
              /\ IntentVerdict(payload, p, intents[p]) # Undecided
              /\ row = IntentVerdict(payload, p, intents[p])
    <3>1. Ledger!Settle(e)
      BY <2>6, <2>7, <2>10, <2>12, <2>16, SameRules, Zenon DEF Ledger!Settle
    <3> QED
      BY <1>1, <3>1, Zenon DEF Ledger!Next
  <2>17. CASE /\ tx[w].confirms = NoTxHash /\ Named(w)
              /\ IntentVerdict(payload, p, intents[p]) = Undecided
              /\ HoldersIn(intents, HashOf(w)) \ {p} # {}
              /\ row = Failed("CONFIRMED_TX_HASH_CONFLICT")
    <3>1. Ledger!RejectReusedHash(e)
      BY <2>6, <2>7, <2>10, <2>11, <2>12, <2>17, SameRules, Zenon DEF Ledger!RejectReusedHash
    <3> QED
      BY <1>1, <3>1, Zenon DEF Ledger!Next
  <2> QED
    BY <2>1, <2>13, <2>14, <2>15, <2>16, <2>17, Zenon DEF Justified
<1> QED
  BY <1>4, <1>5, Zenon

\* No other step of a transaction is seen by the ledger.
LEMMA LedgerSilent ==
  ASSUME IInv, DecisionInv, [Next]_vars, NEW w \in Workers,
         TxStep(w), ~Commit(w), ~UnknownPaymentIntent(w)
  PROVE  UNCHANGED Ledger!vars
<1> DEFINE p == PayloadOf(w).paymentIntentId
           verdict == IntentVerdict(PayloadOf(w), p, intents[p])
<1>1. tx \in [Workers -> Tx] /\ tx[w] \in Tx
  BY DEF IInv, TypeOK
<1>2. ASSUME NEW reason, reason # "UNKNOWN_PAYMENT_INTENT"
      PROVE  Failed(reason) # Failed("UNKNOWN_PAYMENT_INTENT")
  BY <1>2 DEF Failed
<1>3. /\ Processed # Failed("UNKNOWN_PAYMENT_INTENT")
      /\ Undecided # Failed("UNKNOWN_PAYMENT_INTENT")
  BY DEF Processed, Undecided, Failed
<1>4. ASSUME NEW row, NEW locks, NEW hash, Finish(w, row, locks, hash),
             tx[w].pc # "finish", UNCHANGED <<events, intents>>,
             row # Failed("UNKNOWN_PAYMENT_INTENT") \/ ~Open(events[tx[w].event])
      PROVE  UNCHANGED Ledger!vars
  <2>1. /\ tx'[w].event = tx[w].event /\ tx'[w].row = row
        /\ \A v \in Workers \ {w} : tx'[v] = tx[v]
    BY <1>4, FinishFields, Zenon
  <2> QED
    BY <1>4, <2>1, LedgerStutter, Zenon
<1>5. ASSUME NEW t, tx' = [tx EXCEPT ![w] = t], t.pc # "finish",
             tx[w].pc # "finish", UNCHANGED <<events, intents>>
      PROVE  UNCHANGED Ledger!vars
  <2>1. tx'[w] = t /\ \A v \in Workers \ {w} : tx'[v] = tx[v]
    BY <1>1, <1>5, Zenon
  <2> QED
    BY <1>5, <2>1, LedgerStutter, Zenon
<1>6. CASE LockWebhookEvent(w)
  <2>1. UNCHANGED <<events, intents>> /\ tx[w].pc # "finish"
    BY <1>6 DEF LockWebhookEvent
  <2>2. CASE Final(events[tx[w].event])
    <3>1. Finish(w, events[tx[w].event], {}, NoTxHash)
      BY <1>6, <2>2 DEF LockWebhookEvent
    <3>2. ~Open(events[tx[w].event])
      BY <2>2 DEF Final, Open
    <3> QED
      BY <1>4, <2>1, <3>1, <3>2, Zenon
  <2>3. CASE ~Final(events[tx[w].event])
    <3> DEFINE t == [tx[w] EXCEPT !.pc = "rules", !.row = Undecided]
    <3>1. tx' = [tx EXCEPT ![w] = t]
      BY <1>6, <2>3, Zenon DEF LockWebhookEvent
    <3>2. t.pc # "finish"
      BY <1>1 DEF Tx
    <3> HIDE DEF t
    <3> QED
      BY <1>5, <2>1, <3>1, <3>2, Zenon
  <2> QED
    BY <2>2, <2>3
<1>7. CASE RejectPayload(w)
  <2>1. /\ Finish(w, Failed(PayloadFailure(PayloadOf(w))), {}, NoTxHash)
        /\ UNCHANGED <<events, intents>> /\ tx[w].pc # "finish"
    BY <1>7, Zenon DEF RejectPayload
  <2>2. PayloadFailure(PayloadOf(w)) # "UNKNOWN_PAYMENT_INTENT"
    BY Zenon DEF PayloadFailure
  <2> QED
    BY <1>2, <1>4, <2>1, <2>2, Zenon
<1>8. CASE LockPaymentIntent(w)
  <2>1. /\ UNCHANGED <<events, intents>> /\ tx[w].pc = "rules"
        /\ verdict # Undecided => Finish(w, verdict, {p}, NoTxHash)
        /\ verdict = Undecided =>
             tx' = [tx EXCEPT ![w].pc = "findHolder", ![w].locked = {p}]
    BY <1>8, Zenon DEF LockPaymentIntent
  <2>2. CASE verdict # Undecided
    <3> DEFINE mismatch == validatePayloadMatchesPaymentIntent(PayloadOf(w), p)
    <3>1. mismatch # "UNKNOWN_PAYMENT_INTENT"
      BY SMTT(20) DEF validatePayloadMatchesPaymentIntent
    <3>2. verdict \in {Failed(mismatch), Failed("PAYMENT_INTENT_TERMINAL"), Processed, Undecided}
      <4> HIDE DEF p, mismatch
      <4> QED  BY Zenon DEF IntentVerdict, mismatch
    <3> HIDE DEF mismatch, verdict
    <3>3. verdict # Failed("UNKNOWN_PAYMENT_INTENT")
      BY <1>2, <1>3, <3>1, <3>2
    <3> QED
      BY <1>4, <2>1, <2>2, <3>3
  <2>3. CASE verdict = Undecided
    <3> DEFINE t == [tx[w] EXCEPT !.pc = "findHolder", !.locked = {p}]
    <3>1. tx' = [tx EXCEPT ![w] = t]
      BY <2>1, <2>3, Zenon
    <3>2. t.pc # "finish"
      BY <1>1 DEF Tx
    <3> HIDE DEF t
    <3> QED
      BY <1>5, <2>1, <3>1, <3>2, Zenon
  <2> QED
    BY <2>2, <2>3
<1>9. CASE FindHolder(w)
  <2>1. /\ UNCHANGED <<events, intents>> /\ tx[w].pc = "findHolder"
        /\ \/ tx' = [tx EXCEPT ![w].pc = "saveIntent"]
           \/ \E locks : Finish(w, Failed("CONFIRMED_TX_HASH_CONFLICT"), locks, NoTxHash)
    BY <1>9, Zenon DEF FindHolder
  <2>2. ASSUME NEW locks, Finish(w, Failed("CONFIRMED_TX_HASH_CONFLICT"), locks, NoTxHash)
        PROVE  UNCHANGED Ledger!vars
    BY <1>2, <1>4, <2>1, <2>2
  <2>3. CASE tx' = [tx EXCEPT ![w].pc = "saveIntent"]
    <3> DEFINE t == [tx[w] EXCEPT !.pc = "saveIntent"]
    <3>1. tx' = [tx EXCEPT ![w] = t]
      BY <2>3
    <3>2. t.pc # "finish"
      BY <1>1, ZenonT(30) DEF Tx
    <3> HIDE DEF t
    <3> QED
      BY <1>5, <2>1, <3>1, <3>2, Zenon
  <2> QED
    BY <2>1, <2>2, <2>3, Zenon
<1>10. CASE SaveIntent(w)
  <2>1. /\ UNCHANGED <<events, intents>> /\ tx[w].pc = "saveIntent"
        /\ \/ tx' = [tx EXCEPT ![w] = NoTx]
           \/ Finish(w, Processed, tx[w].locked, HashOf(w))
    BY <1>10, Zenon DEF SaveIntent
  <2>2. NoTx.pc # "finish"
    BY NoTxFields
  <2> QED
    BY <1>3, <1>4, <1>5, <2>1, <2>2
<1> QED
  BY <1>6, <1>7, <1>8, <1>9, <1>10, Zenon DEF TxStep

\* Marking an event QUEUED: nobody is about to decide it.
LEMMA LedgerQueue ==
  ASSUME IInv, DecisionInv, [Next]_vars, NEW e \in Events, MarkWebhookQueued(e)
  PROVE  Ledger!Queue(e)
<1>1. /\ events \in [Events -> EventRow] /\ UNCHANGED <<payloads, intents, tx>>
      /\ events[e].status = "RECEIVED"
      /\ events' = [events EXCEPT ![e].status = "QUEUED"]
  BY DEF IInv, TypeOK, MarkWebhookQueued
<1>2. \A f \in Events : Open(events'[f]) <=> Open(events[f])
  BY <1>1 DEF Open, EventRow
<1>3. LookedUpMissing' = LookedUpMissing
  BY <1>1, <1>2 DEF LookedUpMissing, HoldsEvent, Open
<1> QED
  BY <1>1, <1>3, Zenon DEF Ledger!Queue

\* Every step is a step of the ledger or leaves it alone.
LEMMA LedgerNext ==
  ASSUME IInv, DecisionInv, [Next]_vars
  PROVE  [Ledger!Next]_(Ledger!vars)
<1>1. ASSUME NEW w \in Workers, NEW e \in Events, Deliver(w, e)
      PROVE  UNCHANGED Ledger!vars
  <2> DEFINE t == [tx[w] EXCEPT !.pc = "lockEvent", !.event = e]
  <2>1. /\ tx \in [Workers -> Tx] /\ tx[w].pc = "idle" /\ UNCHANGED <<events, intents>>
        /\ tx' = [tx EXCEPT ![w] = t]
    BY <1>1, Zenon DEF Deliver, IInv, TypeOK
  <2>2. t.pc = "lockEvent"
    BY <2>1 DEF Tx
  <2> HIDE DEF t
  <2>3. tx'[w].pc = "lockEvent" /\ \A v \in Workers \ {w} : tx'[v] = tx[v]
    BY <2>1, <2>2
  <2> QED
    BY <2>1, <2>3, LedgerStutter
<1>2. ASSUME NEW w \in Workers, Fail(w)
      PROVE  UNCHANGED Ledger!vars \/ \E e \in Events : Ledger!ForgetMissing(e)
  BY <1>2, LedgerForget, Zenon DEF Fail
<1>3. ASSUME NEW w \in Workers, TxStep(w)
      PROVE  UNCHANGED Ledger!vars \/ Ledger!Next
  <2>1. CASE Commit(w)
    BY <2>1, LedgerCommit
  <2>2. CASE UnknownPaymentIntent(w)
    <3>1. \E e \in Events : Ledger!LookUpMissing(e)
      BY <2>2, LedgerLookUp
    <3> QED
      BY <3>1, Zenon DEF Ledger!Next
  <2>3. CASE ~Commit(w) /\ ~UnknownPaymentIntent(w)
    BY <1>3, <2>3, LedgerSilent
  <2> QED
    BY <2>1, <2>2, <2>3
<1>4. ASSUME NEW p \in Intents, CreatePaymentIntent(p) PROVE Ledger!Create(p)
  <2>1. UNCHANGED <<events, tx, payloads>>
    BY <1>4 DEF CreatePaymentIntent
  <2>2. LookedUpMissing' = LookedUpMissing
    BY <2>1 DEF LookedUpMissing, HoldsEvent, Open
  <2> QED
    BY <1>4, <2>2, Zenon DEF CreatePaymentIntent, Ledger!Create
<1>5. ASSUME UNCHANGED vars PROVE UNCHANGED Ledger!vars
  <2>1. LookedUpMissing' = LookedUpMissing
    BY <1>5 DEF vars, LookedUpMissing, HoldsEvent, Open
  <2> QED
    BY <1>5, <2>1 DEF vars, Ledger!vars
<1>6. ASSUME NEW e \in Events, MarkWebhookQueued(e) PROVE Ledger!Next
  BY <1>6, LedgerQueue, Zenon DEF Ledger!Next
<1>7. ASSUME NEW p \in Intents, CreatePaymentIntent(p) PROVE Ledger!Next
  BY <1>4, <1>7, Zenon DEF Ledger!Next
<1>8. ASSUME NEW e \in Events, Ledger!ForgetMissing(e) PROVE Ledger!Next
  BY <1>8, Zenon DEF Ledger!Next
<1>9. CASE Next
  BY <1>1, <1>2, <1>3, <1>6, <1>7, <1>8, <1>9, Zenon DEF Next
<1> QED
  BY <1>5, <1>9, ZenonT(30)

\* Concurrent worker transactions are serializable: whatever the interleaving,
\* each commit is one decision of the PaymentLedger on the committed tables of
\* that moment, and no other step is visible.
THEOREM WorkersImplementLedger == Spec => ImplementsLedger
<1>1. Init => Ledger!Init
  BY LedgerInit
<1>2. IInv /\ DecisionInv /\ [Next]_vars => [Ledger!Next]_(Ledger!vars)
  BY LedgerNext
<1> QED
  BY <1>1, <1>2, Invariance, DecisionInvariance, PTL DEF Spec, ImplementsLedger, Ledger!Spec
=============================================================================
