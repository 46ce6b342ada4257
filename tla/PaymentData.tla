----------------------------- MODULE PaymentData -----------------------------
(***************************************************************************)
(* The rows of webhook_events and payment_intents, and the processing      *)
(* rules of WebhookEventProcessorService as functions of those rows.       *)
(***************************************************************************)
EXTENDS Naturals

CONSTANTS
  Events,          \* webhook_events rows
  Intents,         \* payment intent ids, created or not
  HashIds,         \* transaction hashes, up to spelling
  Amounts, Assets, \* values of the amount and asset fields
  Payloads,        \* payloads the events of an instance may carry
  InitialIntents,  \* rows the payment_intents of an instance may start with
  Terms,           \* amount and asset of every payment intent
  NoIntent, NoTxHash

-----------------------------------------------------------------------------
(* Data *)

\* A legacy spelling is one stored before hashes were normalized: surrounding
\* whitespace, or upper case hexadecimal digits.
TxHash == [id : HashIds, spelling : {"canonical", "legacy"}]

\* Mutant of normalizeTxHash: the spelling is kept.
normalizeTxHashKeepsSpelling(h) == h

\* normalizeTxHash trims and lower-cases: it changes the spelling, not the hash.
normalizeTxHash(h) == [h EXCEPT !.spelling = "canonical"]

\* A decimal amount and the number of fraction digits it is written with.
Amount == [value : Amounts, scale : 0..18]

\* normalizeAmount rewrites an amount with exactly 18 fraction digits.
normalizeAmount(a) == [a EXCEPT !.scale = 18]

Payload ==
  [type : {"transaction.confirmed", "other"},
   paymentIntentId : Intents \cup {NoIntent},
   txHash : TxHash \cup {NoTxHash},
   amount : Amount,
   asset : Assets]

FailureReasons ==
  {"UNKNOWN_PAYMENT_INTENT", "UNSUPPORTED_EVENT_TYPE", "MISSING_TX_HASH",
   "AMOUNT_MISMATCH", "ASSET_MISMATCH", "PAYMENT_INTENT_TERMINAL",
   "CONFIRMED_TX_HASH_CONFLICT"}

EventRow ==
  [status : {"RECEIVED", "QUEUED", "PROCESSING", "PROCESSED", "FAILED"},
   failureReason : FailureReasons \cup {"null"}]

Open(row) == row.status \in {"RECEIVED", "QUEUED"}

\* ABSENT: no row with this id is committed (yet).
IntentRow ==
  [status : {"ABSENT", "CREATED", "PROCESSING", "CONFIRMED", "FAILED", "EXPIRED"},
   confirmedTxHash : TxHash \cup {NoTxHash}]

ASSUME DataAssumption ==
  /\ Payloads \subseteq Payload
  /\ InitialIntents \subseteq IntentRow
  /\ Terms \in [Intents -> [amount : Amount, asset : Assets]]
  /\ NoIntent \notin Intents
  /\ NoTxHash \notin TxHash

\* Only a CONFIRMED row has a hash: the API inserts null and the worker sets
\* status and hash together.
ASSUME InitialIntentsAssumption ==
  \A r \in InitialIntents : r.confirmedTxHash # NoTxHash <=> r.status = "CONFIRMED"

\* What migration NormalizeConfirmedTxHashes leaves behind: no two rows with
\* the same stored hash, and a hash kept in a legacy spelling only where
\* another row already has its canonical one.
MigratedHashes(table) ==
  /\ \A p, q \in Intents :
        /\ p # q
        /\ table[p].confirmedTxHash # NoTxHash
        => table[p].confirmedTxHash # table[q].confirmedTxHash
  /\ \A p \in Intents :
        table[p].confirmedTxHash \in TxHash =>
          \E q \in Intents :
            table[q].confirmedTxHash = normalizeTxHash(table[p].confirmedTxHash)

InitialEvents ==
  {[status |-> s, failureReason |-> "null"] : s \in {"RECEIVED", "QUEUED"}}

-----------------------------------------------------------------------------
(* Processing rules *)

Failed(reason) == [status |-> "FAILED", failureReason |-> reason]

Processed == [status |-> "PROCESSED", failureReason |-> "null"]

\* No rule has decided yet.
Undecided == [status |-> "PROCESSING", failureReason |-> "null"]

\* The rules that read only the payload; "null" when none of them decides.
PayloadFailure(payload) ==
  IF payload.type # "transaction.confirmed" THEN "UNSUPPORTED_EVENT_TYPE"
  ELSE IF payload.txHash = NoTxHash THEN "MISSING_TX_HASH"
  ELSE "null"

validatePayloadMatchesPaymentIntent(payload, p) ==
  IF normalizeAmount(payload.amount) # normalizeAmount(Terms[p].amount)
    THEN "AMOUNT_MISMATCH"
  ELSE IF payload.asset # Terms[p].asset THEN "ASSET_MISMATCH"
  ELSE "null"

\* Mutant of IntentVerdict: any CONFIRMED intent counts as paid by the event.
IntentVerdictAnyHash(payload, p, row) ==
  IF validatePayloadMatchesPaymentIntent(payload, p) # "null"
    THEN Failed(validatePayloadMatchesPaymentIntent(payload, p))
  ELSE IF row.status = "CONFIRMED" THEN Processed
  ELSE IF row.status \in {"FAILED", "EXPIRED"} THEN Failed("PAYMENT_INTENT_TERMINAL")
  ELSE Undecided

\* Mutant of IntentVerdict: hashes are compared as they are spelled.
IntentVerdictRawHash(payload, p, row) ==
  IF validatePayloadMatchesPaymentIntent(payload, p) # "null"
    THEN Failed(validatePayloadMatchesPaymentIntent(payload, p))
  ELSE IF row.status = "CONFIRMED" /\ row.confirmedTxHash = payload.txHash THEN Processed
  ELSE IF row.status \in {"CONFIRMED", "FAILED", "EXPIRED"}
    THEN Failed("PAYMENT_INTENT_TERMINAL")
  ELSE Undecided

\* Mutant of IntentVerdict: a CONFIRMED intent with another hash falls through
\* to the lookup of the hash.
IntentVerdictFallsThrough(payload, p, row) ==
  IF validatePayloadMatchesPaymentIntent(payload, p) # "null"
    THEN Failed(validatePayloadMatchesPaymentIntent(payload, p))
  ELSE IF /\ row.status = "CONFIRMED"
          /\ normalizeTxHash(row.confirmedTxHash) = normalizeTxHash(payload.txHash)
    THEN Processed
  ELSE IF row.status \in {"FAILED", "EXPIRED"} THEN Failed("PAYMENT_INTENT_TERMINAL")
  ELSE Undecided

\* The version of the event row the rules on the locked intent lead to, or
\* Undecided when the intent may still be confirmed.
IntentVerdict(payload, p, row) ==
  LET mismatch == validatePayloadMatchesPaymentIntent(payload, p)
  IN IF mismatch # "null" THEN Failed(mismatch)
     ELSE IF row.status = "CONFIRMED"
       THEN IF /\ row.confirmedTxHash # NoTxHash
               /\ normalizeTxHash(row.confirmedTxHash) = normalizeTxHash(payload.txHash)
            THEN Processed
            ELSE Failed("PAYMENT_INTENT_TERMINAL")
     ELSE IF row.status \in {"FAILED", "EXPIRED"}
       THEN Failed("PAYMENT_INTENT_TERMINAL")
     ELSE Undecided

\* The rows of the table that store this hash.
HoldersIn(table, hash) == {p \in Intents : table[p].confirmedTxHash = hash}
=============================================================================
