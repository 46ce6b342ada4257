----------------------------- MODULE WebhookInbox -----------------------------
(***************************************************************************)
(* WebhookEventsService.acceptBlockchainWebhook: signed webhooks arrive    *)
(* concurrently, several of them for one provider event or with one nonce, *)
(* and each runs the acceptance transaction at READ COMMITTED.             *)
(*                                                                         *)
(* INSERT ... ON CONFLICT DO NOTHING waits while another transaction has   *)
(* an uncommitted row with the same event id or nonce; when that one ends, *)
(* the insert goes through or returns no row.  Each later SELECT sees what *)
(* has committed by then.                                                  *)
(***************************************************************************)
EXTENDS Naturals

CONSTANTS
  Requests,       \* requests in flight
  EventIds, Nonces,
  Bodies,         \* type, intent, amount and asset of a payload
  Incoming,       \* what the requests of an instance may carry
  StoredBefore,   \* tables the inbox of an instance may start with
  MaxFaults       \* bound on failed transactions and lost answers

\* A legacy spelling of a transaction hash is one normalizeTxHash changes.
TxHashes == {"canonical", "legacy", "null"}

Payload == [body : Bodies, txHash : TxHashes]

\* The checks a request fails, in the order the service makes them.
Defects == {"headers", "timestamp", "signatureFormat", "secret", "signature", "dto"}

Request == [eventId : EventIds, nonce : Nonces, payload : Payload,
            defects : SUBSET Defects]

Row == [eventId : EventIds, nonce : Nonces, payload : Payload]

Responses ==
  {"ACCEPTED", "ALREADY_ACCEPTED", "WEBHOOK_EVENT_CONFLICT",
   "WEBHOOK_NONCE_REPLAY", "UNCLASSIFIED", "BAD_REQUEST", "UNCONFIGURED",
   "UNAUTHORIZED", "none"}

\* The unique indexes on the external event id and on the nonce of a provider.
UniqueRows(table) ==
  \A a, b \in table : a.eventId = b.eventId \/ a.nonce = b.nonce => a = b

ASSUME InboxAssumption ==
  /\ Incoming \subseteq Request
  /\ \A table \in StoredBefore : table \subseteq Row /\ UniqueRows(table)
  /\ MaxFaults \in Nat

VARIABLES
  request,   \* what each request carries
  pc,        \* how far its handler has come
  response,  \* its last answer
  inbox,     \* webhook_events, committed
  outbox,    \* event ids with a committed outbox row
  faults

vars == <<request, pc, response, inbox, outbox, faults>>

Init ==
  /\ request \in [Requests -> Incoming]
  /\ pc = [r \in Requests |-> "validate"]
  /\ response = [r \in Requests |-> "none"]
  /\ inbox \in StoredBefore
  /\ outbox = {row.eventId : row \in inbox}
  /\ faults = 0

-----------------------------------------------------------------------------
(* The handler *)

\* normalizeTxHash
normalizeTxHash(h) == IF h = "legacy" THEN "canonical" ELSE h

toPayload(payload) == [payload EXCEPT !.txHash = normalizeTxHash(@)]

RowOf(r) == [eventId |-> request[r].eventId, nonce |-> request[r].nonce,
             payload |-> toPayload(request[r].payload)]

\* validateHeaders, validateTimestamp, verifySignature, validatePayload.
Rejection(defects) ==
  IF defects \cap {"headers", "timestamp", "signatureFormat"} # {} THEN "BAD_REQUEST"
  ELSE IF "secret" \in defects THEN "UNCONFIGURED"
  ELSE IF "signature" \in defects THEN "UNAUTHORIZED"
  ELSE IF "dto" \in defects THEN "BAD_REQUEST"
  ELSE "none"

Answer(r, what) ==
  /\ response' = [response EXCEPT ![r] = what]
  /\ pc' = [pc EXCEPT ![r] = "done"]

GoTo(r, step) == pc' = [pc EXCEPT ![r] = step] /\ UNCHANGED response

Validate(r) ==
  /\ pc[r] = "validate"
  /\ IF Rejection(request[r].defects) = "none"
       THEN GoTo(r, "insert")
       ELSE Answer(r, Rejection(request[r].defects))
  /\ UNCHANGED <<request, inbox, outbox, faults>>

\* Mutant of Blocks: only the index on the nonce is unique.
BlocksOnNonce(q, r) ==
  /\ q # r
  /\ pc[q] \in {"insertOutbox", "commit"}
  /\ request[q].nonce = request[r].nonce

\* The uncommitted insert of q blocks that of r.
Blocks(q, r) ==
  /\ q # r
  /\ pc[q] \in {"insertOutbox", "commit"}
  /\ \/ request[q].eventId = request[r].eventId
     \/ request[q].nonce = request[r].nonce

Conflicts(r) ==
  {row \in inbox : row.eventId = request[r].eventId \/ row.nonce = request[r].nonce}

\* Mutant of TryInsertWebhookEvent: it reports an uncommitted row as a conflict
\* without waiting for it.
TryInsertNoWait(r) ==
  /\ pc[r] = "insert"
  /\ GoTo(r, IF Conflicts(r) = {} /\ \A q \in Requests : ~Blocks(q, r)
             THEN "insertOutbox" ELSE "findEvent")
  /\ UNCHANGED <<request, inbox, outbox, faults>>

TryInsertWebhookEvent(r) ==
  /\ pc[r] = "insert"
  /\ \A q \in Requests : ~Blocks(q, r)
  /\ GoTo(r, IF Conflicts(r) = {} THEN "insertOutbox" ELSE "findEvent")
  /\ UNCHANGED <<request, inbox, outbox, faults>>

InsertOutboxEvent(r) ==
  /\ pc[r] = "insertOutbox"
  /\ GoTo(r, "commit")
  /\ UNCHANGED <<request, inbox, outbox, faults>>

Store(r) ==
  /\ inbox' = inbox \cup {RowOf(r)}
  /\ outbox' = outbox \cup {request[r].eventId}

Commit(r) ==
  /\ pc[r] = "commit"
  /\ Store(r)
  /\ Answer(r, "ACCEPTED")
  /\ UNCHANGED <<request, faults>>

\* Mutant of hasSamePayload: stored payloads are compared as they are.
hasEqualPayload(row, payload) == row.payload = payload

\* A stored payload that was hashed before normalization is compared in its
\* normalized form.
hasSamePayload(row, payload) ==
  \/ row.payload = payload
  \/ row.payload.txHash # "null" /\ toPayload(row.payload) = payload

\* Mutant of FindExistingEvent: an event that is not found is taken for one whose
\* transaction has rolled back, and the insert is tried again.
FindExistingEventRetries(r) ==
  /\ pc[r] = "findEvent"
  /\ LET found == {row \in inbox : row.eventId = request[r].eventId} IN
       IF found = {} THEN GoTo(r, "insert")
       ELSE \E row \in found :
              Answer(r, IF hasSamePayload(row, RowOf(r).payload)
                        THEN "ALREADY_ACCEPTED" ELSE "WEBHOOK_EVENT_CONFLICT")
  /\ UNCHANGED <<request, inbox, outbox, faults>>

\* replayOrRejectConflict, first lookup: by provider event id.
FindExistingEvent(r) ==
  /\ pc[r] = "findEvent"
  /\ LET found == {row \in inbox : row.eventId = request[r].eventId} IN
       IF found = {} THEN GoTo(r, "findNonce")
       ELSE \E row \in found :
              Answer(r, IF hasSamePayload(row, RowOf(r).payload)
                        THEN "ALREADY_ACCEPTED" ELSE "WEBHOOK_EVENT_CONFLICT")
  /\ UNCHANGED <<request, inbox, outbox, faults>>

\* replayOrRejectConflict, second lookup: by nonce.
FindExistingNonce(r) ==
  /\ pc[r] = "findNonce"
  /\ Answer(r, IF \E row \in inbox : row.nonce = request[r].nonce
               THEN "WEBHOOK_NONCE_REPLAY" ELSE "UNCLASSIFIED")
  /\ UNCHANGED <<request, inbox, outbox, faults>>

\* The transaction fails and rolls back; the provider sends the webhook again.
Fail(r) ==
  /\ pc[r] \notin {"validate", "done"}
  /\ faults < MaxFaults
  /\ faults' = faults + 1
  /\ GoTo(r, "validate")
  /\ UNCHANGED <<request, inbox, outbox>>

\* The commit goes through but its answer is lost; the provider sends again.
CommitUnanswered(r) ==
  /\ pc[r] = "commit"
  /\ faults < MaxFaults
  /\ faults' = faults + 1
  /\ Store(r)
  /\ GoTo(r, "validate")
  /\ UNCHANGED request

Step(r) ==
  \/ Validate(r) \/ TryInsertWebhookEvent(r) \/ InsertOutboxEvent(r)
  \/ Commit(r) \/ FindExistingEvent(r) \/ FindExistingNonce(r)

Next == \E r \in Requests : Step(r) \/ Fail(r) \/ CommitUnanswered(r)

Spec == Init /\ [][Next]_vars

-----------------------------------------------------------------------------
(* Properties *)

Pcs == {"validate", "insert", "insertOutbox", "commit", "findEvent", "findNonce", "done"}

\* Requests, tables and answers are well formed, and a handler ends exactly with
\* its answer.
TypeOK ==
  /\ request \in [Requests -> Request]
  /\ pc \in [Requests -> Pcs]
  /\ response \in [Requests -> Responses]
  /\ \A r \in Requests : pc[r] = "done" <=> response[r] # "none"
  /\ inbox \subseteq Row
  /\ outbox \subseteq EventIds
  /\ faults \in 0..MaxFaults

\* Every answer is true of the committed inbox, and remains true: an accepted
\* or already accepted request finds its own payload stored, a conflict finds
\* another payload under its event id, a nonce replay finds its nonce under
\* another event, and a request that failed a check is told so.  The tables it
\* is about are well formed.
AnswersAreTrue ==
  /\ TypeOK
  /\ \A r \in Requests :
       LET mine == {row \in inbox : row.eventId = request[r].eventId}
           same == {row \in mine : toPayload(row.payload) = toPayload(request[r].payload)}
       IN /\ response[r] \in {"ACCEPTED", "ALREADY_ACCEPTED"} => same # {}
          /\ response[r] = "WEBHOOK_EVENT_CONFLICT" => mine # {} /\ same = {}
          /\ response[r] = "WEBHOOK_NONCE_REPLAY" =>
               \E row \in inbox : /\ row.nonce = request[r].nonce
                                  /\ row.eventId # request[r].eventId
          /\ response[r] \in {"BAD_REQUEST", "UNCONFIGURED", "UNAUTHORIZED"} <=>
               pc[r] = "done" /\ request[r].defects # {}

\* ACCEPTED is answered at most once per provider event; every other delivery
\* of it is told ALREADY_ACCEPTED or refused.
AcceptedOnce ==
  \A q, r \in Requests :
    /\ q # r
    /\ response[q] = "ACCEPTED"
    /\ response[r] = "ACCEPTED"
    => request[q].eventId # request[r].eventId

\* "The webhook conflict could not be classified after insert." is never sent:
\* the row that made the insert return nothing is visible to the lookups that
\* follow, and rows are never deleted.
ConflictsAreClassified == \A r \in Requests : response[r] # "UNCLASSIFIED"

\* A handler that has started its steps goes on.
FairSpec == Spec /\ \A r \in Requests : WF_vars(Step(r))

\* Every request is answered: no two acceptance transactions block each other
\* for good on the two unique indexes, and none repeats its statements for ever.
EveryRequestAnswered == \A r \in Requests : <>[](pc[r] = "done")
=============================================================================
