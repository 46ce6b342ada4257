-------------------------- MODULE WebhookInboxProofs --------------------------
(***************************************************************************)
(* What acceptBlockchainWebhook answers is true, ACCEPTED is answered once *)
(* per event and every conflict is classified, for any number of requests, *)
(* events, nonces and payloads, and any number of failures.                *)
(*                                                                         *)
(* The induction rests on the two unique indexes: a transaction that has   *)
(* inserted its row has no rival, committed or not (InsertInv), and one    *)
(* whose insert returned no row finds the row it lost to (FoundInv).       *)
(*                                                                         *)
(* The payload hashes the inbox compares are taken of a canonical text.    *)
(* It is shown level by level of nesting that the text is a function of    *)
(* what the payload means, and still means it: an object with its sorted   *)
(* keys inserted and a text written for its meaning list the same          *)
(* properties in the same order, and there is one such list                *)
(* (InOrderUnique, LevelAgrees).                                           *)
(***************************************************************************)
EXTENDS WebhookInbox, CanonicalJson, FiniteSetTheorems, WellFoundedInduction, TLAPS

HasInserted(r) == pc[r] \in {"insertOutbox", "commit"}

\* A transaction that has inserted its row holds its event id and its nonce.
InsertInv ==
  \A r \in Requests : HasInserted(r) =>
    Conflicts(r) = {} /\ \A q \in Requests : ~Blocks(q, r)

\* After an insert that returned no row there is a row with the event id or the
\* nonce; once the first lookup has found none with the event id, there is one
\* of another event with the nonce.
FoundInv ==
  \A r \in Requests :
    /\ pc[r] = "findEvent" => Conflicts(r) # {}
    /\ pc[r] = "findNonce" =>
         \E row \in inbox : row.nonce = request[r].nonce /\ row.eventId # request[r].eventId

\* A transaction begins only after every check has passed.
CheckedInv == \A r \in Requests : pc[r] \notin {"validate", "done"} => request[r].defects = {}

\* What was accepted is stored.
AcceptedInv == \A r \in Requests : response[r] = "ACCEPTED" => RowOf(r) \in inbox

\* The answer of r in a form that more rows cannot make false: with unique
\* event ids one row decides it.
Truth(r) ==
  /\ response[r] \in {"ACCEPTED", "ALREADY_ACCEPTED"} =>
       \E row \in inbox : /\ row.eventId = request[r].eventId
                          /\ toPayload(row.payload) = toPayload(request[r].payload)
  /\ response[r] = "WEBHOOK_EVENT_CONFLICT" =>
       \E row \in inbox : /\ row.eventId = request[r].eventId
                          /\ toPayload(row.payload) # toPayload(request[r].payload)
  /\ response[r] = "WEBHOOK_NONCE_REPLAY" =>
       \E row \in inbox : row.nonce = request[r].nonce /\ row.eventId # request[r].eventId
  /\ response[r] \in {"BAD_REQUEST", "UNCONFIGURED", "UNAUTHORIZED"} <=>
       pc[r] = "done" /\ request[r].defects # {}

TruthInv == \A r \in Requests : Truth(r)

\* The inductive invariant.
IInv ==
  /\ TypeOK /\ TruthInv /\ AcceptedOnce /\ ConflictsAreClassified
  /\ UniqueRows(inbox) /\ InsertInv /\ FoundInv /\ CheckedInv /\ AcceptedInv

-----------------------------------------------------------------------------
(* The operators of the handler *)

\* Normalizing a stored hash is idempotent and leaves a missing one alone.
LEMMA PayloadFacts ==
  ASSUME NEW p \in Payload
  PROVE  /\ toPayload(p) \in Payload
         /\ toPayload(toPayload(p)) = toPayload(p)
         /\ p.txHash = "null" => toPayload(p) = p
  BY Zenon DEF Payload, TxHashes, toPayload, normalizeTxHash

\* hasSamePayload compares what the payloads are once normalized.
LEMMA SamePayload ==
  ASSUME NEW row \in Row, NEW p \in Payload
  PROVE  hasSamePayload(row, toPayload(p)) <=> toPayload(row.payload) = toPayload(p)
<1>1. row.payload \in Payload
  BY DEF Row
<1>2. /\ toPayload(toPayload(p)) = toPayload(p)
      /\ row.payload.txHash = "null" => toPayload(row.payload) = row.payload
  BY <1>1, PayloadFacts
<1> QED
  BY <1>2 DEF hasSamePayload

\* A request is rejected by the checks exactly if it has a defect.
LEMMA RejectionFacts ==
  ASSUME NEW defects \in SUBSET Defects
  PROVE  /\ Rejection(defects) \in {"BAD_REQUEST", "UNCONFIGURED", "UNAUTHORIZED", "none"}
         /\ Rejection(defects) = "none" <=> defects = {}
  BY DEF Defects, Rejection

\* What a request carries, and the row it inserts.
LEMMA RowFacts ==
  ASSUME TypeOK, NEW r \in Requests
  PROVE  /\ request[r].payload \in Payload
         /\ request[r].defects \in SUBSET Defects
         /\ RowOf(r) \in Row
         /\ RowOf(r).eventId = request[r].eventId
         /\ RowOf(r).nonce = request[r].nonce
         /\ RowOf(r).payload = toPayload(request[r].payload)
<1>1. /\ request[r].payload \in Payload /\ request[r].defects \in SUBSET Defects
      /\ request[r].eventId \in EventIds /\ request[r].nonce \in Nonces
  BY DEF TypeOK, Request
<1> QED
  BY <1>1, PayloadFacts DEF RowOf, Row

-----------------------------------------------------------------------------
(* Steps *)

\* The first state: every table of StoredBefore obeys the indexes.
LEMMA InitInv ==
  ASSUME Init
  PROVE  IInv
<1>1. TypeOK
  <2>1. inbox \subseteq Row
    BY InboxAssumption DEF Init
  <2>2. outbox \subseteq EventIds
    BY <2>1 DEF Init, Row
  <2>3. request \in [Requests -> Request]
    BY InboxAssumption DEF Init
  <2> QED
    BY <2>1, <2>2, <2>3, InboxAssumption DEF Init, TypeOK, Pcs, Responses
<1>2. UniqueRows(inbox)
  BY InboxAssumption DEF Init
<1>3. \A r \in Requests : pc[r] = "validate" /\ response[r] = "none"
  BY Zenon DEF Init
<1> QED
  BY <1>1, <1>2, <1>3 DEF IInv, TruthInv, Truth, AcceptedOnce, ConflictsAreClassified,
                          InsertInv, HasInserted, FoundInv, CheckedInv, AcceptedInv

\* One handler moves on and the tables stay as they are; the hypotheses are what
\* the invariant asks of that handler.
LEMMA MoveInv ==
  ASSUME IInv, NEW r \in Requests, NEW step \in Pcs,
         request' = request, inbox' = inbox, outbox' = outbox, faults' \in 0..MaxFaults,
         pc' = [pc EXCEPT ![r] = step], response' \in [Requests -> Responses],
         \A q \in Requests \ {r} : response'[q] = response[q],
         step = "done" <=> response'[r] # "none",
         step \in {"insertOutbox", "commit"} =>
           Conflicts(r) = {} /\ \A q \in Requests : ~Blocks(q, r),
         step = "findEvent" => Conflicts(r) # {},
         step = "findNonce" =>
           \E row \in inbox : row.nonce = request[r].nonce /\ row.eventId # request[r].eventId,
         step \notin {"validate", "done"} => request[r].defects = {},
         response'[r] \notin {"ACCEPTED", "UNCLASSIFIED"},
         Truth(r)'
  PROVE  IInv'
<1>1. TypeOK'
  BY Zenon DEF IInv, TypeOK
<1>2. /\ pc'[r] = step
      /\ \A q \in Requests \ {r} : pc'[q] = pc[q] /\ response'[q] = response[q]
  BY DEF IInv, TypeOK
<1>3. TruthInv'
  BY <1>2 DEF IInv, TruthInv, Truth
<1>4. AcceptedOnce' /\ ConflictsAreClassified' /\ UniqueRows(inbox)'
  BY <1>2 DEF IInv, AcceptedOnce, ConflictsAreClassified
<1>5. \A q \in Requests : Conflicts(q)' = Conflicts(q)
  BY DEF Conflicts
<1>6. InsertInv'
  <2> SUFFICES ASSUME NEW q \in Requests, HasInserted(q)'
               PROVE  Conflicts(q)' = {} /\ \A u \in Requests : ~Blocks(u, q)'
    BY DEF InsertInv
  <2>1. CASE q = r
    BY <1>2, <1>5, <2>1 DEF HasInserted, Blocks
  <2>2. CASE q # r
    <3>1. HasInserted(q) /\ Conflicts(q) = {} /\ \A u \in Requests : ~Blocks(u, q)
      BY <1>2, <2>2 DEF IInv, InsertInv, HasInserted
    <3>2. ~Blocks(r, q)'
      BY <1>2, <2>2, <3>1 DEF Blocks, HasInserted
    <3> QED
      BY <1>2, <1>5, <3>1, <3>2 DEF Blocks
  <2> QED
    BY <2>1, <2>2
<1>7. FoundInv'
  BY <1>2, <1>5 DEF IInv, FoundInv
<1>8. CheckedInv'
  BY <1>2 DEF IInv, CheckedInv
<1>9. AcceptedInv'
  BY <1>2 DEF IInv, AcceptedInv, RowOf
<1> QED
  BY <1>1, <1>3, <1>4, <1>6, <1>7, <1>8, <1>9 DEF IInv

\* The transaction goes on or starts again.
LEMMA GoInv ==
  ASSUME IInv, NEW r \in Requests, NEW step \in Pcs \ {"done"}, GoTo(r, step),
         pc[r] # "done", UNCHANGED <<request, inbox, outbox>>, faults' \in 0..MaxFaults,
         step \in {"insertOutbox", "commit"} =>
           Conflicts(r) = {} /\ \A q \in Requests : ~Blocks(q, r),
         step = "findEvent" => Conflicts(r) # {},
         step = "findNonce" =>
           \E row \in inbox : row.nonce = request[r].nonce /\ row.eventId # request[r].eventId,
         step # "validate" => request[r].defects = {}
  PROVE  IInv'
<1>1. /\ pc' = [pc EXCEPT ![r] = step] /\ response' = response
      /\ response \in [Requests -> Responses] /\ response[r] = "none" /\ step # "done"
      /\ pc \in [Requests -> Pcs]
  BY DEF GoTo, IInv, TypeOK
<1>2. Truth(r)'
  BY <1>1 DEF Truth
<1> QED
  BY <1>1, <1>2, MoveInv, Zenon

\* The handler answers without having stored anything.
LEMMA AnswerInv ==
  ASSUME IInv, NEW r \in Requests,
         NEW what \in Responses \ {"none", "ACCEPTED", "UNCLASSIFIED"}, Answer(r, what),
         UNCHANGED <<request, inbox, outbox, faults>>,
         response'[r] = what /\ pc'[r] = "done" => Truth(r)'
  PROVE  IInv'
<1>1. /\ pc' = [pc EXCEPT ![r] = "done"] /\ pc'[r] = "done"
      /\ response' \in [Requests -> Responses] /\ response'[r] = what
      /\ \A q \in Requests \ {r} : response'[q] = response[q]
      /\ faults' \in 0..MaxFaults /\ "done" \in Pcs
  BY DEF Answer, IInv, TypeOK, Pcs
<1> QED
  BY <1>1, MoveInv, Zenon

\* The steps before the commit and the two lookups.
LEMMA StepInv ==
  ASSUME IInv, NEW r \in Requests,
         \/ Validate(r) \/ TryInsertWebhookEvent(r) \/ InsertOutboxEvent(r)
         \/ FindExistingEvent(r) \/ FindExistingNonce(r) \/ Fail(r)
  PROVE  IInv'
<1>1. TypeOK /\ faults \in 0..MaxFaults
  BY DEF IInv, TypeOK
<1>2. request[r].defects \in SUBSET Defects /\ request[r].payload \in Payload
  BY <1>1, RowFacts
<1>3. CASE Validate(r)
  <2>1. CASE Rejection(request[r].defects) = "none"
    <3>1. /\ request[r].defects = {} /\ pc[r] # "done" /\ GoTo(r, "insert")
          /\ UNCHANGED <<request, inbox, outbox, faults>>
      BY <1>2, <1>3, <2>1, RejectionFacts DEF Validate
    <3> QED
      BY <1>1, <3>1, GoInv DEF Pcs
  <2>2. CASE Rejection(request[r].defects) # "none"
    <3> DEFINE what == Rejection(request[r].defects)
    <3>1. /\ request[r].defects # {} /\ Answer(r, what)
          /\ what \in {"BAD_REQUEST", "UNCONFIGURED", "UNAUTHORIZED"}
          /\ UNCHANGED <<request, inbox, outbox, faults>>
      BY <1>2, <1>3, <2>2, RejectionFacts DEF Validate
    <3> HIDE DEF what
    <3>2. response'[r] = what /\ pc'[r] = "done" => Truth(r)'
      BY <3>1 DEF Truth
    <3> QED
      BY <3>1, <3>2, AnswerInv DEF Responses
  <2> QED
    BY <2>1, <2>2
<1>4. CASE TryInsertWebhookEvent(r)
  <2>1. /\ request[r].defects = {} /\ pc[r] # "done" /\ \A q \in Requests : ~Blocks(q, r)
        /\ UNCHANGED <<request, inbox, outbox, faults>>
    BY <1>4 DEF TryInsertWebhookEvent, IInv, CheckedInv
  <2>2. CASE Conflicts(r) = {} /\ GoTo(r, "insertOutbox")
    BY <1>1, <2>1, <2>2, GoInv DEF Pcs
  <2>3. CASE Conflicts(r) # {} /\ GoTo(r, "findEvent")
    BY <1>1, <2>1, <2>3, GoInv DEF Pcs
  <2> QED
    BY <1>4, <2>2, <2>3 DEF TryInsertWebhookEvent
<1>5. CASE InsertOutboxEvent(r)
  <2>1. /\ request[r].defects = {} /\ pc[r] # "done" /\ GoTo(r, "commit")
        /\ Conflicts(r) = {} /\ \A q \in Requests : ~Blocks(q, r)
        /\ UNCHANGED <<request, inbox, outbox, faults>>
    BY <1>5 DEF InsertOutboxEvent, IInv, CheckedInv, InsertInv, HasInserted
  <2> QED
    BY <1>1, <2>1, GoInv DEF Pcs
<1>6. CASE FindExistingEvent(r)
  <2> DEFINE found == {row \in inbox : row.eventId = request[r].eventId}
  <2>1. /\ request[r].defects = {} /\ Conflicts(r) # {} /\ pc[r] # "done"
        /\ UNCHANGED <<request, inbox, outbox, faults>>
    BY <1>6 DEF FindExistingEvent, IInv, CheckedInv, FoundInv
  <2>2. CASE found = {}
    <3>1. GoTo(r, "findNonce")
      BY <1>6, <2>2 DEF FindExistingEvent
    <3>2. \E row \in inbox : row.nonce = request[r].nonce /\ row.eventId # request[r].eventId
      BY <2>1, <2>2 DEF Conflicts
    <3> QED
      BY <1>1, <2>1, <3>1, <3>2, GoInv DEF Pcs
  <2>3. CASE found # {}
    <3>1. PICK row \in found :
            Answer(r, IF hasSamePayload(row, RowOf(r).payload)
                      THEN "ALREADY_ACCEPTED" ELSE "WEBHOOK_EVENT_CONFLICT")
      BY <1>6, <2>3 DEF FindExistingEvent
    <3>2. hasSamePayload(row, RowOf(r).payload) <=>
            toPayload(row.payload) = toPayload(request[r].payload)
      BY <1>1, <1>2, RowFacts, SamePayload DEF TypeOK
    <3>3. CASE hasSamePayload(row, RowOf(r).payload)
      <4>1. Answer(r, "ALREADY_ACCEPTED")
        BY <3>1, <3>3
      <4>2. response'[r] = "ALREADY_ACCEPTED" /\ pc'[r] = "done" => Truth(r)'
        BY <2>1, <3>2, <3>3 DEF Truth
      <4> QED
        BY <2>1, <4>1, <4>2, AnswerInv DEF Responses
    <3>4. CASE ~hasSamePayload(row, RowOf(r).payload)
      <4>1. Answer(r, "WEBHOOK_EVENT_CONFLICT")
        BY <3>1, <3>4
      <4>2. response'[r] = "WEBHOOK_EVENT_CONFLICT" /\ pc'[r] = "done" => Truth(r)'
        BY <2>1, <3>2, <3>4 DEF Truth
      <4> QED
        BY <2>1, <4>1, <4>2, AnswerInv DEF Responses
    <3> QED
      BY <3>3, <3>4
  <2> QED
    BY <2>2, <2>3
<1>7. CASE FindExistingNonce(r)
  <2>1. /\ request[r].defects = {}
        /\ \E row \in inbox : row.nonce = request[r].nonce /\ row.eventId # request[r].eventId
        /\ UNCHANGED <<request, inbox, outbox, faults>>
    BY <1>7 DEF FindExistingNonce, IInv, CheckedInv, FoundInv
  <2>2. Answer(r, "WEBHOOK_NONCE_REPLAY")
    BY <1>7, <2>1 DEF FindExistingNonce
  <2>3. response'[r] = "WEBHOOK_NONCE_REPLAY" /\ pc'[r] = "done" => Truth(r)'
    BY <2>1 DEF Truth
  <2> QED
    BY <2>1, <2>2, <2>3, AnswerInv DEF Responses
<1>8. CASE Fail(r)
  <2>1. /\ GoTo(r, "validate") /\ faults' \in 0..MaxFaults /\ pc[r] # "done"
        /\ UNCHANGED <<request, inbox, outbox>>
    BY <1>1, <1>8, InboxAssumption DEF Fail
  <2> QED
    BY <2>1, GoInv DEF Pcs
<1> QED
  BY <1>3, <1>4, <1>5, <1>6, <1>7, <1>8

\* A commit adds the row of a request that has no rival.
LEMMA CommitInv ==
  ASSUME IInv, NEW r \in Requests, Commit(r) \/ CommitUnanswered(r)
  PROVE  IInv'
<1>1. /\ TypeOK /\ pc[r] = "commit" /\ response[r] = "none"
      /\ request' = request /\ inbox' = inbox \cup {RowOf(r)}
      /\ outbox' = outbox \cup {request[r].eventId}
  BY DEF Commit, CommitUnanswered, Store, IInv, TypeOK
<1>2. /\ Conflicts(r) = {} /\ \A q \in Requests : ~Blocks(q, r)
      /\ request[r].defects = {}
  BY <1>1 DEF IInv, InsertInv, HasInserted, CheckedInv
<1>3. /\ request[r].payload \in Payload /\ RowOf(r) \in Row
      /\ RowOf(r).eventId = request[r].eventId /\ RowOf(r).nonce = request[r].nonce
      /\ RowOf(r).payload = toPayload(request[r].payload)
      /\ toPayload(RowOf(r).payload) = toPayload(request[r].payload)
  BY <1>1, RowFacts, PayloadFacts
<1>4. PICK step \in {"done", "validate"} :
        /\ pc' = [pc EXCEPT ![r] = step]
        /\ response' = [response EXCEPT ![r] = IF step = "done" THEN "ACCEPTED" ELSE "none"]
        /\ faults' \in 0..MaxFaults
  <2>1. CASE Commit(r)
    BY <1>1, <2>1 DEF Commit, Answer, TypeOK
  <2>2. CASE CommitUnanswered(r)
    BY <1>1, <2>2, InboxAssumption DEF CommitUnanswered, GoTo, TypeOK
  <2> QED
    BY <2>1, <2>2
<1>5. /\ pc'[r] = step /\ response'[r] = IF step = "done" THEN "ACCEPTED" ELSE "none"
      /\ \A q \in Requests \ {r} : pc'[q] = pc[q] /\ response'[q] = response[q]
  BY <1>1, <1>4 DEF TypeOK
<1>6. TypeOK'
  <2>1. request[r].eventId \in EventIds
    BY <1>1 DEF TypeOK, Request
  <2> QED
    BY <1>1, <1>3, <1>4, <2>1 DEF TypeOK, Pcs, Responses
<1>7. \A row \in inbox : row.eventId # request[r].eventId /\ row.nonce # request[r].nonce
  BY <1>2 DEF Conflicts
<1>8. UniqueRows(inbox)'
  BY <1>1, <1>3, <1>7 DEF IInv, UniqueRows
<1>9. TruthInv'
  <2> SUFFICES ASSUME NEW q \in Requests
               PROVE  Truth(q)'
    BY DEF TruthInv
  <2>1. CASE q = r
    BY <1>1, <1>2, <1>3, <1>5, <2>1 DEF Truth
  <2>2. CASE q # r
    BY <1>1, <1>5, <2>2 DEF IInv, TruthInv, Truth
  <2> QED
    BY <2>1, <2>2
<1>10. \A q \in Requests : response[q] = "ACCEPTED" => request[q].eventId # request[r].eventId
  BY <1>1, <1>7, RowFacts DEF IInv, AcceptedInv
<1>11. AcceptedOnce' /\ ConflictsAreClassified'
  BY <1>1, <1>5, <1>10 DEF IInv, AcceptedOnce, ConflictsAreClassified
<1>12. InsertInv'
  <2> SUFFICES ASSUME NEW q \in Requests, HasInserted(q)'
               PROVE  Conflicts(q)' = {} /\ \A u \in Requests : ~Blocks(u, q)'
    BY DEF InsertInv
  <2>1. q # r /\ HasInserted(q)
    BY <1>5 DEF HasInserted
  <2>2. Conflicts(q) = {} /\ \A u \in Requests : ~Blocks(u, q)
    BY <2>1 DEF IInv, InsertInv
  <2>3. request[q].eventId # request[r].eventId /\ request[q].nonce # request[r].nonce
    BY <1>1, <2>1, <2>2 DEF Blocks
  <2>4. Conflicts(q)' = {}
    BY <1>1, <1>3, <2>2, <2>3 DEF Conflicts
  <2>5. \A u \in Requests : ~Blocks(u, q)'
    BY <1>1, <1>5, <2>2 DEF Blocks
  <2> QED
    BY <2>4, <2>5
<1>13. FoundInv'
  BY <1>1, <1>5 DEF IInv, FoundInv, Conflicts
<1>14. CheckedInv' /\ AcceptedInv'
  BY <1>1, <1>5 DEF IInv, CheckedInv, AcceptedInv, RowOf
<1> QED
  BY <1>6, <1>8, <1>9, <1>11, <1>12, <1>13, <1>14 DEF IInv

-----------------------------------------------------------------------------
(* The invariant and the properties *)

\* IInv is inductive.
LEMMA Invariance == Spec => []IInv
<1>1. ASSUME IInv, [Next]_vars PROVE IInv'
  <2>1. CASE UNCHANGED vars
    <3>1. TypeOK' /\ TruthInv' /\ AcceptedOnce' /\ ConflictsAreClassified' /\ UniqueRows(inbox)'
      BY <1>1, <2>1, SMTT(20) DEF IInv, vars, TypeOK, TruthInv, Truth, AcceptedOnce,
                                  ConflictsAreClassified
    <3>2. InsertInv' /\ FoundInv'
      BY <1>1, <2>1 DEF IInv, vars, InsertInv, HasInserted, Conflicts, Blocks, FoundInv
    <3>3. CheckedInv' /\ AcceptedInv'
      BY <1>1, <2>1 DEF IInv, vars, CheckedInv, AcceptedInv, RowOf
    <3> QED
      BY <3>1, <3>2, <3>3 DEF IInv
  <2>2. CASE Next
    BY <1>1, <2>2, StepInv, CommitInv DEF Next, Step
  <2> QED
    BY <1>1, <2>1, <2>2, SMTT(20)
<1> QED
  BY <1>1, InitInv, PTL DEF Spec

\* What acceptBlockchainWebhook answers is true of the committed tables and stays
\* true, whichever requests raced, failed or were sent again.
THEOREM AnswersHold == Spec => []AnswersAreTrue
<1>1. IInv => AnswersAreTrue
  <2> SUFFICES ASSUME IInv, NEW r \in Requests, Truth(r)
               PROVE  LET mine == {row \in inbox : row.eventId = request[r].eventId}
                          same == {row \in mine :
                                     toPayload(row.payload) = toPayload(request[r].payload)}
                      IN /\ response[r] \in {"ACCEPTED", "ALREADY_ACCEPTED"} => same # {}
                         /\ response[r] = "WEBHOOK_EVENT_CONFLICT" => mine # {} /\ same = {}
    BY DEF IInv, TruthInv, Truth, AnswersAreTrue
  <2>1. \A a, b \in inbox : a.eventId = b.eventId => a = b
    BY DEF IInv, UniqueRows
  <2> QED
    BY <2>1 DEF Truth
<1> QED
  BY <1>1, Invariance, PTL

\* Of all deliveries of one provider event, at most one is told ACCEPTED.
THEOREM OneAcceptance == Spec => []AcceptedOnce
<1>1. IInv => AcceptedOnce
  BY DEF IInv
<1> QED
  BY <1>1, Invariance, PTL

\* The lookups of replayOrRejectConflict find the row the insert ran into.
THEOREM EveryConflictClassified == Spec => []ConflictsAreClassified
<1>1. IInv => ConflictsAreClassified
  BY DEF IInv
<1> QED
  BY <1>1, Invariance, PTL

\* The inbox keeps what it has, and never two rows for an event or a nonce.
THEOREM InboxGrows == Spec => [][inbox \subseteq inbox' /\ UniqueRows(inbox')]_vars
<1>1. IInv /\ IInv' /\ [Next]_vars => [inbox \subseteq inbox' /\ UniqueRows(inbox')]_vars
  BY DEF IInv, Next, vars, Step, Validate, TryInsertWebhookEvent, InsertOutboxEvent, Commit,
         Store, FindExistingEvent, FindExistingNonce, Fail, CommitUnanswered
<1> QED
  BY <1>1, Invariance, PTL DEF Spec

-----------------------------------------------------------------------------
(* Lists in order *)

\* A set of naturals that is not empty has a least element.
LEMMA LeastNatural ==
  ASSUME NEW T, T \subseteq Nat, T # {}
  PROVE  \E x \in T : \A y \in T : x <= y
<1> DEFINE R == OpToRel(<, Nat)
<1>1. IsWellFoundedOn(R, Nat)
  BY NatLessThanWellFounded, Zenon
<1>2. PICK x \in T : \A y \in T : ~(<<y, x>> \in R)
  <2> HIDE DEF R
  <2> QED  BY <1>1, WFMin, Zenon
<1>3. ASSUME NEW y \in T  PROVE x <= y
  <2>1. ~(<<y, x>> \in {ss \in Nat \X Nat : ss[1] < ss[2]})
    BY <1>2, Zenon DEF OpToRel
  <2> QED  BY <2>1
<1> QED  BY <1>2, <1>3, Zenon

\* Induction over the naturals, the predicate given by the set T it describes.
LEMMA Induction ==
  ASSUME NEW T, 0 \in T, \A n \in Nat : n \in T => n + 1 \in T
  PROVE  Nat \subseteq T
<1> SUFFICES ASSUME Nat \ T # {} PROVE FALSE
  BY Zenon
<1>1. PICK x \in Nat \ T : \A y \in Nat \ T : x <= y
  <2>1. Nat \ T \subseteq Nat
    BY Zenon
  <2> QED  BY <2>1, LeastNatural, Zenon
<1>2. x # 0 /\ x \in Nat
  BY <1>1, Zenon
<1>3. x - 1 \in Nat /\ (x - 1) + 1 = x /\ ~(x <= x - 1)
  BY <1>2
<1>4. x - 1 \in T
  BY <1>1, <1>3, Zenon
<1>5. (x - 1) + 1 \in T
  BY <1>3, <1>4, Zenon
<1> QED  BY <1>1, <1>3, <1>5, Zenon

\* R is a strict total order on S.
IsOrder(S, R) ==
  /\ \A x \in S : <<x, x>> \notin R
  /\ \A x, y, z \in S : <<x, y>> \in R /\ <<y, z>> \in R => <<x, z>> \in R
  /\ \A x, y \in S : x = y \/ <<x, y>> \in R \/ <<y, x>> \in R

Preceding(S, R, x) == {y \in S : <<y, x>> \in R}

\* s lists the elements of S in the order of R.
Lists(s, n, S, R) ==
  /\ s \in [1..n -> S]
  /\ \A x \in S : \E k \in 1..n : s[k] = x
  /\ \A j, k \in 1..n : j < k => <<s[j], s[k]>> \in R

OneToOne(s, n) == \A j, k \in 1..n : s[j] = s[k] => j = k

\* A list has no element twice.
LEMMA ListIsInjective ==
  ASSUME NEW S, NEW R, IsOrder(S, R), NEW n \in Nat, NEW s, Lists(s, n, S, R)
  PROVE  OneToOne(s, n)
<1>1. ASSUME NEW j \in 1..n, NEW k \in 1..n, s[j] = s[k], j # k  PROVE FALSE
  <2>1. j < k \/ k < j
    BY <1>1, SMT
  <2>2. <<s[j], s[k]>> \in R \/ <<s[k], s[j]>> \in R
    BY <2>1, Zenon DEF Lists
  <2>3. s[j] \in S
    BY Zenon DEF Lists
  <2> QED  BY <1>1, <2>2, <2>3, Zenon DEF IsOrder
<1> QED  BY <1>1, Zenon DEF OneToOne

\* A function without a value twice counts its values.
LEMMA Counted ==
  ASSUME NEW n \in Nat, NEW T, NEW s \in [1..n -> T],
         \A x \in T : \E k \in 1..n : s[k] = x,
         OneToOne(s, n)
  PROVE  IsFiniteSet(T) /\ Cardinality(T) = n
<1>1. s \in Surjection(1..n, T) /\ s \in Injection(1..n, T)
  BY Zenon DEF Surjection, Injection, IsInjective, OneToOne
<1>2. ExistsBijection(1..n, T)
  BY <1>1, Zenon DEF ExistsBijection, Bijection
<1> QED  BY <1>2, FS_NatBijection, FS_CountingElements, Zenon

\* There is at most one list, and InOrder is it.
LEMMA InOrderUnique ==
  ASSUME NEW S, NEW R, IsOrder(S, R), NEW n \in Nat, NEW s, Lists(s, n, S, R)
  PROVE  IsFiniteSet(S) /\ Cardinality(S) = n /\ InOrder(S, R) = s
<1>1. s \in [1..n -> S] /\ \A j, k \in 1..n : s[j] = s[k] => j = k
  <2>1. OneToOne(s, n)
    BY ListIsInjective, Zenon
  <2> QED  BY <2>1, Zenon DEF Lists, OneToOne
<1>2. IsFiniteSet(S) /\ Cardinality(S) = n
  <2>1. OneToOne(s, n)
    BY <1>1, Zenon DEF OneToOne
  <2> QED  BY <1>1, <2>1, Counted, Zenon DEF Lists
<1>3. ASSUME NEW k \in 1..n  PROVE Cardinality(Preceding(S, R, s[k])) = k - 1
  <2> DEFINE T == Preceding(S, R, s[k])
             t == [j \in 1..(k - 1) |-> s[j]]
  <2>1. k - 1 \in Nat /\ \A j \in 1..(k - 1) : j \in 1..n /\ j < k
    BY SMT
  <2>2. t \in [1..(k - 1) -> T]
    BY <1>1, <2>1, Zenon DEF Lists, Preceding
  <2>3. ASSUME NEW x \in T  PROVE \E j \in 1..(k - 1) : t[j] = x
    <3>1. x \in S /\ <<x, s[k]>> \in R
      BY <2>3, Zenon DEF Preceding
    <3>2. PICK j \in 1..n : s[j] = x
      BY <3>1, Zenon DEF Lists
    <3>3. ~(k < j)
      <4>1. SUFFICES ASSUME k < j  PROVE FALSE
        BY Zenon
      <4>2. <<s[k], x>> \in R /\ s[k] \in S
        BY <1>1, <3>2, <4>1, Zenon DEF Lists
      <4> QED  BY <3>1, <4>2, Zenon DEF IsOrder
    <3>4. j # k
      BY <1>1, <3>1, <3>2, Zenon DEF IsOrder
    <3>5. j \in 1..(k - 1)
      BY <3>3, <3>4, SMT
    <3> QED  BY <3>2, <3>5, Zenon
  <2>4. OneToOne(t, k - 1)
    BY <1>1, <2>1, Zenon DEF OneToOne
  <2> HIDE DEF T, t
  <2>5. Cardinality(T) = k - 1
    BY <2>1, <2>2, <2>3, <2>4, Counted, Zenon
  <2> QED  BY <2>5, Zenon DEF T
<1>4. ASSUME NEW k \in 1..n
      PROVE  (CHOOSE x \in S : Cardinality({y \in S : <<y, x>> \in R}) = k - 1) = s[k]
  <2>1. s[k] \in S /\ Cardinality({y \in S : <<y, s[k]>> \in R}) = k - 1
    BY <1>1, <1>3, Zenon DEF Preceding
  <2>2. ASSUME NEW x \in S, Cardinality({y \in S : <<y, x>> \in R}) = k - 1  PROVE x = s[k]
    <3>1. PICK j \in 1..n : s[j] = x
      BY Zenon DEF Lists
    <3>2. j - 1 = k - 1
      BY <1>3, <2>2, <3>1, Zenon DEF Preceding
    <3>3. j = k
      BY <3>2, SMT
    <3> QED  BY <3>1, <3>3, Zenon
  <2> QED  BY <2>1, <2>2, Zenon
<1>5. s = [k \in 1..n |-> s[k]]
  BY <1>1, Zenon
<1>6. InOrder(S, R) = [k \in 1..n |-> s[k]]
  BY <1>2, <1>4, Zenon DEF InOrder
<1> QED  BY <1>2, <1>5, <1>6, Zenon

\* What comes later has more before it.
LEMMA PrecedingGrows ==
  ASSUME NEW S, NEW R, IsOrder(S, R), IsFiniteSet(S),
         NEW x \in S, NEW y \in S, <<x, y>> \in R
  PROVE  Cardinality(Preceding(S, R, x)) < Cardinality(Preceding(S, R, y))
<1> DEFINE X == Preceding(S, R, x)
           Y == Preceding(S, R, y)
<1>1. X \in SUBSET Y /\ Y \in SUBSET S /\ X # Y
  <2>1. x \in Y /\ x \notin X
    BY Zenon DEF Preceding, IsOrder
  <2>2. \A z \in X : z \in Y
    BY Zenon DEF Preceding, IsOrder
  <2>3. Y \in SUBSET S
    BY Zenon DEF Preceding
  <2> QED  BY <2>1, <2>2, <2>3, Zenon
<1> HIDE DEF X, Y
<1>2. IsFiniteSet(Y)
  BY <1>1, FS_Subset, Zenon
<1>3. IsFiniteSet(X) /\ Cardinality(X) <= Cardinality(Y) /\ Cardinality(Y) # Cardinality(X)
  BY <1>1, <1>2, FS_Subset, Zenon
<1>4. Cardinality(X) \in Nat /\ Cardinality(Y) \in Nat
  BY <1>2, <1>3, FS_CardinalityType, Zenon
<1>5. Cardinality(X) < Cardinality(Y)
  BY <1>3, <1>4, SMT
<1> QED  BY <1>5, Zenon DEF X, Y

\* A finite set has a list, and InOrder is it.
LEMMA InOrderLists ==
  ASSUME NEW S, NEW R, IsOrder(S, R), IsFiniteSet(S)
  PROVE  Cardinality(S) \in Nat /\ Lists(InOrder(S, R), Cardinality(S), S, R)
<1> DEFINE n == Cardinality(S)
           rank == [x \in S |-> Cardinality(Preceding(S, R, x))]
           s == InOrder(S, R)
<1>0. n \in Nat
  BY FS_CardinalityType, Zenon
<1>1. ASSUME NEW x \in S  PROVE Cardinality(Preceding(S, R, x)) \in 0..(n - 1)
  <2> DEFINE X == Preceding(S, R, x)
  <2>1. X \in SUBSET S /\ X # S
    BY Zenon DEF Preceding, IsOrder
  <2> HIDE DEF X
  <2>2. IsFiniteSet(X) /\ Cardinality(X) <= Cardinality(S) /\ Cardinality(S) # Cardinality(X)
    BY <2>1, FS_Subset, Zenon
  <2>3. Cardinality(X) \in Nat
    BY <2>2, FS_CardinalityType, Zenon
  <2>4. Cardinality(X) \in 0..(Cardinality(S) - 1)
    BY <1>0, <2>2, <2>3, SMT
  <2> QED  BY <2>4, Zenon DEF X
<1>2. ASSUME NEW x \in S, NEW y \in S, rank[x] = rank[y]  PROVE x = y
  <2>1. Cardinality(Preceding(S, R, x)) = Cardinality(Preceding(S, R, y))
    BY <1>2, Zenon
  <2>2. Cardinality(Preceding(S, R, x)) \in Nat /\ Cardinality(Preceding(S, R, y)) \in Nat
    BY <1>0, <1>1, SMT
  <2>3. \A a \in Nat : ~(a < a)
    BY SMT
  <2>4. ~(<<x, y>> \in R) /\ ~(<<y, x>> \in R)
    BY <2>1, <2>2, <2>3, PrecedingGrows, Zenon
  <2> QED  BY <2>4, Zenon DEF IsOrder
<1>3. rank \in Injection(S, 0..(n - 1))
  <2>1. rank \in [S -> 0..(n - 1)]
    BY <1>1, Zenon
  <2> HIDE DEF rank, n
  <2> QED  BY <1>2, <2>1, Zenon DEF Injection, IsInjective
<1>4. IsFiniteSet(0..(n - 1)) /\ Cardinality(0..(n - 1)) = n
  <2>1. 0 \in Int /\ n - 1 \in Int
    BY <1>0, SMT
  <2>2. /\ IsFiniteSet(0..(n - 1))
        /\ Cardinality(0..(n - 1)) = IF 0 > n - 1 THEN 0 ELSE (n - 1) - 0 + 1
    BY <2>1, FS_Interval, Zenon
  <2> HIDE DEF n
  <2> QED  BY <1>0, <2>2, SMT
<1>5. rank \in Surjection(S, 0..(n - 1))
  <2> HIDE DEF rank
  <2> QED  BY <1>3, <1>4, FS_Injection, Zenon
<1>6. ASSUME NEW k \in 1..n
      PROVE  /\ s[k] \in S
             /\ Cardinality(Preceding(S, R, s[k])) = k - 1
  <2>1. k - 1 \in 0..(n - 1)
    BY <1>0, SMT
  <2>2. PICK x \in S : rank[x] = k - 1
    <3> HIDE DEF rank
    <3> QED  BY <1>5, <2>1, Zenon DEF Surjection
  <2>3. Cardinality({y \in S : <<y, x>> \in R}) = k - 1
    BY <2>2, Zenon DEF Preceding
  <2>4. s[k] = CHOOSE z \in S : Cardinality({y \in S : <<y, z>> \in R}) = k - 1
    BY Zenon DEF InOrder
  <2>5. s[k] \in S /\ Cardinality({y \in S : <<y, s[k]>> \in R}) = k - 1
    <3> HIDE DEF s
    <3> QED  BY <2>3, <2>4, Zenon
  <2> QED  BY <2>5, Zenon DEF Preceding
<1>7. s \in [1..n -> S]
  <2>1. \A k \in 1..n : (CHOOSE x \in S : Cardinality({y \in S : <<y, x>> \in R}) = k - 1) \in S
    BY <1>6, Zenon DEF InOrder
  <2> QED  BY <2>1, Zenon DEF InOrder
<1> HIDE DEF s
<1>8. ASSUME NEW x \in S  PROVE \E k \in 1..n : s[k] = x
  <2>1. PICK r \in 0..(n - 1) : r = rank[x]
    BY <1>1, Zenon
  <2>2. r + 1 \in 1..n /\ (r + 1) - 1 = r
    BY <1>0, SMT
  <2>3. s[r + 1] \in S /\ Cardinality(Preceding(S, R, s[r + 1])) = r
    BY <1>6, <2>2, Zenon
  <2>4. rank[s[r + 1]] = rank[x]
    BY <2>1, <2>3, Zenon
  <2>5. s[r + 1] = x
    <3> HIDE DEF rank
    <3> QED  BY <1>2, <2>3, <2>4, Zenon
  <2> QED  BY <2>2, <2>5, Zenon
<1>9. ASSUME NEW j \in 1..n, NEW k \in 1..n, j < k  PROVE <<s[j], s[k]>> \in R
  <2>1. /\ s[j] \in S /\ Cardinality(Preceding(S, R, s[j])) = j - 1
        /\ s[k] \in S /\ Cardinality(Preceding(S, R, s[k])) = k - 1
    BY <1>6, Zenon
  <2>2. ~(k - 1 < j - 1) /\ k - 1 # j - 1
    BY <1>9, SMT
  <2>3. ~(<<s[k], s[j]>> \in R)
    BY <2>1, <2>2, PrecedingGrows, Zenon
  <2>4. s[j] # s[k]
    BY <2>1, <2>2, Zenon
  <2> QED  BY <2>1, <2>3, <2>4, Zenon DEF IsOrder
<1>10. Lists(s, n, S, R)
  <2> HIDE DEF n
  <2> QED  BY <1>7, <1>8, <1>9, Zenon DEF Lists
<1> QED  BY <1>0, <1>10, Zenon DEF s

-----------------------------------------------------------------------------
(* The orders of keys and properties *)

\* The fields of the values.
LEMMA RecordFields ==
  /\ \A k, v : Property(k, v).key = k /\ Property(k, v).value = v
  /\ \A x : Array(x).kind = "array" /\ Array(x).items = x
  /\ \A x : Object(x).kind = "object" /\ Object(x).items = x
BY Zenon DEF Property, Array, Object

\* The order of sort.
ByUnit(K) == {p \in K \X K : p[1].unit < p[2].unit}

\* The order of the properties of a canonical object.
WrittenBefore(P) ==
  {p \in P \X P : Precedes(p[1].key, p[1].key.unit, p[2].key, p[2].key.unit)}

\* The order of the insertions of keys.
ByPlace(keys, n) ==
  {p \in (1..n) \X (1..n) : Precedes(keys[p[1]], p[1], keys[p[2]], p[2])}

\* What it means to come first in each of the three orders.
LEMMA OrderMembers ==
  /\ \A K : \A k, l \in K : <<k, l>> \in ByUnit(K) <=> k.unit < l.unit
  /\ \A P : \A p, q \in P :
       <<p, q>> \in WrittenBefore(P) <=> Precedes(p.key, p.key.unit, q.key, q.key.unit)
  /\ \A keys, n : \A i, j \in 1..n :
       <<i, j>> \in ByPlace(keys, n) <=> Precedes(keys[i], i, keys[j], j)
BY Zenon DEF ByUnit, WrittenBefore, ByPlace

\* Keys differ in their text, and integer-like ones in their number.
LEMMA KeyFields ==
  ASSUME NEW k \in JsonKeys
  PROVE  /\ k.unit \in Nat /\ k.index \in Nat
         /\ \A l \in JsonKeys : k # l => k.unit # l.unit /\ (k.index # 0 => k.index # l.index)
<1>1. k \in [unit : Nat, index : Nat]
  BY JsonAssumption, Zenon
<1>2. k.unit \in Nat /\ k.index \in Nat
  BY <1>1, SMT
<1> QED  BY <1>2, JsonAssumption, Zenon

\* Property order is strict and transitive, and total on different keys.
LEMMA PrecedesStrict ==
  ASSUME NEW k \in JsonKeys, NEW i \in Nat
  PROVE  ~Precedes(k, i, k, i)
<1>1. PICK a \in Nat : a = k.index
  BY KeyFields, Zenon
<1> QED  BY <1>1, SMT DEF Precedes

\* Property order decides between different keys.
LEMMA PrecedesTotal ==
  ASSUME NEW k \in JsonKeys, NEW l \in JsonKeys, NEW i \in Nat, NEW j \in Nat, k # l, i # j
  PROVE  Precedes(k, i, l, j) \/ Precedes(l, j, k, i)
<1>1. PICK a \in Nat, b \in Nat : a = k.index /\ b = l.index
  BY KeyFields, Zenon
<1>2. a # 0 => a # b
  BY <1>1, KeyFields, Zenon
<1> QED  BY <1>1, <1>2, SMT DEF Precedes

\* Property order is transitive.
LEMMA PrecedesTransitive ==
  ASSUME NEW k \in JsonKeys, NEW l \in JsonKeys, NEW m \in JsonKeys,
         NEW i \in Nat, NEW j \in Nat, NEW h \in Nat,
         Precedes(k, i, l, j), Precedes(l, j, m, h)
  PROVE  Precedes(k, i, m, h)
<1>1. PICK a \in Nat, b \in Nat, c \in Nat : a = k.index /\ b = l.index /\ c = m.index
  BY KeyFields, Zenon
<1> QED  BY <1>1, SMT DEF Precedes

\* sort has one result.
LEMMA ByUnitIsOrder ==
  ASSUME NEW K, K \subseteq JsonKeys
  PROVE  IsOrder(K, ByUnit(K))
<1>1. \A k \in K : k.unit \in Nat
  BY KeyFields, Zenon
<1>2. \A k \in K : ~(k.unit < k.unit)
  BY <1>1, SMT
<1>3. \A k, l, m \in K : k.unit < l.unit /\ l.unit < m.unit => k.unit < m.unit
  BY <1>1, SMT
<1>4. \A k, l \in K : k = l \/ k.unit < l.unit \/ l.unit < k.unit
  <2>1. \A k, l \in K : k = l \/ k.unit # l.unit
    BY KeyFields, Zenon
  <2> QED  BY <1>1, <2>1, SMT
<1> QED  BY <1>2, <1>3, <1>4, OrderMembers, Zenon DEF IsOrder

\* Properties with keys of their own.
Keyed(P) ==
  /\ \A p \in P : p.key \in JsonKeys
  /\ \A p, q \in P : p.key = q.key => p = q

\* The properties of an object have one order.
LEMMA BeforeIsOrder ==
  ASSUME NEW P, Keyed(P)
  PROVE  IsOrder(P, WrittenBefore(P))
<1> DEFINE B(p, q) == Precedes(p.key, p.key.unit, q.key, q.key.unit)
<1>1. \A p \in P : p.key \in JsonKeys /\ p.key.unit \in Nat
  BY KeyFields, Zenon DEF Keyed
<1>2. \A p \in P : ~B(p, p)
  BY <1>1, PrecedesStrict, Zenon
<1>3. ASSUME NEW p \in P, NEW q \in P, NEW r \in P, B(p, q), B(q, r)  PROVE B(p, r)
  <2>1. /\ p.key \in JsonKeys /\ q.key \in JsonKeys /\ r.key \in JsonKeys
        /\ p.key.unit \in Nat /\ q.key.unit \in Nat /\ r.key.unit \in Nat
    BY <1>1, Zenon
  <2>2. PICK k \in JsonKeys, i \in Nat : k = p.key /\ i = p.key.unit
    BY <2>1, Zenon
  <2>3. PICK l \in JsonKeys, j \in Nat : l = q.key /\ j = q.key.unit
    BY <2>1, Zenon
  <2>4. PICK m \in JsonKeys, h \in Nat : m = r.key /\ h = r.key.unit
    BY <2>1, Zenon
  <2>5. Precedes(k, i, l, j) /\ Precedes(l, j, m, h)
    BY <1>3, <2>2, <2>3, <2>4, Zenon
  <2>6. Precedes(k, i, m, h)
    BY <2>5, PrecedesTransitive, Zenon
  <2> QED  BY <2>2, <2>4, <2>6, Zenon
<1>4. ASSUME NEW p \in P, NEW q \in P, p # q  PROVE B(p, q) \/ B(q, p)
  <2>1. p.key # q.key
    BY <1>4, Zenon DEF Keyed
  <2>2. p.key.unit # q.key.unit
    BY <1>1, <2>1, KeyFields, Zenon
  <2>3. /\ p.key \in JsonKeys /\ q.key \in JsonKeys
        /\ p.key.unit \in Nat /\ q.key.unit \in Nat
    BY <1>1, Zenon
  <2> QED  BY <2>1, <2>2, <2>3, PrecedesTotal, Zenon
<1>5. \A p, q \in P : <<p, q>> \in WrittenBefore(P) <=> B(p, q)
  BY OrderMembers, Zenon
<1> HIDE DEF B
<1> QED  BY <1>2, <1>3, <1>4, <1>5, Zenon DEF IsOrder

\* So have the places of its keys.
LEMMA ByPlaceIsOrder ==
  ASSUME NEW n \in Nat, NEW keys \in [1..n -> JsonKeys], OneToOne(keys, n)
  PROVE  IsOrder(1..n, ByPlace(keys, n))
<1> DEFINE B(i, j) == Precedes(keys[i], i, keys[j], j)
<1>1. \A i \in 1..n : keys[i] \in JsonKeys /\ i \in Nat
  <2>1. \A i \in 1..n : i \in Nat
    BY SMT
  <2> QED  BY <2>1, Zenon
<1>2. \A i \in 1..n : ~B(i, i)
  BY <1>1, PrecedesStrict, Zenon
<1>3. \A i, j, k \in 1..n : B(i, j) /\ B(j, k) => B(i, k)
  BY <1>1, PrecedesTransitive, Zenon
<1>4. \A i, j \in 1..n : i = j \/ B(i, j) \/ B(j, i)
  <2>1. \A i, j \in 1..n : i = j \/ keys[i] # keys[j]
    BY Zenon DEF OneToOne
  <2> QED  BY <1>1, <2>1, PrecedesTotal, Zenon
<1>5. \A i, j \in 1..n : <<i, j>> \in ByPlace(keys, n) <=> B(i, j)
  BY OrderMembers, Zenon
<1> HIDE DEF B
<1> QED  BY <1>2, <1>3, <1>4, <1>5, Zenon DEF IsOrder

-----------------------------------------------------------------------------
(* One object *)

\* The entries of an object over values of B.
IsEntries(E, B) == E \in Seq(Properties(B)) /\ KeysDiffer(E)

\* Its properties, with f applied to the values.
Applied(E, f) == {Property(E[i].key, f[E[i].value]) : i \in DOMAIN E}

\* The entries of an object, and that a key finds its value.
LEMMA EntriesFacts ==
  ASSUME NEW B, NEW E, IsEntries(E, B)
  PROVE  /\ Len(E) \in Nat /\ DOMAIN E = 1..Len(E)
         /\ \A i \in 1..Len(E) : E[i].key \in JsonKeys /\ E[i].value \in B
         /\ \A i, j \in 1..Len(E) : E[i].key = E[j].key => i = j
         /\ \A i \in 1..Len(E) : ValueOf(E, E[i].key) = E[i].value
<1>1. E \in Seq(Properties(B)) /\ KeysDiffer(E)
  BY Zenon DEF IsEntries
<1>2. /\ Len(E) \in Nat /\ DOMAIN E = 1..Len(E)
      /\ \A i \in 1..Len(E) : E[i] \in Properties(B)
  BY <1>1, SMT
<1>3. \A i \in 1..Len(E) : E[i].key \in JsonKeys /\ E[i].value \in B
  BY <1>2, Zenon DEF Properties
<1>4. \A i, j \in 1..Len(E) : E[i].key = E[j].key => i = j
  BY <1>1, <1>2, Zenon DEF KeysDiffer
<1>5. ASSUME NEW i \in 1..Len(E)  PROVE ValueOf(E, E[i].key) = E[i].value
  <2>1. (CHOOSE j \in DOMAIN E : E[j].key = E[i].key) = i
    BY <1>2, <1>4, Zenon
  <2> QED  BY <2>1, Zenon DEF ValueOf
<1> QED  BY <1>2, <1>3, <1>4, <1>5, Zenon

\* The properties of an object have keys of their own, and are as many.
LEMMA AppliedFacts ==
  ASSUME NEW B, NEW E, IsEntries(E, B), NEW f
  PROVE  /\ Keyed(Applied(E, f))
         /\ IsFiniteSet(Applied(E, f)) /\ Cardinality(Applied(E, f)) = Len(E)
<1> DEFINE n == Len(E)
           P == Applied(E, f)
           s == [i \in 1..n |-> Property(E[i].key, f[E[i].value])]
<1>1. /\ n \in Nat /\ DOMAIN E = 1..n
      /\ \A i \in 1..n : E[i].key \in JsonKeys
      /\ \A i, j \in 1..n : E[i].key = E[j].key => i = j
  BY EntriesFacts, Zenon
<1>2. ASSUME NEW p \in P
      PROVE  \E i \in 1..n : p = Property(E[i].key, f[E[i].value]) /\ p.key = E[i].key
  <2>1. PICK i \in DOMAIN E : p = Property(E[i].key, f[E[i].value])
    BY Zenon DEF Applied
  <2>2. Property(E[i].key, f[E[i].value]).key = E[i].key
    BY RecordFields, Zenon
  <2>3. p.key = E[i].key
    BY <2>1, <2>2, Zenon
  <2> QED  BY <1>1, <2>1, <2>3, Zenon
<1>3. Keyed(P)
  <2> HIDE DEF P
  <2>1. \A p \in P : p.key \in JsonKeys
    BY <1>1, <1>2, Zenon
  <2>2. ASSUME NEW p \in P, NEW q \in P, p.key = q.key  PROVE p = q
    <3>1. PICK i \in 1..n : p = Property(E[i].key, f[E[i].value]) /\ p.key = E[i].key
      BY <1>2, Zenon
    <3>2. PICK j \in 1..n : q = Property(E[j].key, f[E[j].value]) /\ q.key = E[j].key
      BY <1>2, Zenon
    <3>3. i = j
      BY <1>1, <2>2, <3>1, <3>2, Zenon
    <3> QED  BY <3>1, <3>2, <3>3, Zenon
  <2> QED  BY <2>1, <2>2, Zenon DEF Keyed
<1>4. s \in [1..n -> P] /\ \A p \in P : \E i \in 1..n : s[i] = p
  BY <1>1, Zenon DEF Applied
<1>5. OneToOne(s, n)
  <2>1. \A i \in 1..n : s[i].key = E[i].key
    BY RecordFields, Zenon
  <2> HIDE DEF s
  <2> QED  BY <1>1, <2>1, Zenon DEF OneToOne
<1>6. IsFiniteSet(P) /\ Cardinality(P) = n
  <2> HIDE DEF P, s, n
  <2> QED  BY <1>1, <1>4, <1>5, Counted, Zenon
<1> QED  BY <1>3, <1>6, Zenon

\* The keys in the order of sort.
LEMMA SortedKeysFacts ==
  ASSUME NEW B, NEW E, IsEntries(E, B)
  PROVE  LET K == {E[i].key : i \in DOMAIN E}
         IN  K \subseteq JsonKeys /\ Lists(SortedKeys(E), Len(E), K, ByUnit(K))
<1> DEFINE K == {E[i].key : i \in DOMAIN E}
           n == Len(E)
           s == [i \in 1..n |-> E[i].key]
<1>1. /\ n \in Nat /\ DOMAIN E = 1..n
      /\ \A i \in 1..n : E[i].key \in JsonKeys
      /\ \A i, j \in 1..n : E[i].key = E[j].key => i = j
  BY EntriesFacts, Zenon
<1>2. K \subseteq JsonKeys
  BY <1>1, Zenon
<1>3. s \in [1..n -> K] /\ (\A k \in K : \E i \in 1..n : s[i] = k) /\ OneToOne(s, n)
  BY <1>1, Zenon DEF OneToOne
<1>4. SortedKeys(E) = InOrder(K, ByUnit(K))
  BY Zenon DEF SortedKeys, ByUnit
<1> HIDE DEF K, s, n
<1>5. IsFiniteSet(K) /\ Cardinality(K) = n
  BY <1>1, <1>3, Counted, Zenon
<1>6. IsOrder(K, ByUnit(K))
  BY <1>2, ByUnitIsOrder, Zenon
<1>7. Lists(SortedKeys(E), n, K, ByUnit(K))
  BY <1>4, <1>5, <1>6, InOrderLists, Zenon
<1> QED  BY <1>2, <1>7, Zenon DEF K, n

\* The properties inserted in the order of sort, and then in property order.
LEMMA InsertedLists ==
  ASSUME NEW B, NEW E, IsEntries(E, B), NEW f
  PROVE  \E s : /\ Inserted([i \in DOMAIN SortedKeys(E) |->
                             Property(SortedKeys(E)[i], f[ValueOf(E, SortedKeys(E)[i])])]) = Object(s)
                /\ Lists(s, Len(E), Applied(E, f), WrittenBefore(Applied(E, f)))
<1> DEFINE K == {E[i].key : i \in DOMAIN E}
           P == Applied(E, f)
<1>0. PICK n \in Nat : n = Len(E)
  BY EntriesFacts, Zenon
<1>1. /\ DOMAIN E = 1..n
      /\ \A i \in 1..n : E[i].key \in JsonKeys
      /\ \A i \in 1..n : ValueOf(E, E[i].key) = E[i].value
  BY <1>0, EntriesFacts, Zenon
<1>2. PICK keys : keys = SortedKeys(E) /\ K \subseteq JsonKeys /\ Lists(keys, n, K, ByUnit(K))
  BY <1>0, SortedKeysFacts, Zenon
<1>3. \A i \in 1..n : E[i].key \in K
  BY <1>1, Zenon
<1>4. \A k \in K : \E i \in 1..n : E[i].key = k
  BY <1>1, Zenon
<1> HIDE DEF K
<1>5. /\ keys \in [1..n -> JsonKeys] /\ DOMAIN keys = 1..n
      /\ \A i \in 1..n : keys[i] \in K
      /\ \A k \in K : \E i \in 1..n : keys[i] = k
      /\ \A i, j \in 1..n : i < j => keys[i].unit < keys[j].unit
  <2>1. keys \in [1..n -> K]
    BY <1>2, Zenon DEF Lists
  <2>2. \A i, j \in 1..n : i < j => keys[i].unit < keys[j].unit
    BY <1>2, <2>1, OrderMembers, Zenon DEF Lists
  <2>3. \A k \in K : \E i \in 1..n : keys[i] = k
    BY <1>2, Zenon DEF Lists
  <2> QED  BY <1>2, <2>1, <2>2, <2>3, Zenon
<1>6. OneToOne(keys, n)
  <2>1. IsOrder(K, ByUnit(K))
    BY <1>2, ByUnitIsOrder, Zenon
  <2> QED  BY <1>2, <2>1, ListIsInjective, Zenon
<1> DEFINE props == [i \in 1..n |-> Property(keys[i], f[ValueOf(E, keys[i])])]
           order == InOrder(1..n, ByPlace(keys, n))
           s == [i \in 1..n |-> props[order[i]]]
<1>7. \A i \in 1..n : props[i] \in P /\ props[i].key = keys[i]
  <2>1. ASSUME NEW i \in 1..n  PROVE props[i] \in P /\ props[i].key = keys[i]
    <3>1. PICK j \in 1..n : E[j].key = keys[i]
      BY <1>4, <1>5, Zenon
    <3>2. props[i] = Property(E[j].key, f[E[j].value])
      BY <1>1, <3>1, Zenon
    <3>3. props[i] \in P
      <4> HIDE DEF props
      <4> QED  BY <1>1, <3>2, Zenon DEF Applied
    <3>4. props[i].key = keys[i]
      BY RecordFields, Zenon
    <3> QED  BY <3>3, <3>4, Zenon
  <2> QED  BY <2>1, Zenon
<1>8. \A p \in P : \E i \in 1..n : props[i] = p
  <2>1. ASSUME NEW p \in P  PROVE \E i \in 1..n : props[i] = p
    <3>1. PICK j \in 1..n : p = Property(E[j].key, f[E[j].value])
      BY <1>1, Zenon DEF Applied
    <3>2. PICK i \in 1..n : keys[i] = E[j].key
      BY <1>3, <1>5, Zenon
    <3>3. props[i] = p
      BY <1>1, <3>1, <3>2, Zenon
    <3> QED  BY <3>3, Zenon
  <2> QED  BY <2>1, Zenon
<1>9. DOMAIN props = 1..n
  BY Zenon
<1>10. Inserted(props) = Object(s)
  <2>1. {p \in (DOMAIN props) \X (DOMAIN props) :
           Precedes(props[p[1]].key, p[1], props[p[2]].key, p[2])} = ByPlace(keys, n)
    <3>1. ASSUME NEW p \in (1..n) \X (1..n)
          PROVE  Precedes(props[p[1]].key, p[1], props[p[2]].key, p[2])
                   <=> Precedes(keys[p[1]], p[1], keys[p[2]], p[2])
      <4>1. p[1] \in 1..n /\ p[2] \in 1..n
        BY Zenon
      <4> HIDE DEF props
      <4> QED  BY <1>7, <4>1, Zenon
    <3> HIDE DEF props
    <3> QED  BY <1>9, <3>1, Zenon DEF ByPlace
  <2> HIDE DEF props
  <2> QED  BY <1>9, <2>1, Zenon DEF Inserted
<1>11. Inserted([i \in DOMAIN SortedKeys(E) |->
                   Property(SortedKeys(E)[i], f[ValueOf(E, SortedKeys(E)[i])])]) = Object(s)
  <2>1. [i \in DOMAIN SortedKeys(E) |->
           Property(SortedKeys(E)[i], f[ValueOf(E, SortedKeys(E)[i])])] = props
    BY <1>2, <1>5, Zenon
  <2> HIDE DEF props, s
  <2> QED  BY <1>10, <2>1, Zenon
<1>12. Lists(order, n, 1..n, ByPlace(keys, n))
  <2>1. IsOrder(1..n, ByPlace(keys, n))
    BY <1>5, <1>6, ByPlaceIsOrder, Zenon
  <2>2. IsFiniteSet(1..n) /\ Cardinality(1..n) = n
    <3>1. 1 \in Int /\ n \in Int
      BY SMT
    <3>2. IsFiniteSet(1..n) /\ Cardinality(1..n) = IF 1 > n THEN 0 ELSE n - 1 + 1
      BY <3>1, FS_Interval, Zenon
    <3> QED  BY <3>2, SMT
  <2> QED  BY <2>1, <2>2, InOrderLists, Zenon
<1> HIDE DEF order, props
<1>13. /\ order \in [1..n -> 1..n]
       /\ \A i \in 1..n : \E j \in 1..n : order[j] = i
       /\ \A i, j \in 1..n : i < j => Precedes(keys[order[i]], order[i], keys[order[j]], order[j])
  <2>1. order \in [1..n -> 1..n]
    BY <1>12, Zenon DEF Lists
  <2>2. \A i, j \in 1..n : i < j => <<order[i], order[j]>> \in ByPlace(keys, n)
    BY <1>12, Zenon DEF Lists
  <2>3. \A i, j \in 1..n : i < j => Precedes(keys[order[i]], order[i], keys[order[j]], order[j])
    BY <2>1, <2>2, OrderMembers, Zenon
  <2>4. \A i \in 1..n : \E j \in 1..n : order[j] = i
    BY <1>12, Zenon DEF Lists
  <2> QED  BY <2>1, <2>3, <2>4, Zenon
<1>14. s \in [1..n -> P] /\ \A p \in P : \E i \in 1..n : s[i] = p
  <2> HIDE DEF P
  <2>1. \A i \in 1..n : order[i] \in 1..n /\ props[order[i]] \in P
    BY <1>7, <1>13, Zenon
  <2>2. s \in [1..n -> P]
    BY <2>1, Zenon
  <2>3. ASSUME NEW p \in P  PROVE \E i \in 1..n : s[i] = p
    <3>1. PICK k \in 1..n : props[k] = p
      BY <1>8, Zenon
    <3>2. PICK i \in 1..n : order[i] = k
      BY <1>13, Zenon
    <3>3. s[i] = p
      BY <3>1, <3>2, Zenon
    <3> QED  BY <3>3, Zenon
  <2> QED  BY <2>2, <2>3, Zenon
<1>15. ASSUME NEW i \in 1..n, NEW j \in 1..n, i < j  PROVE <<s[i], s[j]>> \in WrittenBefore(P)
  <2>1. PICK a \in 1..n, b \in 1..n : a = order[i] /\ b = order[j]
    BY <1>13, Zenon
  <2>2. /\ s[i] \in P /\ s[j] \in P /\ s[i].key = keys[a] /\ s[j].key = keys[b]
        /\ Precedes(keys[a], a, keys[b], b)
    BY <1>7, <1>13, <1>14, <1>15, <2>1, Zenon
  <2>3. a < b => keys[a].unit < keys[b].unit
    BY <1>5, Zenon
  <2>4. Precedes(keys[a], keys[a].unit, keys[b], keys[b].unit)
    BY <2>2, <2>3, Zenon DEF Precedes
  <2> HIDE DEF s, P
  <2> QED  BY <2>2, <2>4, OrderMembers, Zenon
<1> HIDE DEF s
<1>16. Lists(s, n, P, WrittenBefore(P))
  <2> HIDE DEF P
  <2> QED  BY <1>14, <1>15, Zenon DEF Lists
<1> QED  BY <1>0, <1>11, <1>16, Zenon

\* The text of a set of properties.
LEMMA TextLists ==
  ASSUME NEW M, Keyed(M), IsFiniteSet(M), NEW f,
         NEW P, P = {Property(p.key, f[p.value]) : p \in M}
  PROVE  \E s : /\ TextFrom(Object(M), f) = Object(s)
                /\ Cardinality(M) \in Nat /\ Lists(s, Cardinality(M), P, WrittenBefore(P))
<1>1. PICK n \in Nat : n = Cardinality(M)
  BY FS_CardinalityType, Zenon
<1>2. PICK e : e = InOrder(M, WrittenBefore(M)) /\ Lists(e, n, M, WrittenBefore(M))
  BY <1>1, BeforeIsOrder, InOrderLists, Zenon
<1>3. /\ e \in [1..n -> M] /\ DOMAIN e = 1..n
      /\ \A p \in M : \E i \in 1..n : e[i] = p
      /\ \A i, j \in 1..n : i < j => <<e[i], e[j]>> \in WrittenBefore(M)
  BY <1>2, Zenon DEF Lists
<1> DEFINE s == [i \in 1..n |-> Property(e[i].key, f[e[i].value])]
<1>4. TextFrom(Object(M), f) = Object(s)
  <2>1. TextFrom(Object(M), f)
          = Object([i \in DOMAIN e |-> Property(e[i].key, f[e[i].value])])
    <3>1. Object(M).kind = "object" /\ Object(M).items = M /\ "object" # "array"
      BY RecordFields, Zenon
    <3> QED  BY <1>2, <3>1, Zenon DEF TextFrom, WrittenBefore
  <2> QED  BY <1>3, <2>1, Zenon
<1>5. s \in [1..n -> P] /\ \A p \in P : \E i \in 1..n : s[i] = p
  <2>1. s \in [1..n -> P]
    BY <1>3, Zenon
  <2>2. ASSUME NEW p \in P  PROVE \E i \in 1..n : s[i] = p
    <3>1. PICK q \in M : p = Property(q.key, f[q.value])
      BY Zenon
    <3>2. PICK i \in 1..n : e[i] = q
      BY <1>3, Zenon
    <3>3. s[i] = p
      BY <3>1, <3>2, Zenon
    <3> QED  BY <3>3, Zenon
  <2> QED  BY <2>1, <2>2, Zenon
<1>6. \A i \in 1..n : s[i].key = e[i].key
  BY RecordFields, Zenon
<1> HIDE DEF s
<1>7. ASSUME NEW i \in 1..n, NEW j \in 1..n, i < j  PROVE <<s[i], s[j]>> \in WrittenBefore(P)
  <2>1. e[i] \in M /\ e[j] \in M /\ <<e[i], e[j]>> \in WrittenBefore(M)
    BY <1>3, <1>7, Zenon
  <2>2. Precedes(e[i].key, e[i].key.unit, e[j].key, e[j].key.unit)
    BY <2>1, OrderMembers, Zenon
  <2>3. s[i] \in P /\ s[j] \in P /\ s[i].key = e[i].key /\ s[j].key = e[j].key
    BY <1>5, <1>6, Zenon
  <2> QED  BY <2>2, <2>3, OrderMembers, Zenon
<1>8. Lists(s, n, P, WrittenBefore(P))
  BY <1>5, <1>7, Zenon DEF Lists
<1> QED  BY <1>1, <1>4, <1>8, Zenon

-----------------------------------------------------------------------------
(* One level *)

\* What the functions of one level have to do with each other.
Agree(B, MB, c, mu, text) ==
  \A b \in B : c[b] \in B /\ mu[b] \in MB /\ text[mu[b]] = c[b] /\ mu[c[b]] = mu[b]

\* What their values for v have to do with each other.
AgreeOn(v, B, MB, c, mu, text) ==
  /\ CanonicalFrom(v, c) \in ValuesOver(B) /\ MeaningFrom(v, mu) \in MeaningsOver(MB)
  /\ TextFrom(MeaningFrom(v, mu), text) = CanonicalFrom(v, c)
  /\ MeaningFrom(CanonicalFrom(v, c), mu) = MeaningFrom(v, mu)

\* A value is a primitive, an array or an object.
LEMMA ValueCases ==
  ASSUME NEW B, NEW v \in ValuesOver(B)
  PROVE  \/ v.kind = "primitive" /\ \A MB : v \in MeaningsOver(MB)
         \/ v.kind = "array" /\ v.items \in Seq(B)
         \/ v.kind = "object" /\ IsEntries(v.items, B)
<1>1. CASE v \in [kind : {"primitive"}, items : Primitives]
  BY <1>1, Zenon DEF MeaningsOver, PrimitivesAndArrays
<1>2. CASE v \in [kind : {"array"}, items : Seq(B)]
  BY <1>2, Zenon
<1>3. CASE v \in {o \in [kind : {"object"}, items : Seq(Properties(B))] : KeysDiffer(o.items)}
  BY <1>3, Zenon DEF IsEntries
<1> QED  BY <1>1, <1>2, <1>3, Zenon DEF ValuesOver, PrimitivesAndArrays

\* The functions agree on an array when they do on its items.
LEMMA ArrayAgrees ==
  ASSUME NEW B, NEW MB, NEW c, NEW mu, NEW text, Agree(B, MB, c, mu, text),
         NEW v, v.kind = "array", v.items \in Seq(B)
  PROVE  AgreeOn(v, B, MB, c, mu, text)
<1>1. PICK n \in Nat : n = Len(v.items)
  BY SMT
<1>2. DOMAIN v.items = 1..n /\ \A i \in 1..n : v.items[i] \in B
  BY <1>1, SMT
<1> DEFINE C == [i \in 1..n |-> c[v.items[i]]]
           M == [i \in 1..n |-> mu[v.items[i]]]
<1>3. CanonicalFrom(v, c) = Array(C) /\ MeaningFrom(v, mu) = Array(M)
  BY <1>2, Zenon DEF CanonicalFrom, MeaningFrom
<1>4. DOMAIN C = 1..n /\ DOMAIN M = 1..n
  BY Zenon
<1>5. \A i \in 1..n : C[i] \in B /\ M[i] \in MB /\ text[M[i]] = C[i] /\ mu[C[i]] = M[i]
  BY <1>2, Zenon DEF Agree
<1>6. C = [i \in 1..n |-> C[i]] /\ M = [i \in 1..n |-> M[i]]
  BY Zenon
<1> HIDE DEF C, M
<1>7. C \in Seq(B) /\ M \in Seq(MB)
  <2>1. C \in [1..n -> B] /\ M \in [1..n -> MB]
    BY <1>5, <1>6, Zenon
  <2> QED  BY <2>1, SMT
<1>8. /\ Array(C).kind = "array" /\ Array(C).items = C
      /\ Array(M).kind = "array" /\ Array(M).items = M
  BY RecordFields, Zenon
<1>9. TextFrom(Array(M), text) = Array(C)
  <2>1. [i \in 1..n |-> text[M[i]]] = C
    BY <1>5, <1>6, Zenon
  <2>2. TextFrom(Array(M), text) = Array([i \in 1..n |-> text[M[i]]])
    BY <1>4, <1>8, Zenon DEF TextFrom
  <2> QED  BY <2>1, <2>2, Zenon
<1>10. MeaningFrom(Array(C), mu) = Array(M)
  <2>1. [i \in 1..n |-> mu[C[i]]] = M
    BY <1>5, <1>6, Zenon
  <2>2. MeaningFrom(Array(C), mu) = Array([i \in 1..n |-> mu[C[i]]])
    BY <1>4, <1>8, Zenon DEF MeaningFrom
  <2> QED  BY <2>1, <2>2, Zenon
<1>11. Array(C) \in ValuesOver(B) /\ Array(M) \in MeaningsOver(MB)
  BY <1>7, Zenon DEF Array, ValuesOver, MeaningsOver, PrimitivesAndArrays
<1> QED  BY <1>3, <1>9, <1>10, <1>11, Zenon DEF AgreeOn

\* The functions agree on an object when they do on its values: the text and
\* the object with its sorted keys inserted list the same properties in the
\* same order, and there is one such list.
LEMMA ObjectAgrees ==
  ASSUME NEW B, NEW MB, NEW c, NEW mu, NEW text, Agree(B, MB, c, mu, text),
         NEW v, v.kind = "object", IsEntries(v.items, B)
  PROVE  AgreeOn(v, B, MB, c, mu, text)
<1>1. PICK E : E = v.items /\ IsEntries(E, B)
  BY Zenon
<1>2. PICK n \in Nat : n = Len(E)
  BY <1>1, EntriesFacts, Zenon
<1>3. DOMAIN E = 1..n /\ \A i \in 1..n : E[i].key \in JsonKeys /\ E[i].value \in B
  BY <1>1, <1>2, EntriesFacts, Zenon
<1>4. PICK P : P = Applied(E, c)
  BY Zenon
<1>5. PICK M : M = Applied(E, mu)
  BY Zenon
<1>6. /\ Keyed(P) /\ IsFiniteSet(P) /\ Cardinality(P) = n
      /\ Keyed(M) /\ IsFiniteSet(M) /\ Cardinality(M) = n
  BY <1>1, <1>2, <1>4, <1>5, AppliedFacts, Zenon
<1>7. PICK s : /\ Inserted([i \in DOMAIN SortedKeys(E) |->
                            Property(SortedKeys(E)[i], c[ValueOf(E, SortedKeys(E)[i])])]) = Object(s)
               /\ Lists(s, n, P, WrittenBefore(P))
  BY <1>1, <1>2, <1>4, InsertedLists, Zenon
<1>8. CanonicalFrom(v, c) = Object(s)
  <2>1. v.kind # "array"
    BY Zenon
  <2> QED  BY <1>1, <1>7, <2>1, Zenon DEF CanonicalFrom
<1>9. MeaningFrom(v, mu) = Object(M)
  <2>1. v.kind # "array"
    BY Zenon
  <2> QED  BY <1>1, <1>5, <2>1, Zenon DEF MeaningFrom, Applied
<1>10. P = {Property(p.key, text[p.value]) : p \in M}
  <2>1. ASSUME NEW i \in 1..n
        PROVE  \A p : p = Property(E[i].key, mu[E[i].value])
                       => Property(p.key, text[p.value]) = Property(E[i].key, c[E[i].value])
    <3>1. text[mu[E[i].value]] = c[E[i].value]
      BY <1>3, Zenon DEF Agree
    <3>2. ASSUME NEW p, p = Property(E[i].key, mu[E[i].value])
          PROVE  Property(p.key, text[p.value]) = Property(E[i].key, c[E[i].value])
      <4>1. p.key = E[i].key /\ p.value = mu[E[i].value]
        BY <3>2, SMT DEF Property
      <4> QED  BY <3>1, <4>1, Zenon
    <3> QED  BY <3>2, Zenon
  <2>2. ASSUME NEW q \in P  PROVE q \in {Property(p.key, text[p.value]) : p \in M}
    <3>1. PICK i \in 1..n : q = Property(E[i].key, c[E[i].value])
      BY <1>3, <1>4, Zenon DEF Applied
    <3>2. Property(E[i].key, mu[E[i].value]) \in M
      BY <1>3, <1>5, Zenon DEF Applied
    <3> QED  BY <2>1, <3>1, <3>2, Zenon
  <2>3. ASSUME NEW p \in M  PROVE Property(p.key, text[p.value]) \in P
    <3>1. PICK i \in 1..n : p = Property(E[i].key, mu[E[i].value])
      BY <1>3, <1>5, Zenon DEF Applied
    <3>2. Property(E[i].key, c[E[i].value]) \in P
      BY <1>3, <1>4, Zenon DEF Applied
    <3> QED  BY <2>1, <3>1, <3>2, Zenon
  <2> QED  BY <2>2, <2>3, Zenon
<1>11. PICK t : TextFrom(Object(M), text) = Object(t) /\ Lists(t, n, P, WrittenBefore(P))
  BY <1>6, <1>10, TextLists, Zenon
<1>12. s = t
  <2>1. IsOrder(P, WrittenBefore(P))
    BY <1>6, BeforeIsOrder, Zenon
  <2>2. InOrder(P, WrittenBefore(P)) = s
    BY <1>7, <2>1, InOrderUnique, Zenon
  <2>3. InOrder(P, WrittenBefore(P)) = t
    BY <1>11, <2>1, InOrderUnique, Zenon
  <2> QED  BY <2>2, <2>3, Zenon
<1>13. /\ s \in [1..n -> P] /\ DOMAIN s = 1..n /\ \A p \in P : \E i \in 1..n : s[i] = p
  BY <1>7, Zenon DEF Lists
<1>14. MeaningFrom(Object(s), mu) = Object(M)
  <2>1. Object(s).kind = "object" /\ Object(s).items = s /\ "object" # "array"
    BY RecordFields, Zenon
  <2>2. MeaningFrom(Object(s), mu) = Object(Applied(s, mu))
    BY <2>1, Zenon DEF MeaningFrom, Applied
  <2>3. ASSUME NEW i \in 1..n
        PROVE  \A p : p = Property(E[i].key, c[E[i].value])
                       => Property(p.key, mu[p.value]) = Property(E[i].key, mu[E[i].value])
    <3>1. mu[c[E[i].value]] = mu[E[i].value]
      BY <1>3, Zenon DEF Agree
    <3>2. ASSUME NEW p, p = Property(E[i].key, c[E[i].value])
          PROVE  Property(p.key, mu[p.value]) = Property(E[i].key, mu[E[i].value])
      <4>1. p.key = E[i].key /\ p.value = c[E[i].value]
        BY <3>2, SMT DEF Property
      <4> QED  BY <3>1, <4>1, Zenon
    <3> QED  BY <3>2, Zenon
  <2>4. ASSUME NEW q \in M  PROVE q \in Applied(s, mu)
    <3>1. PICK i \in 1..n : q = Property(E[i].key, mu[E[i].value])
      BY <1>3, <1>5, Zenon DEF Applied
    <3>2. Property(E[i].key, c[E[i].value]) \in P
      BY <1>3, <1>4, Zenon DEF Applied
    <3>3. PICK k \in 1..n : s[k] = Property(E[i].key, c[E[i].value])
      BY <1>13, <3>2, Zenon
    <3>4. Property(s[k].key, mu[s[k].value]) = q
      BY <2>3, <3>1, <3>3, Zenon
    <3> QED  BY <1>13, <3>4, Zenon DEF Applied
  <2>5. ASSUME NEW q \in Applied(s, mu)  PROVE q \in M
    <3>1. PICK k \in 1..n : q = Property(s[k].key, mu[s[k].value])
      BY <1>13, Zenon DEF Applied
    <3>2. s[k] \in Applied(E, c)
      BY <1>4, <1>13, Zenon
    <3>3. PICK i \in 1..n : s[k] = Property(E[i].key, c[E[i].value])
      BY <1>3, <3>2, Zenon DEF Applied
    <3>4. q = Property(E[i].key, mu[E[i].value])
      BY <2>3, <3>1, <3>3, Zenon
    <3> QED  BY <1>3, <1>5, <3>4, Zenon DEF Applied
  <2>6. Applied(s, mu) = M
    BY <2>4, <2>5, Zenon
  <2> QED  BY <2>2, <2>6, Zenon
<1>15. Object(s) \in ValuesOver(B)
  <2>1. \A p \in P : p \in Properties(B)
    <3>1. ASSUME NEW p \in P  PROVE p \in Properties(B)
      <4>1. PICK i \in 1..n : p = Property(E[i].key, c[E[i].value])
        BY <1>3, <1>4, Zenon DEF Applied
      <4>2. c[E[i].value] \in B /\ E[i].key \in JsonKeys
        BY <1>3, Zenon DEF Agree
      <4> QED  BY <4>1, <4>2, Zenon DEF Property, Properties
    <3> QED  BY <3>1, Zenon
  <2>2. s \in [1..n -> Properties(B)]
    BY <1>13, <2>1, Zenon
  <2>3. s \in Seq(Properties(B))
    BY <2>2, SMT
  <2>4. KeysDiffer(s)
    <3>1. OneToOne(s, n)
      <4>1. IsOrder(P, WrittenBefore(P))
        BY <1>6, BeforeIsOrder, Zenon
      <4> QED  BY <1>7, <4>1, ListIsInjective, Zenon
    <3>2. \A i, j \in 1..n : s[i].key = s[j].key => s[i] = s[j]
      BY <1>6, <1>13, Zenon DEF Keyed
    <3>3. \A i, j \in 1..n : s[i] = s[j] => i = j
      BY <3>1, Zenon DEF OneToOne
    <3>4. \A i, j \in 1..n : s[i].key = s[j].key => i = j
      BY <3>2, <3>3, Zenon
    <3> QED  BY <1>13, <3>4, Zenon DEF KeysDiffer
  <2>5. Object(s) \in [kind : {"object"}, items : Seq(Properties(B))]
    BY <2>3, Zenon DEF Object
  <2>6. KeysDiffer(Object(s).items)
    BY <2>4, RecordFields, Zenon
  <2> QED  BY <2>5, <2>6, Zenon DEF ValuesOver
<1>16. Object(M) \in MeaningsOver(MB)
  <2>1. ASSUME NEW p \in M  PROVE p \in Properties(MB)
    <3>1. PICK i \in 1..n : p = Property(E[i].key, mu[E[i].value])
      BY <1>3, <1>5, Zenon DEF Applied
    <3>2. mu[E[i].value] \in MB /\ E[i].key \in JsonKeys
      BY <1>3, Zenon DEF Agree
    <3> QED  BY <3>1, <3>2, Zenon DEF Property, Properties
  <2>2. M \in SUBSET Properties(MB)
    BY <2>1, Zenon
  <2>3. Object(M) \in [kind : {"object"}, items : SUBSET Properties(MB)]
    BY <2>2, Zenon DEF Object
  <2> QED  BY <2>3, Zenon DEF MeaningsOver
<1> QED  BY <1>8, <1>9, <1>11, <1>12, <1>14, <1>15, <1>16, Zenon DEF AgreeOn

\* The functions for the values around B agree when the ones for B do.
LEMMA LevelAgrees ==
  ASSUME NEW B, NEW MB, NEW c, NEW mu, NEW text, Agree(B, MB, c, mu, text),
         NEW v \in ValuesOver(B)
  PROVE  AgreeOn(v, B, MB, c, mu, text)
<1>1. CASE v.kind = "primitive" /\ \A X : v \in MeaningsOver(X)
  <2>1. v.kind # "array" /\ v.kind # "object"
    BY <1>1, Zenon
  <2>2. CanonicalFrom(v, c) = v /\ MeaningFrom(v, mu) = v /\ TextFrom(v, text) = v
    BY <2>1, Zenon DEF CanonicalFrom, MeaningFrom, TextFrom
  <2> QED  BY <1>1, <2>2, Zenon DEF AgreeOn
<1>2. CASE v.kind = "array" /\ v.items \in Seq(B)
  BY <1>2, ArrayAgrees, Zenon
<1>3. CASE v.kind = "object" /\ IsEntries(v.items, B)
  BY <1>3, ObjectAgrees, Zenon
<1> QED  BY <1>1, <1>2, <1>3, ValueCases, Zenon

-----------------------------------------------------------------------------
(* All levels *)

\* The level below n of the levels u, ground below the lowest.
Below(u, n, ground) == IF n = 0 THEN ground ELSE u[n - 1]

\* The levels u up to m with one more level x on top.
OneMore(u, m, x) == [n \in 0..(m + 1) |-> IF n = m + 1 THEN x ELSE u[n]]

\* w has the levels of u up to m, and x on top.
IsOneMore(w, u, m, x) ==
  /\ w = [n \in 0..(m + 1) |-> w[n]] /\ m + 1 \in 0..(m + 1) /\ w[m + 1] = x
  /\ \A n \in 0..(m + 1) : n = m + 1 \/ n \in 0..m
  /\ \A n \in 0..m : w[n] = u[n]
  /\ \A g : Below(w, m + 1, g) = u[m]
  /\ \A g : \A n \in 0..m : Below(w, n, g) = Below(u, n, g)

\* One level more is one level more.
LEMMA OneMoreFacts ==
  ASSUME NEW u, NEW m \in Nat, NEW x
  PROVE  IsOneMore(OneMore(u, m, x), u, m, x)
<1> DEFINE w == OneMore(u, m, x)
<1>1. /\ m + 1 \in 0..(m + 1) /\ m + 1 # 0 /\ (m + 1) - 1 = m /\ m \in 0..m
      /\ \A n \in 0..m : n \in 0..(m + 1) /\ n # m + 1 /\ (n # 0 => n - 1 \in 0..m)
      /\ \A n \in 0..(m + 1) : n = m + 1 \/ n \in 0..m
  BY SMT
<1>2. w = [n \in 0..(m + 1) |-> w[n]] /\ w[m + 1] = x
  BY <1>1, Zenon DEF OneMore
<1>3. \A n \in 0..m : w[n] = u[n]
  BY <1>1, Zenon DEF OneMore
<1> HIDE DEF w
<1>4. \A g : Below(w, m + 1, g) = u[m]
  BY <1>1, <1>3, Zenon DEF Below
<1>5. \A g : \A n \in 0..m : Below(w, n, g) = Below(u, n, g)
  BY <1>1, <1>3, Zenon DEF Below
<1>6. IsOneMore(w, u, m, x)
  BY <1>1, <1>2, <1>3, <1>4, <1>5, Zenon DEF IsOneMore
<1> QED  BY <1>6, Zenon DEF w

\* The recursion of JsonValues has a solution.
LEMMA ValuesByLevel ==
  \A n \in 0..MaxNesting : JsonValues[n] = ValuesOver(Below(JsonValues, n, {}))
<1> DEFINE Up(u, m) == [n \in 0..m |-> ValuesOver(IF n = 0 THEN {} ELSE u[n - 1])]
           Level(n, nested) == ValuesOver(nested)
           u0 == CHOOSE u : u = Up(u, MaxNesting)
           T == {m \in Nat : \E u : u = Up(u, m)}
<1>1. \A u, m : Up(u, m) = [n \in 0..m |-> Level(n, Below(u, n, {}))]
  BY Zenon DEF Below
<1>2. 0 \in T
  <2>1. \A n : n \in 0..0 <=> n = 0
    BY SMT
  <2> DEFINE w == [n \in 0..0 |-> Level(n, {})]
  <2>2. \A n \in 0..0 : Below(w, n, {}) = {}
    BY <2>1, Zenon DEF Below
  <2> HIDE DEF Level, Up
  <2>3. w = Up(w, 0)
    BY <1>1, <2>2, Zenon
  <2>4. 0 \in Nat
    BY SMT
  <2> HIDE DEF w
  <2> QED  BY <2>3, <2>4, Zenon
<1>3. ASSUME NEW m \in Nat, m \in T  PROVE m + 1 \in T
  <2> HIDE DEF Up, Level
  <2>1. PICK u : u = Up(u, m)
    BY <1>3, Zenon
  <2>2. PICK w : IsOneMore(w, u, m, Level(m + 1, u[m]))
    BY OneMoreFacts, Zenon
  <2>3. ASSUME NEW n \in 0..(m + 1)  PROVE w[n] = Level(n, Below(w, n, {}))
    <3>1. CASE n = m + 1
      BY <2>2, <3>1, Zenon DEF IsOneMore
    <3>2. CASE n \in 0..m
      <4>1. u[n] = Level(n, Below(u, n, {}))
        BY <1>1, <2>1, <3>2, Zenon
      <4> QED  BY <2>2, <3>2, <4>1, Zenon DEF IsOneMore
    <3> QED  BY <2>2, <3>1, <3>2, Zenon DEF IsOneMore
  <2>4. w = Up(w, m + 1)
    <3>1. w = [n \in 0..(m + 1) |-> w[n]]
      BY <2>2, Zenon DEF IsOneMore
    <3> QED  BY <1>1, <2>3, <3>1, Zenon
  <2>5. m + 1 \in Nat
    BY SMT
  <2> QED  BY <2>4, <2>5, Zenon
<1>4. MaxNesting \in T
  <2> HIDE DEF T
  <2> QED  BY <1>2, <1>3, Induction, JsonAssumption, Zenon
<1>5. u0 = Up(u0, MaxNesting)
  <2> HIDE DEF Up
  <2> QED  BY <1>4, Zenon
<1>6. JsonValues = u0
  BY Zenon DEF JsonValues
<1> HIDE DEF u0
<1>7. \A n \in 0..MaxNesting : u0[n] = Level(n, Below(u0, n, {}))
  <2> HIDE DEF Up, Level
  <2> QED  BY <1>1, <1>5, Zenon
<1> QED  BY <1>6, <1>7, Zenon

\* The recursion of Meanings has a solution.
LEMMA MeaningsByLevel ==
  \A n \in 0..MaxNesting : Meanings[n] = MeaningsOver(Below(Meanings, n, {}))
<1> DEFINE Up(u, m) == [n \in 0..m |-> MeaningsOver(IF n = 0 THEN {} ELSE u[n - 1])]
           Level(n, nested) == MeaningsOver(nested)
           u0 == CHOOSE u : u = Up(u, MaxNesting)
           T == {m \in Nat : \E u : u = Up(u, m)}
<1>1. \A u, m : Up(u, m) = [n \in 0..m |-> Level(n, Below(u, n, {}))]
  BY Zenon DEF Below
<1>2. 0 \in T
  <2>1. \A n : n \in 0..0 <=> n = 0
    BY SMT
  <2> DEFINE w == [n \in 0..0 |-> Level(n, {})]
  <2>2. \A n \in 0..0 : Below(w, n, {}) = {}
    BY <2>1, Zenon DEF Below
  <2> HIDE DEF Level, Up
  <2>3. w = Up(w, 0)
    BY <1>1, <2>2, Zenon
  <2>4. 0 \in Nat
    BY SMT
  <2> HIDE DEF w
  <2> QED  BY <2>3, <2>4, Zenon
<1>3. ASSUME NEW m \in Nat, m \in T  PROVE m + 1 \in T
  <2> HIDE DEF Up, Level
  <2>1. PICK u : u = Up(u, m)
    BY <1>3, Zenon
  <2>2. PICK w : IsOneMore(w, u, m, Level(m + 1, u[m]))
    BY OneMoreFacts, Zenon
  <2>3. ASSUME NEW n \in 0..(m + 1)  PROVE w[n] = Level(n, Below(w, n, {}))
    <3>1. CASE n = m + 1
      BY <2>2, <3>1, Zenon DEF IsOneMore
    <3>2. CASE n \in 0..m
      <4>1. u[n] = Level(n, Below(u, n, {}))
        BY <1>1, <2>1, <3>2, Zenon
      <4> QED  BY <2>2, <3>2, <4>1, Zenon DEF IsOneMore
    <3> QED  BY <2>2, <3>1, <3>2, Zenon DEF IsOneMore
  <2>4. w = Up(w, m + 1)
    <3>1. w = [n \in 0..(m + 1) |-> w[n]]
      BY <2>2, Zenon DEF IsOneMore
    <3> QED  BY <1>1, <2>3, <3>1, Zenon
  <2>5. m + 1 \in Nat
    BY SMT
  <2> QED  BY <2>4, <2>5, Zenon
<1>4. MaxNesting \in T
  <2> HIDE DEF T
  <2> QED  BY <1>2, <1>3, Induction, JsonAssumption, Zenon
<1>5. u0 = Up(u0, MaxNesting)
  <2> HIDE DEF Up
  <2> QED  BY <1>4, Zenon
<1>6. Meanings = u0
  BY Zenon DEF Meanings
<1> HIDE DEF u0
<1>7. \A n \in 0..MaxNesting : u0[n] = Level(n, Below(u0, n, {}))
  <2> HIDE DEF Up, Level
  <2> QED  BY <1>1, <1>5, Zenon
<1> QED  BY <1>6, <1>7, Zenon

\* The calls of canonicalizeJsonValue, level by level.
CanonicalLevels(u) ==
  /\ \A n \in 0..MaxNesting : u[n] = [v \in JsonValues[n] |-> CanonicalFrom(v, Below(u, n, <<>>))]
  /\ \A v : canonicalizeJsonValue(v) = u[MaxNesting][v]

\* There are such levels: the recursion of canonicalizeJsonValue has a solution.
LEMMA CanonicalByLevel ==
  \E u : CanonicalLevels(u)
<1> DEFINE Up(u, m) == [n \in 0..m |->
             [v \in JsonValues[n] |-> CanonicalFrom(v, IF n = 0 THEN <<>> ELSE u[n - 1])]]
           Level(n, nested) == [v \in JsonValues[n] |-> CanonicalFrom(v, nested)]
           u0 == CHOOSE u : u = Up(u, MaxNesting)
           T == {m \in Nat : \E u : u = Up(u, m)}
<1>1. \A u, m : Up(u, m) = [n \in 0..m |-> Level(n, Below(u, n, <<>>))]
  BY Zenon DEF Below
<1>2. 0 \in T
  <2>1. \A n : n \in 0..0 <=> n = 0
    BY SMT
  <2> DEFINE w == [n \in 0..0 |-> Level(n, <<>>)]
  <2>2. \A n \in 0..0 : Below(w, n, <<>>) = <<>>
    BY <2>1, Zenon DEF Below
  <2> HIDE DEF Level, Up
  <2>3. w = Up(w, 0)
    BY <1>1, <2>2, Zenon
  <2>4. 0 \in Nat
    BY SMT
  <2> HIDE DEF w
  <2> QED  BY <2>3, <2>4, Zenon
<1>3. ASSUME NEW m \in Nat, m \in T  PROVE m + 1 \in T
  <2> HIDE DEF Up, Level
  <2>1. PICK u : u = Up(u, m)
    BY <1>3, Zenon
  <2>2. PICK w : IsOneMore(w, u, m, Level(m + 1, u[m]))
    BY OneMoreFacts, Zenon
  <2>3. ASSUME NEW n \in 0..(m + 1)  PROVE w[n] = Level(n, Below(w, n, <<>>))
    <3>1. CASE n = m + 1
      BY <2>2, <3>1, Zenon DEF IsOneMore
    <3>2. CASE n \in 0..m
      <4>1. u[n] = Level(n, Below(u, n, <<>>))
        BY <1>1, <2>1, <3>2, Zenon
      <4> QED  BY <2>2, <3>2, <4>1, Zenon DEF IsOneMore
    <3> QED  BY <2>2, <3>1, <3>2, Zenon DEF IsOneMore
  <2>4. w = Up(w, m + 1)
    <3>1. w = [n \in 0..(m + 1) |-> w[n]]
      BY <2>2, Zenon DEF IsOneMore
    <3> QED  BY <1>1, <2>3, <3>1, Zenon
  <2>5. m + 1 \in Nat
    BY SMT
  <2> QED  BY <2>4, <2>5, Zenon
<1>4. MaxNesting \in T
  <2> HIDE DEF T
  <2> QED  BY <1>2, <1>3, Induction, JsonAssumption, Zenon
<1>5. u0 = Up(u0, MaxNesting)
  <2> HIDE DEF Up
  <2> QED  BY <1>4, Zenon
<1>6. \A v : canonicalizeJsonValue(v) = u0[MaxNesting][v]
  BY Zenon DEF canonicalizeJsonValue
<1> HIDE DEF u0
<1>7. \A n \in 0..MaxNesting : u0[n] = Level(n, Below(u0, n, <<>>))
  <2> HIDE DEF Up, Level
  <2> QED  BY <1>1, <1>5, Zenon
<1>8. CanonicalLevels(u0)
  BY <1>6, <1>7, Zenon DEF CanonicalLevels
<1> QED  BY <1>8, Zenon

\* The same for what a value means.
MeaningLevels(u) ==
  /\ \A n \in 0..MaxNesting : u[n] = [v \in JsonValues[n] |-> MeaningFrom(v, Below(u, n, <<>>))]
  /\ \A v : Meaning(v) = u[MaxNesting][v]

\* There are such levels: the recursion of Meaning has a solution.
LEMMA MeaningByLevel ==
  \E u : MeaningLevels(u)
<1> DEFINE Up(u, m) == [n \in 0..m |->
             [v \in JsonValues[n] |-> MeaningFrom(v, IF n = 0 THEN <<>> ELSE u[n - 1])]]
           Level(n, nested) == [v \in JsonValues[n] |-> MeaningFrom(v, nested)]
           u0 == CHOOSE u : u = Up(u, MaxNesting)
           T == {m \in Nat : \E u : u = Up(u, m)}
<1>1. \A u, m : Up(u, m) = [n \in 0..m |-> Level(n, Below(u, n, <<>>))]
  BY Zenon DEF Below
<1>2. 0 \in T
  <2>1. \A n : n \in 0..0 <=> n = 0
    BY SMT
  <2> DEFINE w == [n \in 0..0 |-> Level(n, <<>>)]
  <2>2. \A n \in 0..0 : Below(w, n, <<>>) = <<>>
    BY <2>1, Zenon DEF Below
  <2> HIDE DEF Level, Up
  <2>3. w = Up(w, 0)
    BY <1>1, <2>2, Zenon
  <2>4. 0 \in Nat
    BY SMT
  <2> HIDE DEF w
  <2> QED  BY <2>3, <2>4, Zenon
<1>3. ASSUME NEW m \in Nat, m \in T  PROVE m + 1 \in T
  <2> HIDE DEF Up, Level
  <2>1. PICK u : u = Up(u, m)
    BY <1>3, Zenon
  <2>2. PICK w : IsOneMore(w, u, m, Level(m + 1, u[m]))
    BY OneMoreFacts, Zenon
  <2>3. ASSUME NEW n \in 0..(m + 1)  PROVE w[n] = Level(n, Below(w, n, <<>>))
    <3>1. CASE n = m + 1
      BY <2>2, <3>1, Zenon DEF IsOneMore
    <3>2. CASE n \in 0..m
      <4>1. u[n] = Level(n, Below(u, n, <<>>))
        BY <1>1, <2>1, <3>2, Zenon
      <4> QED  BY <2>2, <3>2, <4>1, Zenon DEF IsOneMore
    <3> QED  BY <2>2, <3>1, <3>2, Zenon DEF IsOneMore
  <2>4. w = Up(w, m + 1)
    <3>1. w = [n \in 0..(m + 1) |-> w[n]]
      BY <2>2, Zenon DEF IsOneMore
    <3> QED  BY <1>1, <2>3, <3>1, Zenon
  <2>5. m + 1 \in Nat
    BY SMT
  <2> QED  BY <2>4, <2>5, Zenon
<1>4. MaxNesting \in T
  <2> HIDE DEF T
  <2> QED  BY <1>2, <1>3, Induction, JsonAssumption, Zenon
<1>5. u0 = Up(u0, MaxNesting)
  <2> HIDE DEF Up
  <2> QED  BY <1>4, Zenon
<1>6. \A v : Meaning(v) = u0[MaxNesting][v]
  BY Zenon DEF Meaning
<1> HIDE DEF u0
<1>7. \A n \in 0..MaxNesting : u0[n] = Level(n, Below(u0, n, <<>>))
  <2> HIDE DEF Up, Level
  <2> QED  BY <1>1, <1>5, Zenon
<1>8. MeaningLevels(u0)
  BY <1>6, <1>7, Zenon DEF MeaningLevels
<1> QED  BY <1>8, Zenon

\* The same for the text of a meaning.
TextLevels(u) ==
  /\ \A n \in 0..MaxNesting : u[n] = [v \in Meanings[n] |-> TextFrom(v, Below(u, n, <<>>))]
  /\ \A v : TextOf(v) = u[MaxNesting][v]

\* There are such levels: the recursion of TextOf has a solution.
LEMMA TextByLevel ==
  \E u : TextLevels(u)
<1> DEFINE Up(u, m) == [n \in 0..m |->
             [v \in Meanings[n] |-> TextFrom(v, IF n = 0 THEN <<>> ELSE u[n - 1])]]
           Level(n, nested) == [v \in Meanings[n] |-> TextFrom(v, nested)]
           u0 == CHOOSE u : u = Up(u, MaxNesting)
           T == {m \in Nat : \E u : u = Up(u, m)}
<1>1. \A u, m : Up(u, m) = [n \in 0..m |-> Level(n, Below(u, n, <<>>))]
  BY Zenon DEF Below
<1>2. 0 \in T
  <2>1. \A n : n \in 0..0 <=> n = 0
    BY SMT
  <2> DEFINE w == [n \in 0..0 |-> Level(n, <<>>)]
  <2>2. \A n \in 0..0 : Below(w, n, <<>>) = <<>>
    BY <2>1, Zenon DEF Below
  <2> HIDE DEF Level, Up
  <2>3. w = Up(w, 0)
    BY <1>1, <2>2, Zenon
  <2>4. 0 \in Nat
    BY SMT
  <2> HIDE DEF w
  <2> QED  BY <2>3, <2>4, Zenon
<1>3. ASSUME NEW m \in Nat, m \in T  PROVE m + 1 \in T
  <2> HIDE DEF Up, Level
  <2>1. PICK u : u = Up(u, m)
    BY <1>3, Zenon
  <2>2. PICK w : IsOneMore(w, u, m, Level(m + 1, u[m]))
    BY OneMoreFacts, Zenon
  <2>3. ASSUME NEW n \in 0..(m + 1)  PROVE w[n] = Level(n, Below(w, n, <<>>))
    <3>1. CASE n = m + 1
      BY <2>2, <3>1, Zenon DEF IsOneMore
    <3>2. CASE n \in 0..m
      <4>1. u[n] = Level(n, Below(u, n, <<>>))
        BY <1>1, <2>1, <3>2, Zenon
      <4> QED  BY <2>2, <3>2, <4>1, Zenon DEF IsOneMore
    <3> QED  BY <2>2, <3>1, <3>2, Zenon DEF IsOneMore
  <2>4. w = Up(w, m + 1)
    <3>1. w = [n \in 0..(m + 1) |-> w[n]]
      BY <2>2, Zenon DEF IsOneMore
    <3> QED  BY <1>1, <2>3, <3>1, Zenon
  <2>5. m + 1 \in Nat
    BY SMT
  <2> QED  BY <2>4, <2>5, Zenon
<1>4. MaxNesting \in T
  <2> HIDE DEF T
  <2> QED  BY <1>2, <1>3, Induction, JsonAssumption, Zenon
<1>5. u0 = Up(u0, MaxNesting)
  <2> HIDE DEF Up
  <2> QED  BY <1>4, Zenon
<1>6. \A v : TextOf(v) = u0[MaxNesting][v]
  BY Zenon DEF TextOf
<1> HIDE DEF u0
<1>7. \A n \in 0..MaxNesting : u0[n] = Level(n, Below(u0, n, <<>>))
  <2> HIDE DEF Up, Level
  <2> QED  BY <1>1, <1>5, Zenon
<1>8. TextLevels(u0)
  BY <1>6, <1>7, Zenon DEF TextLevels
<1> QED  BY <1>8, Zenon

\* The canonical form, the meaning and the text of a meaning agree.
LEMMA CanonicalAgrees ==
  \A v \in JsonValues[MaxNesting] :
    /\ canonicalizeJsonValue(v) \in JsonValues[MaxNesting]
    /\ canonicalizeJsonValue(v) = TextOf(Meaning(v))
    /\ Meaning(canonicalizeJsonValue(v)) = Meaning(v)
<1>1. PICK c : CanonicalLevels(c)
  BY CanonicalByLevel, Zenon
<1>2. PICK mu : MeaningLevels(mu)
  BY MeaningByLevel, Zenon
<1>3. PICK text : TextLevels(text)
  BY TextByLevel, Zenon
<1> DEFINE Good(n) == Agree(JsonValues[n], Meanings[n], c[n], mu[n], text[n])
           T == {n \in Nat : n \in 0..MaxNesting => Good(n)}
<1>4. ASSUME NEW n \in 0..MaxNesting,
             Agree(Below(JsonValues, n, {}), Below(Meanings, n, {}), Below(c, n, <<>>),
                   Below(mu, n, <<>>), Below(text, n, <<>>))
      PROVE  Good(n)
  <2>1. PICK B : B = Below(JsonValues, n, {})
    BY Zenon
  <2>2. PICK MB : MB = Below(Meanings, n, {})
    BY Zenon
  <2>3. PICK cb : cb = Below(c, n, <<>>)
    BY Zenon
  <2>4. PICK mb : mb = Below(mu, n, <<>>)
    BY Zenon
  <2>5. PICK tb : tb = Below(text, n, <<>>)
    BY Zenon
  <2>6. JsonValues[n] = ValuesOver(B) /\ Meanings[n] = MeaningsOver(MB)
    BY <2>1, <2>2, ValuesByLevel, MeaningsByLevel, Zenon
  <2>7. Agree(B, MB, cb, mb, tb)
    BY <1>4, <2>1, <2>2, <2>3, <2>4, <2>5, Zenon
  <2>8. /\ \A v \in ValuesOver(B) : c[n][v] = CanonicalFrom(v, cb)
        /\ \A v \in ValuesOver(B) : mu[n][v] = MeaningFrom(v, mb)
        /\ \A v \in MeaningsOver(MB) : text[n][v] = TextFrom(v, tb)
    <3>1. c[n] = [v \in ValuesOver(B) |-> CanonicalFrom(v, cb)]
      BY <1>1, <2>3, <2>6, Zenon DEF CanonicalLevels
    <3>2. mu[n] = [v \in ValuesOver(B) |-> MeaningFrom(v, mb)]
      BY <1>2, <2>4, <2>6, Zenon DEF MeaningLevels
    <3>3. text[n] = [v \in MeaningsOver(MB) |-> TextFrom(v, tb)]
      BY <1>3, <2>5, <2>6, Zenon DEF TextLevels
    <3> QED  BY <3>1, <3>2, <3>3, Zenon
  <2>9. ASSUME NEW v \in ValuesOver(B)
        PROVE  /\ c[n][v] \in ValuesOver(B) /\ mu[n][v] \in MeaningsOver(MB)
               /\ text[n][mu[n][v]] = c[n][v] /\ mu[n][c[n][v]] = mu[n][v]
    <3>1. AgreeOn(v, B, MB, cb, mb, tb)
      BY <2>7, LevelAgrees, Zenon
    <3>2. PICK x : x = CanonicalFrom(v, cb)
      BY Zenon
    <3>3. PICK y : y = MeaningFrom(v, mb)
      BY Zenon
    <3>4. /\ x \in ValuesOver(B) /\ y \in MeaningsOver(MB)
          /\ TextFrom(y, tb) = x /\ MeaningFrom(x, mb) = y
      BY <3>1, <3>2, <3>3, Zenon DEF AgreeOn
    <3>5. c[n][v] = x /\ mu[n][v] = y
      BY <2>8, <3>2, <3>3, Zenon
    <3>6. text[n][y] = x /\ mu[n][x] = y
      BY <2>8, <3>4, Zenon
    <3> QED  BY <3>4, <3>5, <3>6, Zenon
  <2> QED  BY <2>6, <2>9, Zenon DEF Agree
<1>5. 0 \in T
  <2>1. Agree(Below(JsonValues, 0, {}), Below(Meanings, 0, {}), Below(c, 0, <<>>),
              Below(mu, 0, <<>>), Below(text, 0, <<>>))
    BY Zenon DEF Agree, Below
  <2>2. 0 \in Nat
    BY SMT
  <2> HIDE DEF Good
  <2> QED  BY <1>4, <2>1, <2>2, Zenon
<1>6. ASSUME NEW n \in Nat, n \in T  PROVE n + 1 \in T
  <2>1. n + 1 \in Nat /\ n + 1 # 0 /\ (n + 1) - 1 = n
    BY SMT
  <2>2. n + 1 \in 0..MaxNesting => n \in 0..MaxNesting
    BY JsonAssumption, SMT
  <2>3. Good(n) => Agree(Below(JsonValues, n + 1, {}), Below(Meanings, n + 1, {}),
              Below(c, n + 1, <<>>), Below(mu, n + 1, <<>>), Below(text, n + 1, <<>>))
    BY <2>1, Zenon DEF Below
  <2> HIDE DEF Good
  <2> QED  BY <1>4, <1>6, <2>1, <2>2, <2>3, Zenon
<1>7. MaxNesting \in T
  <2> HIDE DEF T
  <2> QED  BY <1>5, <1>6, Induction, JsonAssumption, Zenon
<1>8. MaxNesting \in 0..MaxNesting
  BY JsonAssumption, SMT
<1>9. Good(MaxNesting)
  <2> HIDE DEF Good
  <2> QED  BY <1>7, <1>8, Zenon
<1> QED  BY <1>1, <1>2, <1>3, <1>9, Zenon DEF Agree, CanonicalLevels, MeaningLevels, TextLevels

-----------------------------------------------------------------------------
(* The text *)

JsonInv ==
  /\ input \in Inputs
  /\ output # NoText => output = canonicalizeJsonValue(input)

\* Serialize keeps it.
LEMMA JsonInvHolds == JsonSpec => []JsonInv
<1>1. JsonInit => JsonInv
  BY Zenon DEF JsonInit, JsonInv
<1>2. ASSUME JsonInv, [Serialize]_jsonVars  PROVE JsonInv'
  <2>1. CASE Serialize
    BY <1>2, <2>1, Zenon DEF JsonInv, Serialize
  <2>2. CASE UNCHANGED jsonVars
    BY <1>2, <2>2, Zenon DEF JsonInv, jsonVars
  <2> QED  BY <1>2, <2>1, <2>2, Zenon
<1> QED  BY <1>1, <1>2, PTL DEF JsonSpec

\* The text serializeCanonicalJson returns is chosen by what the value means
\* and keeps that meaning.
THEOREM TextsAreCanonical == JsonSpec => []TextIsCanonical
<1>1. JsonInv => TextIsCanonical
  BY CanonicalAgrees, JsonAssumption, Zenon DEF JsonInv, TextIsCanonical
<1> QED  BY <1>1, JsonInvHolds, PTL

\* Two values have one canonical form exactly when they mean the same: equal
\* requests get one hash whatever order their keys arrive in, and different
\* ones are never taken for replays of each other.
THEOREM EqualTextsMeanTheSame ==
  \A v, w \in JsonValues[MaxNesting] :
    canonicalizeJsonValue(v) = canonicalizeJsonValue(w) <=> Meaning(v) = Meaning(w)
BY CanonicalAgrees, Zenon

\* Canonicalizing twice changes nothing.
THEOREM CanonicalIsStable ==
  \A v \in JsonValues[MaxNesting] :
    canonicalizeJsonValue(canonicalizeJsonValue(v)) = canonicalizeJsonValue(v)
BY CanonicalAgrees, Zenon
=============================================================================
