---------------------------- MODULE PaymentIntents ----------------------------
(***************************************************************************)
(* PaymentIntentsService: POST /payment-intents with an Idempotency-Key.   *)
(* Clients repeat a request whose answer they did not get, and concurrent  *)
(* requests share a key; meanwhile workers confirm created intents.        *)
(*                                                                         *)
(* The insert of the idempotency record waits for an uncommitted record    *)
(* with the same key (INSERT ... ON CONFLICT DO NOTHING) and then goes     *)
(* through or returns no row.                                              *)
(***************************************************************************)
EXTENDS Naturals, FiniteSets

CONSTANTS
  Clients,     \* clients, each with one request
  Keys,        \* values of Idempotency-Key
  Bodies,      \* canonical request payloads
  IntentIds,   \* ids the database may generate
  NoSnapshot,  \* a null response_body
  MaxFaults    \* bound on failed transactions and lost answers

Request == [key : Keys, body : Bodies]

\* PaymentIntentResponse: the row as it was when the snapshot was taken.
Snapshot == [id : IntentIds, body : Bodies, status : {"CREATED", "CONFIRMED"}]

ASSUME IntentsAssumption == NoSnapshot \notin Snapshot /\ MaxFaults \in Nat

\* requestHash is an injective image of the canonical payload.
Record == [key : Keys, requestHash : Bodies, response : Snapshot \cup {NoSnapshot}]

\* 201 created, 200 replayed, 409 IDEMPOTENCY_CONFLICT, 503 when the record or
\* its snapshot cannot be read; 0 before the first answer.
Answer == [http : {0, 200, 201, 409, 503}, body : Snapshot \cup {NoSnapshot}]

\* The rows an open transaction has inserted.
Workspace == [intent : Snapshot \cup {NoSnapshot}, response : Snapshot \cup {NoSnapshot}]

VARIABLES
  request,  \* what each client asks for
  pc,       \* how far the handler of the request has come
  answer,   \* the last answer the client has received
  records,  \* idempotency_records, committed
  intents,  \* payment_intents, committed
  own,      \* what the transaction of each request has written
  faults

vars == <<request, pc, answer, records, intents, own, faults>>

NoWrites == [intent |-> NoSnapshot, response |-> NoSnapshot]

Init ==
  /\ request \in [Clients -> Request]
  /\ pc = [c \in Clients |-> "insertRecord"]
  /\ answer = [c \in Clients |-> [http |-> 0, body |-> NoSnapshot]]
  /\ records = {}
  /\ intents = {}
  /\ own = [c \in Clients |-> NoWrites]
  /\ faults = 0

-----------------------------------------------------------------------------
(* createPaymentIntent *)

Open(c) == pc[c] \in {"saveIntent", "saveRecord", "commit"}

GoTo(c, step) == pc' = [pc EXCEPT ![c] = step]

RecordsOf(key) == {record \in records : record.key = key}

TryInsertIdempotencyRecord(c) ==
  /\ pc[c] = "insertRecord"
  /\ \A d \in Clients \ {c} : Open(d) => request[d].key # request[c].key
  /\ GoTo(c, IF RecordsOf(request[c].key) = {} THEN "saveIntent" ELSE "replay")
  /\ UNCHANGED <<request, answer, records, intents, own, faults>>

\* gen_random_uuid never repeats an id, not even one of an open transaction.
Fresh(id) ==
  /\ \A i \in intents : i.id # id
  /\ \A c \in Clients : own[c].intent # NoSnapshot => own[c].intent.id # id

\* Mutant of SaveIntent: the record is not completed with the response.
SaveIntentForgetsRecord(c) ==
  /\ pc[c] = "saveIntent"
  /\ \E id \in IntentIds :
       /\ Fresh(id)
       /\ own' = [own EXCEPT ![c].intent = [id |-> id, body |-> request[c].body,
                                            status |-> "CREATED"]]
  /\ GoTo(c, "commit")
  /\ UNCHANGED <<request, answer, records, intents, faults>>

SaveIntent(c) ==
  /\ pc[c] = "saveIntent"
  /\ \E id \in IntentIds :
       /\ Fresh(id)
       /\ own' = [own EXCEPT ![c].intent = [id |-> id, body |-> request[c].body,
                                            status |-> "CREATED"]]
  /\ GoTo(c, "saveRecord")
  /\ UNCHANGED <<request, answer, records, intents, faults>>

\* Mutant of SaveRecord: the record is read again through the data source, which
\* does not see what the transaction has inserted; findOneByOrFail throws, the
\* transaction rolls back and the client repeats the request.
SaveRecordOtherConnection(c) ==
  /\ pc[c] = "saveRecord"
  /\ IF RecordsOf(request[c].key) = {}
       THEN own' = [own EXCEPT ![c] = NoWrites] /\ GoTo(c, "insertRecord")
       ELSE own' = [own EXCEPT ![c].response = own[c].intent] /\ GoTo(c, "commit")
  /\ UNCHANGED <<request, answer, records, intents, faults>>

\* The record is read again, completed with the response and saved.
SaveRecord(c) ==
  /\ pc[c] = "saveRecord"
  /\ own' = [own EXCEPT ![c].response = own[c].intent]
  /\ GoTo(c, "commit")
  /\ UNCHANGED <<request, answer, records, intents, faults>>

Store(c) ==
  /\ records' = records \cup {[key |-> request[c].key,
                               requestHash |-> request[c].body,
                               response |-> own[c].response]}
  /\ intents' = intents \cup {own[c].intent}
  /\ own' = [own EXCEPT ![c] = NoWrites]

Commit(c) ==
  /\ pc[c] = "commit"
  /\ Store(c)
  /\ answer' = [answer EXCEPT ![c] = [http |-> 201, body |-> own[c].response]]
  /\ GoTo(c, "done")
  /\ UNCHANGED <<request, faults>>

\* Mutant of ReplayOf: the intent as it is now instead of the stored response.
ReplayLiveIntent(record, hash) ==
  IF record.requestHash # hash THEN [http |-> 409, body |-> NoSnapshot]
  ELSE [http |-> 200,
        body |-> CHOOSE intent \in intents : intent.id = record.response.id]

\* What replayOrRejectConflict answers for the record it has found.
ReplayOf(record, hash) ==
  IF record.requestHash # hash THEN [http |-> 409, body |-> NoSnapshot]
  ELSE IF record.response = NoSnapshot THEN [http |-> 503, body |-> NoSnapshot]
  ELSE [http |-> 200, body |-> record.response]

ReplayOrRejectConflict(c) ==
  /\ pc[c] = "replay"
  /\ LET found == RecordsOf(request[c].key) IN
       answer' = [answer EXCEPT ![c] =
         IF found = {} THEN [http |-> 503, body |-> NoSnapshot]
         ELSE ReplayOf(CHOOSE record \in found : TRUE, request[c].body)]
  /\ GoTo(c, "done")
  /\ UNCHANGED <<request, records, intents, own, faults>>

\* The transaction fails and rolls back; the client repeats the request.
Fail(c) ==
  /\ pc[c] # "done"
  /\ faults < MaxFaults
  /\ faults' = faults + 1
  /\ own' = [own EXCEPT ![c] = NoWrites]
  /\ GoTo(c, "insertRecord")
  /\ UNCHANGED <<request, answer, records, intents>>

\* The commit goes through but its answer is lost; the client repeats.
CommitUnanswered(c) ==
  /\ pc[c] = "commit"
  /\ faults < MaxFaults
  /\ faults' = faults + 1
  /\ Store(c)
  /\ GoTo(c, "insertRecord")
  /\ UNCHANGED <<request, answer>>

\* A worker confirms a created intent.
Confirm(intent) ==
  /\ intent.status = "CREATED"
  /\ intents' = (intents \ {intent}) \cup {[intent EXCEPT !.status = "CONFIRMED"]}
  /\ UNCHANGED <<request, pc, answer, records, own, faults>>

Step(c) ==
  \/ TryInsertIdempotencyRecord(c) \/ SaveIntent(c) \/ SaveRecord(c)
  \/ Commit(c) \/ ReplayOrRejectConflict(c)

Next ==
  \/ \E c \in Clients : Step(c) \/ Fail(c) \/ CommitUnanswered(c)
  \/ \E intent \in intents : Confirm(intent)

Spec == Init /\ [][Next]_vars

-----------------------------------------------------------------------------
(* Properties *)

\* Requests, tables and answers are well formed, and a handler ends exactly with
\* its answer.
TypeOK ==
  /\ request \in [Clients -> Request]
  /\ pc \in [Clients -> {"insertRecord", "saveIntent", "saveRecord", "commit",
                         "replay", "done"}]
  /\ answer \in [Clients -> Answer]
  /\ \A c \in Clients : pc[c] = "done" <=> answer[c].http # 0
  /\ records \subseteq Record
  /\ intents \subseteq Snapshot
  /\ own \in [Clients -> Workspace]
  /\ faults \in 0..MaxFaults

\* A key never exists without its outcome, and owns one intent: committed
\* records and committed intents correspond one to one, by key and by the id
\* in the stored response, whatever failed or was repeated.
OneIntentPerKey ==
  /\ TypeOK
  /\ \A a, b \in records : a.key = b.key => a = b
  /\ \A record \in records :
       /\ record.response # NoSnapshot
       /\ record.response.body = record.requestHash
       /\ Cardinality({i \in intents : i.id = record.response.id}) = 1
  /\ Cardinality(records) = Cardinality(intents)

\* Two clients that used one key and were both served got the same response,
\* the one stored at creation, even when the intent was confirmed in between.
\* Clients that were refused sent another body than the one that was served.
SameKeySameAnswer ==
  \A c, d \in Clients :
    /\ request[c].key = request[d].key
    /\ answer[c].http \in {200, 201}
    => /\ answer[c].body.body = request[c].body
       /\ answer[d].http \in {200, 201} => answer[d].body = answer[c].body
       /\ answer[d].http = 409 => request[d].body # request[c].body
       /\ c # d /\ answer[c].http = 201 => answer[d].http # 201

\* A handler that has started goes on.
FairSpec == Spec /\ \A c \in Clients : WF_vars(Step(c))

\* Every client is answered once the faults stop.
EveryClientAnswered == \A c \in Clients : <>[](pc[c] = "done")
=============================================================================
