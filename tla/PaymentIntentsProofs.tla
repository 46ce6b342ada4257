------------------------- MODULE PaymentIntentsProofs -------------------------
(***************************************************************************)
(* For any number of clients, keys and faults: a key owns one intent, and  *)
(* everyone who used it is told the same.                                  *)
(*                                                                         *)
(* The argument: whoever has inserted a key and not committed yet is alone *)
(* with it, no record has it, and the intent it has inserted is nobody     *)
(* else's.  So a commit adds one record and one intent, both new; records  *)
(* are never changed, and every answer points at one.                      *)
(***************************************************************************)
EXTENDS PaymentIntents, FiniteSetTheorems, TLAPS

\* What a transaction has written at each of its steps.
WorkInv ==
  \A c \in Clients :
    /\ pc[c] \notin {"saveRecord", "commit"} => own[c] = NoWrites
    /\ pc[c] \in {"saveRecord", "commit"} =>
         own[c].intent \in Snapshot /\ own[c].intent.body = request[c].body
    /\ pc[c] = "commit" => own[c].response = own[c].intent

\* The unique index on the key, uncommitted entries included.
KeyInv ==
  /\ \A a, b \in records : a.key = b.key => a = b
  /\ \A c \in Clients : Open(c) =>
       /\ RecordsOf(request[c].key) = {}
       /\ \A d \in Clients \ {c} : Open(d) => request[d].key # request[c].key

\* Ids are used once, those of uncommitted intents included.
IdInv ==
  /\ \A i, j \in intents : i.id = j.id => i = j
  /\ \A c \in Clients : own[c].intent # NoSnapshot =>
       /\ \A i \in intents : i.id # own[c].intent.id
       /\ \A d \in Clients \ {c} :
            own[d].intent # NoSnapshot => own[d].intent.id # own[c].intent.id

\* A committed record has the response of a committed intent.
RecordInv ==
  \A record \in records :
    /\ record.response # NoSnapshot
    /\ record.response.body = record.requestHash
    /\ \E i \in intents : i.id = record.response.id

\* A record bears witness of every answer.
AnswerInv ==
  \A c \in Clients :
    /\ answer[c].http \in {200, 201} =>
         \E record \in RecordsOf(request[c].key) :
           record.requestHash = request[c].body /\ record.response = answer[c].body
    /\ answer[c].http = 409 =>
         \E record \in RecordsOf(request[c].key) : record.requestHash # request[c].body
    /\ pc[c] = "replay" => RecordsOf(request[c].key) # {}
    /\ answer[c].http # 503
    /\ \A d \in Clients \ {c} :
         answer[c].http = 201 /\ answer[d].http = 201 => request[c].key # request[d].key

\* Records and intents are as many.
CountInv ==
  /\ IsFiniteSet(records)
  /\ IsFiniteSet(intents)
  /\ Cardinality(records) = Cardinality(intents)

IInv ==
  TypeOK /\ WorkInv /\ KeyInv /\ IdInv /\ RecordInv /\ AnswerInv /\ CountInv

\* A table with one more row.
LEMMA OneMore ==
  ASSUME NEW S, IsFiniteSet(S), NEW x, x \notin S
  PROVE  IsFiniteSet(S \cup {x}) /\ Cardinality(S \cup {x}) = Cardinality(S) + 1
  BY FS_AddElement

-----------------------------------------------------------------------------
(* The initial state and the steps of a request *)

\* No table has a row at first.
LEMMA InitInv == Init => IInv
<1> SUFFICES ASSUME Init PROVE IInv
  OBVIOUS
<1>1. TypeOK
  BY IntentsAssumption DEF Init, TypeOK, Answer, Workspace, NoWrites
<1>2. WorkInv /\ KeyInv /\ IdInv /\ RecordInv
  BY DEF Init, WorkInv, KeyInv, IdInv, RecordInv, Open, NoWrites
<1>3. AnswerInv
  BY DEF Init, AnswerInv
<1>4. CountInv
  BY FS_EmptySet DEF Init, CountInv
<1> QED
  BY <1>1, <1>2, <1>3, <1>4 DEF IInv

\* The insert of a key waits until it is alone with it.
LEMMA TryInsertInv ==
  ASSUME IInv, NEW c \in Clients, TryInsertIdempotencyRecord(c)
  PROVE  IInv'
<1> DEFINE step == IF RecordsOf(request[c].key) = {} THEN "saveIntent" ELSE "replay"
<1>1. /\ pc[c] = "insertRecord"
      /\ \A d \in Clients \ {c} : Open(d) => request[d].key # request[c].key
      /\ pc' = [pc EXCEPT ![c] = step]
      /\ UNCHANGED <<request, answer, records, intents, own, faults>>
  BY DEF TryInsertIdempotencyRecord, GoTo
<1>2. /\ step \in {"saveIntent", "replay"}
      /\ step = "saveIntent" <=> RecordsOf(request[c].key) = {}
  OBVIOUS
<1> HIDE DEF step
<1>3. pc'[c] = step /\ \A d \in Clients \ {c} : pc'[d] = pc[d]
  BY <1>1 DEF IInv, TypeOK
<1>4. TypeOK'
  BY <1>1, <1>2, <1>3 DEF IInv, TypeOK
<1>5. WorkInv'
  BY <1>1, <1>2, <1>3 DEF IInv, WorkInv
<1>6. KeyInv'
  BY <1>1, <1>2, <1>3 DEF IInv, KeyInv, Open, RecordsOf
<1>7. IdInv' /\ RecordInv' /\ CountInv'
  BY <1>1 DEF IInv, IdInv, RecordInv, CountInv
<1>8. AnswerInv'
  BY <1>1, <1>2, <1>3 DEF IInv, AnswerInv, RecordsOf
<1> QED
  BY <1>4, <1>5, <1>6, <1>7, <1>8 DEF IInv

\* The id of a new intent is nobody else's.
LEMMA SaveIntentInv ==
  ASSUME IInv, NEW c \in Clients, SaveIntent(c)
  PROVE  IInv'
<1>1. PICK id \in IntentIds :
        /\ Fresh(id)
        /\ own' = [own EXCEPT ![c].intent = [id |-> id, body |-> request[c].body,
                                             status |-> "CREATED"]]
  BY Zenon DEF SaveIntent
<1> DEFINE new == [id |-> id, body |-> request[c].body, status |-> "CREATED"]
<1>2. /\ pc[c] = "saveIntent" /\ pc' = [pc EXCEPT ![c] = "saveRecord"]
      /\ UNCHANGED <<request, answer, records, intents, faults>>
  BY DEF SaveIntent, GoTo
<1>3. new \in Snapshot /\ new.id = id /\ new.body = request[c].body /\ new # NoSnapshot
  BY IntentsAssumption DEF IInv, TypeOK, Snapshot, Request
<1>4. /\ own' \in [Clients -> Workspace]
      /\ own'[c].intent = new
      /\ \A d \in Clients \ {c} : own'[d] = own[d]
  BY <1>1, <1>3 DEF IInv, TypeOK, Workspace
<1> HIDE DEF new
<1>5. pc'[c] = "saveRecord" /\ \A d \in Clients \ {c} : pc'[d] = pc[d]
  BY <1>2 DEF IInv, TypeOK
<1>6. TypeOK'
  BY <1>2, <1>4, <1>5, Zenon DEF IInv, TypeOK
<1>7. WorkInv'
  BY <1>2, <1>3, <1>4, <1>5 DEF IInv, WorkInv
<1>8. KeyInv'
  BY <1>2, <1>5 DEF IInv, KeyInv, Open, RecordsOf
<1>9. IdInv'
  BY <1>1, <1>2, <1>3, <1>4 DEF IInv, IdInv, Fresh
<1>10. RecordInv' /\ CountInv'
  BY <1>2 DEF IInv, RecordInv, CountInv
<1>11. AnswerInv'
  BY <1>2, <1>5 DEF IInv, AnswerInv, RecordsOf
<1> QED
  BY <1>6, <1>7, <1>8, <1>9, <1>10, <1>11 DEF IInv

\* The response is the intent as it was inserted.
LEMMA SaveRecordInv ==
  ASSUME IInv, NEW c \in Clients, SaveRecord(c)
  PROVE  IInv'
<1>1. /\ pc[c] = "saveRecord" /\ pc' = [pc EXCEPT ![c] = "commit"]
      /\ own' = [own EXCEPT ![c].response = own[c].intent]
      /\ UNCHANGED <<request, answer, records, intents, faults>>
  BY DEF SaveRecord, GoTo
<1>2. /\ own' \in [Clients -> Workspace]
      /\ \A d \in Clients : own'[d].intent = own[d].intent
      /\ own'[c].response = own[c].intent
      /\ \A d \in Clients \ {c} : own'[d] = own[d]
  BY <1>1 DEF IInv, TypeOK, Workspace
<1>3. pc'[c] = "commit" /\ \A d \in Clients \ {c} : pc'[d] = pc[d]
  BY <1>1 DEF IInv, TypeOK
<1>4. TypeOK'
  BY <1>1, <1>2, <1>3 DEF IInv, TypeOK
<1>5. WorkInv'
  BY <1>1, <1>2, <1>3 DEF IInv, WorkInv
<1>6. KeyInv'
  BY <1>1, <1>3 DEF IInv, KeyInv, Open, RecordsOf
<1>7. IdInv' /\ RecordInv' /\ CountInv'
  BY <1>1, <1>2 DEF IInv, IdInv, RecordInv, CountInv
<1>8. AnswerInv'
  BY <1>1, <1>3 DEF IInv, AnswerInv, RecordsOf
<1> QED
  BY <1>4, <1>5, <1>6, <1>7, <1>8 DEF IInv

\* A replay finds the one record of its key, and answers from it.
LEMMA ReplayInv ==
  ASSUME IInv, NEW c \in Clients, ReplayOrRejectConflict(c)
  PROVE  IInv'
<1> DEFINE record == CHOOSE r \in RecordsOf(request[c].key) : TRUE
           reply == ReplayOf(record, request[c].body)
<1>1. /\ pc[c] = "replay" /\ pc' = [pc EXCEPT ![c] = "done"]
      /\ UNCHANGED <<request, records, intents, own, faults>>
  BY DEF ReplayOrRejectConflict, GoTo
<1>2. RecordsOf(request[c].key) # {}
  BY <1>1 DEF IInv, AnswerInv
<1>3. answer' = [answer EXCEPT ![c] = reply]
  BY <1>2, Zenon DEF ReplayOrRejectConflict
<1>4. record \in RecordsOf(request[c].key)
  BY <1>2
<1>5. record \in records /\ record.response # NoSnapshot /\ record.response \in Snapshot
  BY <1>4 DEF RecordsOf, IInv, RecordInv, TypeOK, Record
<1>6. /\ reply \in Answer
      /\ reply.http = 200 => record.requestHash = request[c].body /\ record.response = reply.body
      /\ reply.http = 409 => record.requestHash # request[c].body
      /\ reply.http \in {200, 409}
  BY <1>5 DEF ReplayOf, Answer
<1> HIDE DEF reply, record
<1>7. /\ answer'[c] = reply /\ pc'[c] = "done"
      /\ \A d \in Clients \ {c} : answer'[d] = answer[d] /\ pc'[d] = pc[d]
  BY <1>1, <1>3 DEF IInv, TypeOK
<1>8. TypeOK'
  BY <1>1, <1>3, <1>6, <1>7 DEF IInv, TypeOK
<1>9. WorkInv'
  BY <1>1, <1>7 DEF IInv, WorkInv
<1>10. KeyInv'
  BY <1>1, <1>7 DEF IInv, KeyInv, Open, RecordsOf
<1>11. IdInv' /\ RecordInv' /\ CountInv'
  BY <1>1 DEF IInv, IdInv, RecordInv, CountInv
<1>12. AnswerInv'
  BY <1>1, <1>4, <1>6, <1>7 DEF IInv, AnswerInv, RecordsOf
<1> QED
  BY <1>8, <1>9, <1>10, <1>11, <1>12 DEF IInv

\* A rollback forgets what the transaction has written.
LEMMA FailInv ==
  ASSUME IInv, NEW c \in Clients, Fail(c)
  PROVE  IInv'
<1>1. /\ pc[c] # "done" /\ faults < MaxFaults /\ faults' = faults + 1
      /\ own' = [own EXCEPT ![c] = NoWrites] /\ pc' = [pc EXCEPT ![c] = "insertRecord"]
      /\ UNCHANGED <<request, answer, records, intents>>
  BY DEF Fail, GoTo
<1>2. NoWrites \in Workspace /\ NoWrites.intent = NoSnapshot
  BY DEF NoWrites, Workspace
<1>3. /\ own'[c] = NoWrites /\ pc'[c] = "insertRecord"
      /\ \A d \in Clients \ {c} : own'[d] = own[d] /\ pc'[d] = pc[d]
  BY <1>1 DEF IInv, TypeOK
<1>4. TypeOK'
  <2>1. faults' \in 0..MaxFaults
    BY <1>1, IntentsAssumption DEF IInv, TypeOK
  <2> QED
    BY <1>1, <1>2, <1>3, <2>1 DEF IInv, TypeOK
<1>5. WorkInv'
  BY <1>1, <1>3 DEF IInv, WorkInv
<1>6. KeyInv'
  BY <1>1, <1>3 DEF IInv, KeyInv, Open, RecordsOf
<1>7. IdInv' /\ RecordInv' /\ CountInv'
  BY <1>1, <1>2, <1>3 DEF IInv, IdInv, RecordInv, CountInv
<1>8. AnswerInv'
  BY <1>1, <1>3 DEF IInv, AnswerInv, RecordsOf
<1> QED
  BY <1>4, <1>5, <1>6, <1>7, <1>8 DEF IInv

-----------------------------------------------------------------------------
(* Commits *)

\* A commit adds one record and one intent, both new, whether or not its answer
\* arrives.
LEMMA StoreInv ==
  ASSUME IInv, NEW c \in Clients, pc[c] = "commit", Store(c), request' = request,
         NEW step \in {"insertRecord", "done"}, pc' = [pc EXCEPT ![c] = step],
         faults' \in 0..MaxFaults,
         \/ step = "insertRecord" /\ answer' = answer
         \/ step = "done" /\ answer' = [answer EXCEPT ![c] =
                                          [http |-> 201, body |-> own[c].response]]
  PROVE  IInv'
<1> DEFINE record == [key |-> request[c].key, requestHash |-> request[c].body,
                      response |-> own[c].response]
           intent == own[c].intent
<1>1. /\ records' = records \cup {record}
      /\ intents' = intents \cup {intent}
      /\ own' = [own EXCEPT ![c] = NoWrites]
  BY DEF Store
<1>2. /\ intent \in Snapshot /\ intent # NoSnapshot
      /\ own[c].response = intent /\ intent.body = request[c].body
  BY IntentsAssumption DEF IInv, WorkInv
<1>3. request[c].key \in Keys /\ request[c].body \in Bodies
  BY DEF IInv, TypeOK, Request
<1>4. /\ record \in Record
      /\ record.key = request[c].key /\ record.requestHash = request[c].body
      /\ record.response = intent
  BY <1>2, <1>3 DEF Record
<1> HIDE DEF record, intent
<1>5. /\ own'[c] = NoWrites /\ pc'[c] = step
      /\ \A d \in Clients \ {c} : /\ own'[d] = own[d] /\ pc'[d] = pc[d]
                                  /\ answer'[d] = answer[d]
  BY <1>1 DEF IInv, TypeOK
<1>6. NoWrites \in Workspace /\ NoWrites.intent = NoSnapshot
  BY DEF NoWrites, Workspace
<1>7. TypeOK'
  <2>1. answer' \in [Clients -> Answer] /\ (pc'[c] = "done" <=> answer'[c].http # 0)
    <3>1. CASE step = "insertRecord"
      BY <1>5, <3>1 DEF IInv, TypeOK
    <3>2. CASE step = "done"
      <4>1. [http |-> 201, body |-> own[c].response] \in Answer
        BY <1>2 DEF Answer
      <4> QED
        BY <1>5, <3>2, <4>1 DEF IInv, TypeOK
    <3> QED
      BY <3>1, <3>2
  <2>2. records' \subseteq Record /\ intents' \subseteq Snapshot /\ own' \in [Clients -> Workspace]
    BY <1>1, <1>2, <1>4, <1>6 DEF IInv, TypeOK
  <2>3. pc' \in [Clients -> {"insertRecord", "saveIntent", "saveRecord", "commit", "replay",
                             "done"}]
    BY DEF IInv, TypeOK
  <2>4. \A d \in Clients : pc'[d] = "done" <=> answer'[d].http # 0
    BY <1>5, <2>1 DEF IInv, TypeOK
  <2> QED
    BY <2>1, <2>2, <2>3, <2>4 DEF IInv, TypeOK
<1>8. WorkInv'
  BY <1>5 DEF IInv, WorkInv
<1>9. Open(c) /\ RecordsOf(request[c].key) = {}
  BY DEF IInv, KeyInv, Open
<1>10. /\ \A r \in records : r.key # record.key
       /\ record \notin records
  BY <1>4, <1>9 DEF RecordsOf
<1>11. \A d \in Clients : RecordsOf(request[d].key)' =
         RecordsOf(request[d].key) \cup
           (IF request[d].key = request[c].key THEN {record} ELSE {})
  BY <1>1, <1>4 DEF RecordsOf
<1>12. KeyInv'
  <2>1. \A a, b \in records' : a.key = b.key => a = b
    BY <1>1, <1>10 DEF IInv, KeyInv
  <2>2. ASSUME NEW d \in Clients, Open(d)'
        PROVE  /\ RecordsOf(request[d].key)' = {}
               /\ \A e \in Clients \ {d} : Open(e)' => request[e].key # request[d].key
    <3>1. d # c /\ Open(d)
      BY <1>5, <2>2 DEF Open
    <3>2. /\ RecordsOf(request[d].key) = {}
          /\ \A e \in Clients \ {d} : Open(e) => request[e].key # request[d].key
      BY <3>1 DEF IInv, KeyInv
    <3>3. \A e \in Clients : Open(e)' => Open(e)
      BY <1>5 DEF Open
    <3> QED
      BY <1>9, <1>11, <3>1, <3>2, <3>3
  <2> QED
    BY <2>1, <2>2 DEF KeyInv
<1>13. \A i \in intents : i.id # intent.id
  BY <1>2 DEF IInv, IdInv, intent
<1>14. IdInv'
  <2>1. \A i, j \in intents' : i.id = j.id => i = j
    BY <1>1, <1>13 DEF IInv, IdInv
  <2>2. ASSUME NEW d \in Clients, own'[d].intent # NoSnapshot
        PROVE  /\ \A i \in intents' : i.id # own'[d].intent.id
               /\ \A e \in Clients \ {d} :
                    own'[e].intent # NoSnapshot => own'[e].intent.id # own'[d].intent.id
    <3>1. d # c /\ own'[d] = own[d]
      BY <1>5, <1>6, <2>2
    <3>2. /\ \A i \in intents : i.id # own[d].intent.id
          /\ \A e \in Clients \ {d} :
               own[e].intent # NoSnapshot => own[e].intent.id # own[d].intent.id
      BY <2>2, <3>1 DEF IInv, IdInv
    <3>3. intent.id # own[d].intent.id
      BY <1>2, <3>1, <3>2 DEF intent
    <3> QED
      BY <1>1, <1>5, <1>6, <3>1, <3>2, <3>3
  <2> QED
    BY <2>1, <2>2 DEF IdInv
<1>15. RecordInv'
  BY <1>1, <1>2, <1>4 DEF IInv, RecordInv
<1>16. AnswerInv'
  <2> SUFFICES ASSUME NEW d \in Clients
               PROVE  /\ answer'[d].http \in {200, 201} =>
                           \E r \in RecordsOf(request[d].key)' :
                             r.requestHash = request[d].body /\ r.response = answer'[d].body
                      /\ answer'[d].http = 409 =>
                           \E r \in RecordsOf(request[d].key)' : r.requestHash # request[d].body
                      /\ pc'[d] = "replay" => RecordsOf(request[d].key)' # {}
                      /\ answer'[d].http # 503
                      /\ \A e \in Clients \ {d} :
                           answer'[d].http = 201 /\ answer'[e].http = 201
                           => request[d].key # request[e].key
    BY SMTT(20) DEF AnswerInv
  <2>1. /\ answer[d].http \in {200, 201} =>
             \E r \in RecordsOf(request[d].key) :
               r.requestHash = request[d].body /\ r.response = answer[d].body
        /\ answer[d].http = 409 =>
             \E r \in RecordsOf(request[d].key) : r.requestHash # request[d].body
        /\ pc[d] = "replay" => RecordsOf(request[d].key) # {}
        /\ answer[d].http # 503
    BY DEF IInv, AnswerInv
  <2>2. CASE answer' = answer /\ step = "insertRecord"
    BY <1>5, <1>11, <2>1, <2>2, SMTT(20) DEF IInv, AnswerInv
  <2>3. CASE step = "done" /\ answer'[c] = [http |-> 201, body |-> own[c].response]
    <3>1. /\ record \in RecordsOf(request[c].key)' /\ record.requestHash = request[c].body
          /\ record.response = answer'[c].body /\ answer'[c].http = 201
      BY <1>2, <1>4, <1>11, <2>3
    <3>2. \A e \in Clients : answer[e].http = 201 => request[e].key # request[c].key
      BY <1>9 DEF IInv, AnswerInv
    <3>3. CASE d = c
      BY <1>5, <2>3, <3>1, <3>2, <3>3
    <3>4. CASE d # c
      <4>1. /\ answer'[d] = answer[d] /\ pc'[d] = pc[d]
            /\ RecordsOf(request[d].key) \subseteq RecordsOf(request[d].key)'
        BY <1>5, <1>11, <3>4
      <4>2. \A e \in Clients \ {d} : answer'[d].http = 201 /\ answer'[e].http = 201
                                    => request[d].key # request[e].key
        BY <1>5, <3>2, <3>4, <4>1, SMTT(20) DEF IInv, AnswerInv
      <4> QED
        BY <2>1, <4>1, <4>2
    <3> QED
      BY <3>3, <3>4
  <2> QED
    BY <2>2, <2>3 DEF IInv, TypeOK
<1>17. CountInv'
  <2>1. intent \notin intents
    BY <1>13
  <2>2. /\ IsFiniteSet(records \cup {record})
        /\ Cardinality(records \cup {record}) = Cardinality(records) + 1
    <3>1. IsFiniteSet(records)
      BY DEF IInv, CountInv
    <3> QED
      BY <1>10, <3>1, OneMore, Zenon
  <2>3. /\ IsFiniteSet(intents \cup {intent})
        /\ Cardinality(intents \cup {intent}) = Cardinality(intents) + 1
    <3>1. IsFiniteSet(intents)
      BY DEF IInv, CountInv
    <3> QED
      BY <2>1, <3>1, OneMore, Zenon
  <2> QED
    BY <1>1, <2>2, <2>3 DEF IInv, CountInv
<1> QED
  BY <1>7, <1>8, <1>12, <1>14, <1>15, <1>16, <1>17 DEF IInv

\* Confirming an intent changes neither its id nor the number of intents.
LEMMA ConfirmInv ==
  ASSUME IInv, NEW intent \in intents, Confirm(intent)
  PROVE  IInv'
<1> DEFINE after == [intent EXCEPT !.status = "CONFIRMED"]
<1>1. /\ intent.status = "CREATED" /\ intents' = (intents \ {intent}) \cup {after}
      /\ UNCHANGED <<request, pc, answer, records, own, faults>>
  BY DEF Confirm
<1>2. after \in Snapshot /\ after.id = intent.id
  BY DEF IInv, TypeOK, Snapshot
<1> HIDE DEF after
<1>3. TypeOK'
  BY <1>1, <1>2 DEF IInv, TypeOK
<1>4. WorkInv' /\ KeyInv' /\ AnswerInv'
  BY <1>1 DEF IInv, WorkInv, KeyInv, AnswerInv, Open, RecordsOf
<1>5. IdInv'
  BY <1>1, <1>2 DEF IInv, IdInv
<1>6. RecordInv'
  BY <1>1, <1>2 DEF IInv, RecordInv
<1>7. CountInv'
  <2>1. after \notin intents \ {intent}
    BY <1>2 DEF IInv, IdInv
  <2>2. /\ IsFiniteSet(intents \ {intent})
        /\ Cardinality(intents \ {intent}) = Cardinality(intents) - 1
    BY FS_RemoveElement DEF IInv, CountInv
  <2>3. /\ IsFiniteSet(intents')
        /\ Cardinality(intents') = Cardinality(intents \ {intent}) + 1
    BY <1>1, <2>1, <2>2, OneMore, Zenon
  <2>4. Cardinality(intents) \in Nat
    BY FS_CardinalityType DEF IInv, CountInv
  <2> QED
    BY <1>1, <2>2, <2>3, <2>4 DEF IInv, CountInv
<1> QED
  BY <1>3, <1>4, <1>5, <1>6, <1>7 DEF IInv

-----------------------------------------------------------------------------
(* The invariant and the properties *)

\* IInv is inductive.
LEMMA Invariance == Spec => []IInv
<1>1. ASSUME IInv, [Next]_vars PROVE IInv'
  <2>1. CASE UNCHANGED vars
    <3>1. TypeOK' /\ WorkInv' /\ IdInv' /\ RecordInv' /\ CountInv'
      BY <1>1, <2>1 DEF IInv, vars, TypeOK, WorkInv, IdInv, RecordInv, CountInv
    <3>2. KeyInv' /\ AnswerInv'
      BY <1>1, <2>1 DEF IInv, vars, KeyInv, AnswerInv, Open, RecordsOf
    <3> QED
      BY <3>1, <3>2 DEF IInv
  <2>2. ASSUME NEW c \in Clients, Step(c) PROVE IInv'
    <3>1. CASE Commit(c)
      BY <1>1, <3>1, StoreInv, Zenon DEF Commit, GoTo, IInv, TypeOK
    <3> QED
      BY <1>1, <2>2, <3>1, TryInsertInv, SaveIntentInv, SaveRecordInv, ReplayInv DEF Step
  <2>3. ASSUME NEW c \in Clients, CommitUnanswered(c) PROVE IInv'
    <3>1. faults' \in 0..MaxFaults
      BY <1>1, <2>3, IntentsAssumption DEF CommitUnanswered, IInv, TypeOK
    <3> QED
      BY <1>1, <2>3, <3>1, StoreInv, Zenon DEF CommitUnanswered, GoTo
  <2> QED
    BY <1>1, <2>1, <2>2, <2>3, FailInv, ConfirmInv DEF Next
<1> QED
  BY <1>1, InitInv, PTL DEF Spec

\* A key never exists without its outcome, and owns one intent: what
\* createPaymentIntent commits is one record and one intent per key, whatever
\* failed or was repeated.
THEOREM KeysOwnOneIntent == Spec => []OneIntentPerKey
<1>1. IInv => OneIntentPerKey
  <2> SUFFICES ASSUME IInv PROVE OneIntentPerKey
    OBVIOUS
  <2>1. ASSUME NEW record \in records
        PROVE  Cardinality({i \in intents : i.id = record.response.id}) = 1
    <3>1. PICK i \in intents : i.id = record.response.id
      BY DEF IInv, RecordInv
    <3>2. {j \in intents : j.id = record.response.id} = {i}
      BY <3>1 DEF IInv, IdInv
    <3> QED
      BY <3>2, FS_Singleton, Zenon
  <2> QED
    BY <2>1 DEF IInv, KeyInv, RecordInv, CountInv, OneIntentPerKey
<1> QED
  BY <1>1, Invariance, PTL

\* Everyone who used a key and was served got the response stored at creation,
\* and only who sent another body was refused.
THEOREM OneAnswerPerKey == Spec => []SameKeySameAnswer
<1>1. IInv => SameKeySameAnswer
  <2> SUFFICES ASSUME IInv, NEW c \in Clients, NEW d \in Clients,
                      request[c].key = request[d].key, answer[c].http \in {200, 201}
               PROVE  /\ answer[c].body.body = request[c].body
                      /\ answer[d].http \in {200, 201} => answer[d].body = answer[c].body
                      /\ answer[d].http = 409 => request[d].body # request[c].body
                      /\ c # d /\ answer[c].http = 201 => answer[d].http # 201
    BY DEF SameKeySameAnswer
  <2>1. PICK a \in RecordsOf(request[c].key) :
          a.requestHash = request[c].body /\ a.response = answer[c].body
    BY DEF IInv, AnswerInv
  <2>2. \A b \in RecordsOf(request[d].key) : b = a
    BY <2>1 DEF IInv, KeyInv, RecordsOf
  <2>3. answer[c].body.body = request[c].body
    BY <2>1 DEF IInv, RecordInv, RecordsOf
  <2>4. answer[d].http \in {200, 201} => answer[d].body = answer[c].body
    BY <2>1, <2>2 DEF IInv, AnswerInv
  <2>5. answer[d].http = 409 => request[d].body # request[c].body
    BY <2>1, <2>2 DEF IInv, AnswerInv
  <2>6. c # d /\ answer[c].http = 201 => answer[d].http # 201
    BY DEF IInv, AnswerInv
  <2> QED
    BY <2>3, <2>4, <2>5, <2>6
<1> QED
  BY <1>1, Invariance, PTL

\* No request is turned away with 503: the record that sent it to the replay is
\* there, with its response.
THEOREM ReplayFindsResponse == Spec => [](\A c \in Clients : answer[c].http # 503)
<1>1. IInv => \A c \in Clients : answer[c].http # 503
  BY DEF IInv, AnswerInv
<1> QED
  BY <1>1, Invariance, PTL

\* A record is never changed or deleted: the response a key has got is the one
\* it keeps.
THEOREM RecordsAreFinal == Spec => [][records \subseteq records']_vars
<1>1. [Next]_vars => [records \subseteq records']_vars
  BY DEF Next, vars, Step, TryInsertIdempotencyRecord, SaveIntent, SaveRecord, Commit, Store,
         ReplayOrRejectConflict, Fail, CommitUnanswered, Confirm
<1> QED
  BY <1>1, PTL DEF Spec
=============================================================================
