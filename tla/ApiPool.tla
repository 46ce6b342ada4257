------------------------------ MODULE ApiPool ------------------------------
(***************************************************************************)
(* The requests of one API process on its pool of PostgreSQL connections   *)
(* (`max`, `connectionTimeoutMillis`): creations of payment intents and    *)
(* webhooks run a transaction, reads a single query.  A transaction keeps  *)
(* its connection while its insert waits for the uncommitted row of        *)
(* another one with the same idempotency key, event id or nonce, so        *)
(* connections and unique index entries are waited for together.           *)
(*                                                                         *)
(* PaymentIntents and WebhookInbox have what the transactions store and    *)
(* answer.                                                                 *)
(***************************************************************************)
EXTENDS Naturals, Sequences

CONSTANTS
  Requests,
  Entries,      \* entries of unique indexes
  Incoming,     \* what requests may be
  Connections,  \* the connections the pool may open
  Nobody,
  MaxFaults

Request == [kind : {"transaction", "read"}, entries : SUBSET Entries]

ASSUME PoolAssumption ==
  /\ Incoming \subseteq Request
  /\ Connections # {}
  /\ Nobody \notin Requests
  /\ MaxFaults \in Nat

VARIABLES
  request,
  pc,      \* arrived, queued, insert, work, lookup, query, done
  then,    \* what a queued request goes on with
  queue,   \* pending requests of the pool, in order
  holder,  \* who has checked out a connection
  stored,  \* committed index entries
  reply,
  faults

poolVars == <<request, pc, then, queue, holder, stored, reply, faults>>

PoolInit ==
  /\ request \in [Requests -> Incoming]
  /\ pc = [r \in Requests |-> "arrived"]
  /\ then = [r \in Requests |-> "done"]
  /\ queue = <<>>
  /\ holder = [c \in Connections |-> Nobody]
  /\ stored = {}
  /\ reply = [r \in Requests |-> "none"]
  /\ faults = 0

-----------------------------------------------------------------------------
(* The pool *)

\* A request asks for a connection and goes on with `step` when it has one.
Connect(r, step) ==
  /\ queue' = Append(queue, r)
  /\ then' = [then EXCEPT ![r] = step]
  /\ pc' = [pc EXCEPT ![r] = "queued"]

Release(r) == holder' = [c \in Connections |-> IF holder[c] = r THEN Nobody ELSE holder[c]]

\* A free connection goes to the request that has waited longest.
Grant(c) ==
  /\ holder[c] = Nobody /\ queue # <<>>
  /\ holder' = [holder EXCEPT ![c] = Head(queue)]
  /\ pc' = [pc EXCEPT ![Head(queue)] = then[Head(queue)]]
  /\ queue' = Tail(queue)
  /\ UNCHANGED <<request, then, stored, reply, faults>>

\* The handler answers; its transaction is over and its connection free.
Respond(r, answer) ==
  /\ Release(r)
  /\ pc' = [pc EXCEPT ![r] = "done"]
  /\ reply' = [reply EXCEPT ![r] = answer]

Without(i) == [j \in 1..(Len(queue) - 1) |-> queue[IF j < i THEN j ELSE j + 1]]

\* connectionTimeoutMillis ends a place in the queue, which lasts that long only
\* while every connection is in use.
ConnectTimesOut(i) ==
  /\ \A c \in Connections : holder[c] # Nobody
  /\ queue' = Without(i)
  /\ Respond(queue[i], "unavailable")
  /\ UNCHANGED <<request, then, stored, faults>>

-----------------------------------------------------------------------------
(* The handlers *)

Arrive(r) ==
  /\ pc[r] = "arrived"
  /\ Connect(r, IF request[r].kind = "read" THEN "query" ELSE "insert")
  /\ UNCHANGED <<request, holder, stored, reply, faults>>

\* The uncommitted row of q makes the insert of r wait.
Blocks(q, r) ==
  /\ q # r /\ pc[q] = "work" /\ pc[r] = "insert"
  /\ request[q].entries \cap request[r].entries # {}

Blocked(r) == \E q \in Requests : Blocks(q, r)

\* Mutant of TryInsert: the lookup after a conflict uses the data source, and
\* with it a second connection, instead of the manager of the transaction.
TryInsertSecondConnection(r) ==
  /\ pc[r] = "insert" /\ ~Blocked(r)
  /\ IF request[r].entries \cap stored = {}
     THEN pc' = [pc EXCEPT ![r] = "work"] /\ UNCHANGED <<queue, then>>
     ELSE Connect(r, "lookup")
  /\ UNCHANGED <<request, holder, stored, reply, faults>>

\* tryInsertIdempotencyRecord, tryInsertWebhookEvent
TryInsert(r) ==
  /\ pc[r] = "insert" /\ ~Blocked(r)
  /\ pc' = [pc EXCEPT ![r] = IF request[r].entries \cap stored = {}
                             THEN "work" ELSE "lookup"]
  /\ UNCHANGED <<request, then, queue, holder, stored, reply, faults>>

\* The other statements of the transaction, and its commit.
Commit(r) ==
  /\ pc[r] = "work"
  /\ stored' = stored \cup request[r].entries
  /\ Respond(r, "created")
  /\ UNCHANGED <<request, then, queue, faults>>

\* Mutant of Lookup: a conflict is answered without giving the connection back.
LookupKeepsConnection(r) ==
  /\ pc[r] = "lookup"
  /\ pc' = [pc EXCEPT ![r] = "done"]
  /\ reply' = [reply EXCEPT ![r] = "existing"]
  /\ UNCHANGED <<request, then, queue, holder, stored, faults>>

\* replayOrRejectConflict
Lookup(r) ==
  /\ pc[r] = "lookup"
  /\ Respond(r, "existing")
  /\ UNCHANGED <<request, then, queue, stored, faults>>

\* getPaymentIntent
Query(r) ==
  /\ pc[r] = "query"
  /\ Respond(r, "read")
  /\ UNCHANGED <<request, then, queue, stored, faults>>

\* A statement fails: rollback, and a broken connection leaves the pool.
StatementFails(r) ==
  /\ pc[r] \in {"insert", "work", "lookup", "query"}
  /\ faults < MaxFaults /\ faults' = faults + 1
  /\ Respond(r, "unavailable")
  /\ UNCHANGED <<request, then, queue, stored>>

RequestStep(r) == Arrive(r) \/ TryInsert(r) \/ Commit(r) \/ Lookup(r) \/ Query(r)

PoolNext ==
  \/ \E r \in Requests : RequestStep(r) \/ StatementFails(r)
  \/ \E c \in Connections : Grant(c)
  \/ \E i \in 1..Len(queue) : ConnectTimesOut(i)

PoolSpec == PoolInit /\ [][PoolNext]_poolVars

FairSpec ==
  /\ PoolSpec
  /\ \A r \in Requests : WF_poolVars(RequestStep(r))
  /\ \A c \in Connections : WF_poolVars(Grant(c))

-----------------------------------------------------------------------------
(* Properties *)

Running == {"insert", "work", "lookup", "query"}

\* Every variable has its type.
PoolTypeOK ==
  /\ request \in [Requests -> Request]
  /\ pc \in [Requests -> Running \cup {"arrived", "queued", "done"}]
  /\ then \in [Requests -> {"insert", "lookup", "query", "done"}]
  /\ queue \in Seq(Requests)
  /\ holder \in [Connections -> Requests \cup {Nobody}]
  /\ stored \in SUBSET Entries
  /\ reply \in [Requests -> {"none", "created", "existing", "read", "unavailable"}]
  /\ faults \in 0..MaxFaults

\* On every path, errors included, a request holds one connection exactly while
\* one of its statements may run, and none before or after.
NoConnectionLeaks ==
  /\ \A c \in Connections : holder[c] # Nobody => pc[holder[c]] \in Running
  /\ \A c, d \in Connections : c # d /\ holder[c] # Nobody => holder[c] # holder[d]

CanGoOn(r) == r # Nobody /\ pc[r] \in Running /\ ~Blocked(r)

\* Whoever waits, for a connection or for the row of another transaction, waits
\* for a request that can go on: a full pool of transactions blocked on one key
\* never keeps the owner of the key from finishing, since no handler asks for a
\* second connection while it holds one.
NobodyStuck ==
  /\ queue # <<>> => \/ \E c \in Connections : holder[c] = Nobody
                     \/ \E c \in Connections : CanGoOn(holder[c])
  /\ \A r \in Requests : Blocked(r) =>
       \E c \in Connections : CanGoOn(holder[c]) /\ Blocks(holder[c], r)

\* Every request is answered without the help of a timeout.
EveryRequestEnds == \A r \in Requests : <>(pc[r] = "done")

=============================================================================
