------------------------ MODULE OutboxDispatcherProofs ------------------------
(***************************************************************************)
(* The outbox and the inbox agree, decisions are final and failures are    *)
(* counted one by one, for any number of rows, worker processes, jobs and  *)
(* failures.                                                               *)
(*                                                                         *)
(* The argument is about row locks.  What a batch commits was computed     *)
(* from the row it selected; it is right only because the committed row    *)
(* and its webhook event have not changed meanwhile (Draft), and that      *)
(* holds because no other batch has the row (Disjoint), no reconciliation  *)
(* or timer touches a locked row, and no worker runs the event of a row    *)
(* that is being marked QUEUED.                                            *)
(***************************************************************************)
EXTENDS OutboxDispatcher, TLAPS

\* Uncommitted versions of some of the rows.
Drafts == UNION {[S -> OutboxRow] : S \in SUBSET Rows}

Batch == [pc : {"idle", "loop", "mark"}, rows : Drafts, todo : SUBSET Rows,
          queued : SUBSET Rows]

Runs(m, r) == work[m].pc = "run" /\ work[m].row = r

\* What the loop of a batch may have made of a row.
Versions(row) ==
  {row, markPublished(row), markTransientFailure(row), markNonRetryableFailure(row)}

\* What batch b holds of its rows fits the committed tables.
Draft(b) ==
  \A r \in DOMAIN b.rows :
    /\ webhook[r] # "ABSENT" /\ ~outbox[r].dead /\ outbox[r].status # "PUBLISHED"
    /\ b.rows[r] \in Versions(outbox[r])
    /\ r \in b.todo => b.rows[r] = outbox[r]
    /\ b.rows[r].status = "PUBLISHED" => r \in b.queued \/ webhook[r] \in {"QUEUED", "DONE"}
    /\ r \in b.queued => /\ webhook[r] = "RECEIVED" /\ b.rows[r].status = "PUBLISHED"
                         /\ \A m \in Nodes : ~Runs(m, r)

DraftInv == \A n \in Nodes : Draft(batch[n])

\* SKIP LOCKED: no row is in two batches.
Disjoint ==
  \A n, m \in Nodes : n # m => DOMAIN batch[n].rows \cap DOMAIN batch[m].rows = {}

\* The committed tables.
TableInv ==
  \A r \in Rows :
    /\ outbox[r].status = "PUBLISHED" => webhook[r] \in {"QUEUED", "DONE"}
    /\ webhook[r] = "QUEUED" => outbox[r].status \in {"PUBLISHED", "FAILED"}
    /\ webhook[r] = "ABSENT" => outbox[r] = NewRow
    /\ outbox[r].dead => outbox[r].status = "FAILED" /\ outbox[r].due

\* A batch has selected a failed row only when its backoff was over.
DueInv == \A n \in Nodes : \A r \in DOMAIN batch[n].rows :
            outbox[r].status = "FAILED" => outbox[r].due

WorkInv == \A n \in Nodes : IF work[n].pc = "idle" THEN ~work[n].owned
                                                  ELSE work[n].row \in Rows

\* The inductive invariant (without what TLC cannot enumerate: the batches are in
\* [Nodes -> Batch]).
LocksInv == TypeOK /\ DraftInv /\ Disjoint /\ TableInv /\ DueInv /\ WorkInv

IInv == batch \in [Nodes -> Batch] /\ LocksInv

-----------------------------------------------------------------------------
(* Rows and drafts *)

\* What the three updates of the dispatcher do to a row.
LEMMA MarkFacts ==
  ASSUME NEW row \in OutboxRow
  PROVE  /\ Versions(row) \subseteq OutboxRow
         /\ markPublished(row).status = "PUBLISHED"
         /\ markPublished(row).attempts = row.attempts
         /\ markPublished(row).dead = row.dead
         /\ markTransientFailure(row).status = "FAILED"
         /\ markTransientFailure(row).attempts = row.attempts + 1
         /\ markTransientFailure(row).dead = FALSE
         /\ markNonRetryableFailure(row).status = "FAILED"
         /\ markNonRetryableFailure(row).attempts = row.attempts + 1
         /\ markNonRetryableFailure(row).due = TRUE
<1>1. row.attempts + 1 \in Nat
  BY DEF OutboxRow
<1>2. markPublished(row) \in OutboxRow
  BY Zenon DEF OutboxRow, markPublished
<1>3. markTransientFailure(row) \in OutboxRow
  BY <1>1, Zenon DEF OutboxRow, markTransientFailure
<1>4. markNonRetryableFailure(row) \in OutboxRow
  BY <1>1, Zenon DEF OutboxRow, markNonRetryableFailure
<1>5. /\ markPublished(row).status = "PUBLISHED"
      /\ markPublished(row).attempts = row.attempts
      /\ markPublished(row).dead = row.dead
  BY DEF OutboxRow, markPublished
<1>6. /\ markTransientFailure(row).status = "FAILED"
      /\ markTransientFailure(row).attempts = row.attempts + 1
      /\ markTransientFailure(row).dead = FALSE
  BY DEF OutboxRow, markTransientFailure
<1>7. /\ markNonRetryableFailure(row).status = "FAILED"
      /\ markNonRetryableFailure(row).attempts = row.attempts + 1
      /\ markNonRetryableFailure(row).due = TRUE
  BY DEF OutboxRow, markNonRetryableFailure
<1> QED
  BY <1>2, <1>3, <1>4, <1>5, <1>6, <1>7 DEF Versions

\* What a batch can make of a row that is not dead.
LEMMA VersionFacts ==
  ASSUME NEW row \in OutboxRow, ~row.dead, NEW v \in Versions(row)
  PROVE  /\ v \in OutboxRow
         /\ v.status \in {row.status, "PUBLISHED", "FAILED"}
         /\ v.dead => v.status = "FAILED" /\ v.due
         /\ v.attempts = row.attempts \/ (v.attempts = row.attempts + 1 /\ v.status = "FAILED")
<1>1. CASE v = row
  BY <1>1
<1>2. CASE v = markPublished(row)
  BY <1>2, MarkFacts, Zenon
<1>3. CASE v = markTransientFailure(row)
  BY <1>3, MarkFacts, Zenon
<1>4. CASE v = markNonRetryableFailure(row)
  BY <1>4, MarkFacts, Zenon
<1> QED
  BY <1>1, <1>2, <1>3, <1>4 DEF Versions

\* A draft is a function on some of the rows.
LEMMA DraftFacts ==
  ASSUME NEW f \in Drafts
  PROVE  DOMAIN f \subseteq Rows /\ f \in [DOMAIN f -> OutboxRow]
  BY DEF Drafts

\* Versions of some of the rows are a draft.
LEMMA DraftType ==
  ASSUME NEW S \in SUBSET Rows, NEW f \in [S -> OutboxRow]
  PROVE  f \in Drafts /\ DOMAIN f = S
  BY DEF Drafts

\* Writing one row of a draft.
LEMMA DraftWrite ==
  ASSUME NEW f \in Drafts, NEW r \in DOMAIN f, NEW row \in OutboxRow
  PROVE  LET g == [f EXCEPT ![r] = row]
         IN /\ g \in Drafts /\ DOMAIN g = DOMAIN f /\ g[r] = row
            /\ \A q \in DOMAIN f \ {r} : g[q] = f[q]
<1>1. DOMAIN f \subseteq Rows /\ f \in [DOMAIN f -> OutboxRow]
  BY DraftFacts
<1>2. [f EXCEPT ![r] = row] \in [DOMAIN f -> OutboxRow]
  BY <1>1
<1>3. [f EXCEPT ![r] = row] \in Drafts
  BY <1>1, <1>2, DraftType
<1> QED
  BY <1>1, <1>3

\* The parts of a batch.
LEMMA BatchFacts ==
  ASSUME NEW b \in Batch
  PROVE  /\ b.pc \in {"idle", "loop", "mark"} /\ b.rows \in Drafts
         /\ b.todo \subseteq Rows /\ b.queued \subseteq Rows
         /\ DOMAIN b = {"pc", "rows", "todo", "queued"}
         /\ DOMAIN b.rows \subseteq Rows /\ b.rows \in [DOMAIN b.rows -> OutboxRow]
<1>1. /\ b.pc \in {"idle", "loop", "mark"} /\ b.rows \in Drafts
      /\ b.todo \subseteq Rows /\ b.queued \subseteq Rows
      /\ DOMAIN b = {"pc", "rows", "todo", "queued"}
  BY DEF Batch
<1> QED
  BY <1>1, DraftFacts

\* A node without a batch has locked nothing.
LEMMA NoBatchFacts ==
  /\ NoBatch \in Batch
  /\ DOMAIN NoBatch.rows = {} /\ NoBatch.todo = {} /\ NoBatch.queued = {}
<1>1. [r \in {} |-> NewRow] \in [{} -> OutboxRow]
  OBVIOUS
<1>2. [r \in {} |-> NewRow] \in Drafts
  BY <1>1, DraftType, Zenon
<1> QED
  BY <1>2 DEF NoBatch, Batch

\* The first state.
LEMMA InitInv ==
  ASSUME Init
  PROVE  IInv
<1>1. /\ batch = [n \in Nodes |-> NoBatch] /\ batch \in [Nodes -> Batch]
  BY NoBatchFacts DEF Init
<1>2. \A n \in Nodes : batch[n].todo \cup batch[n].queued \subseteq DOMAIN batch[n].rows
  BY <1>1, NoBatchFacts
<1>3. NewRow \in OutboxRow /\ NewRow.status = "PENDING" /\ NewRow.dead = FALSE
  BY DEF NewRow, OutboxRow
<1>4. /\ webhook \in [Rows -> WebhookStatus] /\ outbox \in [Rows -> OutboxRow]
      /\ faults \in 0..MaxFaults
  BY <1>3, DispatcherAssumption DEF Init, WebhookStatus
<1>5. jobs \in [Rows -> [0..JobAttempts-1 -> Nat]]
  BY DEF Init
<1>6. work \in [Nodes -> Work]
  BY DispatcherAssumption DEF Init, NoWork, Work
<1>7. TypeOK
  <2>1. \A n \in Nodes : batch[n] \in Batch
    BY <1>1
  <2> QED
    BY <1>2, <1>4, <1>5, <1>6, <2>1, BatchFacts DEF TypeOK
<1>8. DraftInv /\ Disjoint /\ DueInv
  BY <1>1, NoBatchFacts DEF DraftInv, Draft, Disjoint, DueInv
<1>9. TableInv
  BY <1>3 DEF Init, TableInv
<1>10. WorkInv
  BY DEF Init, NoWork, WorkInv
<1> QED
  BY <1>1, <1>7, <1>8, <1>9, <1>10 DEF IInv, LocksInv

-----------------------------------------------------------------------------
(* Steps that leave the tables alone *)

\* A node's batch changes or ends, and jobs may: the hypotheses are what the
\* invariant asks of the new batch.
LEMMA BatchMoves ==
  ASSUME IInv, NEW n \in Nodes, NEW b \in Batch,
         b.todo \cup b.queued \subseteq DOMAIN b.rows,
         batch' = [batch EXCEPT ![n] = b], webhook' = webhook, outbox' = outbox,
         jobs' \in [Rows -> [0..JobAttempts-1 -> Nat]], work' \in [Nodes -> Work],
         faults' \in 0..MaxFaults, WorkInv',
         \A m \in Nodes, r \in Rows : Runs(m, r)' => Runs(m, r),
         Draft(b),
         \A r \in DOMAIN b.rows :
           /\ outbox[r].status = "FAILED" => outbox[r].due
           /\ \A m \in Nodes \ {n} : r \notin DOMAIN batch[m].rows
  PROVE  IInv'
<1>1. /\ batch \in [Nodes -> Batch] /\ batch' \in [Nodes -> Batch]
      /\ batch'[n] = b /\ \A m \in Nodes \ {n} : batch'[m] = batch[m]
  BY DEF IInv
<1>2. \A m \in Nodes : batch'[m].todo \cup batch'[m].queued \subseteq DOMAIN batch'[m].rows
  BY <1>1 DEF IInv, LocksInv, TypeOK
<1>3. TypeOK'
  <2>1. ASSUME NEW m \in Nodes
        PROVE  /\ DOMAIN batch'[m] = {"pc", "rows", "todo", "queued"}
               /\ batch'[m].pc \in {"idle", "loop", "mark"}
               /\ DOMAIN batch'[m].rows \subseteq Rows
               /\ \A r \in DOMAIN batch'[m].rows : batch'[m].rows[r] \in OutboxRow
               /\ batch'[m].todo \subseteq DOMAIN batch'[m].rows
               /\ batch'[m].queued \subseteq DOMAIN batch'[m].rows
    <3>1. batch'[m] \in Batch
      BY <1>1
    <3> QED
      BY <1>2, <3>1, BatchFacts
  <2>2. webhook' \in [Rows -> WebhookStatus] /\ outbox' \in [Rows -> OutboxRow]
    BY DEF IInv, LocksInv, TypeOK
  <2> QED
    BY <2>1, <2>2, Zenon DEF TypeOK
<1>4. DraftInv'
  <2> SUFFICES ASSUME NEW m \in Nodes
               PROVE  Draft(batch[m])'
    BY DEF DraftInv
  <2>1. Draft(batch'[m])
    BY <1>1 DEF IInv, LocksInv, DraftInv
  <2>2. DOMAIN batch'[m].rows \subseteq Rows
    BY <1>1, BatchFacts
  <2> QED
    BY <2>1, <2>2 DEF Draft
<1>5. Disjoint'
  BY <1>1 DEF IInv, LocksInv, Disjoint
<1>6. TableInv'
  BY DEF IInv, LocksInv, TableInv
<1>7. DueInv'
  BY <1>1 DEF IInv, LocksInv, DueInv
<1> QED
  BY <1>1, <1>3, <1>4, <1>5, <1>6, <1>7 DEF IInv, LocksInv

\* Only jobs and the workers change: a worker that starts to run an event has
\* locked it before.
LEMMA WorkMoves ==
  ASSUME IInv, batch' = batch, webhook' = webhook, outbox' = outbox,
         jobs' \in [Rows -> [0..JobAttempts-1 -> Nat]], work' \in [Nodes -> Work],
         faults' \in 0..MaxFaults, WorkInv',
         \A m \in Nodes, r \in Rows : Runs(m, r)' => Runs(m, r) \/ ~WebhookLocked(r)
  PROVE  IInv'
<1>1. TypeOK' /\ Disjoint' /\ TableInv' /\ DueInv' /\ batch' \in [Nodes -> Batch]
  BY DEF IInv, LocksInv, TypeOK, Disjoint, TableInv, DueInv
<1>2. DraftInv'
  <2> SUFFICES ASSUME NEW m \in Nodes, NEW r \in DOMAIN batch[m].rows, r \in batch[m].queued
               PROVE  \A k \in Nodes : ~Runs(k, r)'
    BY DEF IInv, LocksInv, DraftInv, Draft
  <2>1. r \in Rows /\ WebhookLocked(r) /\ \A k \in Nodes : ~Runs(k, r)
    BY DEF IInv, LocksInv, TypeOK, DraftInv, Draft, WebhookLocked
  <2> QED
    BY <2>1
<1> QED
  BY <1>1, <1>2 DEF IInv, LocksInv

\* What the lemmas below read off IInv.
LEMMA StateFacts ==
  ASSUME IInv, NEW n \in Nodes
  PROVE  /\ batch[n] \in Batch /\ Draft(batch[n])
         /\ batch[n].rows \in Drafts /\ DOMAIN batch[n].rows \subseteq Rows
         /\ batch[n].todo \cup batch[n].queued \subseteq DOMAIN batch[n].rows
         /\ \A r \in DOMAIN batch[n].rows :
              /\ outbox[r].status = "FAILED" => outbox[r].due
              /\ \A m \in Nodes \ {n} : r \notin DOMAIN batch[m].rows
         /\ jobs \in [Rows -> [0..JobAttempts-1 -> Nat]] /\ work \in [Nodes -> Work]
         /\ faults \in 0..MaxFaults /\ WorkInv
         /\ webhook \in [Rows -> WebhookStatus] /\ outbox \in [Rows -> OutboxRow]
<1>1. /\ batch[n] \in Batch /\ Draft(batch[n]) /\ WorkInv /\ TypeOK
  BY DEF IInv, LocksInv, DraftInv
<1>2. batch[n].rows \in Drafts /\ DOMAIN batch[n].rows \subseteq Rows
  BY <1>1, BatchFacts
<1>3. batch[n].todo \cup batch[n].queued \subseteq DOMAIN batch[n].rows
  BY <1>1 DEF TypeOK
<1>4. \A r \in DOMAIN batch[n].rows :
        /\ outbox[r].status = "FAILED" => outbox[r].due
        /\ \A m \in Nodes \ {n} : r \notin DOMAIN batch[m].rows
  BY DEF IInv, LocksInv, DueInv, Disjoint
<1> QED
  BY <1>1, <1>2, <1>3, <1>4 DEF TypeOK

\* Fault stays within its bound.
LEMMA FaultFacts ==
  ASSUME IInv, Fault
  PROVE  faults' \in 0..MaxFaults
  BY DispatcherAssumption DEF Fault, IInv, LocksInv, TypeOK

\* Jobs that a batch adds.
LEMMA AddJobsFacts ==
  ASSUME IInv, NEW r \in Rows, NEW k \in Nat, AddJobs(r, k)
  PROVE  jobs' \in [Rows -> [0..JobAttempts-1 -> Nat]]
<1>1. 0 \in 0..JobAttempts-1 /\ jobs \in [Rows -> [0..JobAttempts-1 -> Nat]]
  BY DispatcherAssumption DEF IInv, LocksInv, TypeOK
<1>2. jobs[r][0] + k \in Nat
  <2>1. jobs[r] \in [0..JobAttempts-1 -> Nat]
    BY <1>1
  <2>2. jobs[r][0] \in Nat
    BY <1>1, <2>1
  <2> QED
    BY <2>2
<1>3. jobs' = [jobs EXCEPT ![r] = [jobs[r] EXCEPT ![0] = jobs[r][0] + k]]
  BY DEF AddJobs
<1> QED
  BY <1>1, <1>2, <1>3

\* findEligibleEvents locks rows no other batch has.
LEMMA FindInv ==
  ASSUME IInv, NEW n \in Nodes, FindEligibleEvents(n)
  PROVE  IInv'
<1> DEFINE selected == Oldest({r \in Rows : Eligible(r)})
           b == [pc |-> "loop", rows |-> [r \in selected |-> outbox[r]],
                 todo |-> selected, queued |-> {}]
<1>1. selected \subseteq Rows /\ \A r \in selected : Eligible(r)
  BY DEF Oldest
<1>2. batch' = [batch EXCEPT ![n] = b] /\ UNCHANGED <<webhook, outbox, jobs, work, faults>>
  BY DEF FindEligibleEvents
<1> HIDE DEF selected
<1>3. [r \in selected |-> outbox[r]] \in [selected -> OutboxRow]
  BY <1>1 DEF IInv, LocksInv, TypeOK
<1>4. [r \in selected |-> outbox[r]] \in Drafts
  BY <1>1, <1>3, DraftType
<1>5. /\ b \in Batch /\ DOMAIN b.rows = selected /\ b.todo = selected /\ b.queued = {}
      /\ \A r \in selected : b.rows[r] = outbox[r]
  BY <1>1, <1>4 DEF Batch
<1> HIDE DEF b
<1>6. Draft(b)
  BY <1>1, <1>5 DEF Draft, Eligible, Versions
<1>7. \A r \in DOMAIN b.rows :
        /\ outbox[r].status = "FAILED" => outbox[r].due
        /\ \A m \in Nodes \ {n} : r \notin DOMAIN batch[m].rows
  BY <1>1, <1>5 DEF Eligible, OutboxLocked
<1>8. \A m \in Nodes, r \in Rows : Runs(m, r)' => Runs(m, r)
  BY <1>2 DEF Runs
<1>9. WorkInv'
  BY <1>2, StateFacts DEF WorkInv
<1> QED
  BY <1>2, <1>5, <1>6, <1>7, <1>8, <1>9, StateFacts, BatchMoves, Zenon

\* The loop writes the row it is at, and may leave later rows as they are.
LEMMA LoopWrites ==
  ASSUME IInv, NEW n \in Nodes, NEW r \in batch[n].todo,
         NEW v \in Versions(outbox[r]), NEW todo \in SUBSET (batch[n].todo \ {r}),
         NEW queued \in {batch[n].queued, batch[n].queued \cup {r}},
         v.status = "PUBLISHED" => r \in queued \/ webhook[r] \in {"QUEUED", "DONE"},
         r \in queued => webhook[r] = "RECEIVED" /\ v.status = "PUBLISHED"
                         /\ \A m \in Nodes : ~Runs(m, r),
         NEW b, batch' = [batch EXCEPT ![n] = b], b.rows \in Drafts => b \in Batch,
         b.rows = [batch[n].rows EXCEPT ![r] = v], b.todo = todo, b.queued = queued,
         UNCHANGED <<webhook, outbox, work>>, faults' \in 0..MaxFaults,
         jobs' \in [Rows -> [0..JobAttempts-1 -> Nat]]
  PROVE  IInv'
<1> DEFINE rows == [batch[n].rows EXCEPT ![r] = v]
<1>1. /\ batch[n] \in Batch /\ Draft(batch[n]) /\ batch[n].rows \in Drafts
      /\ DOMAIN batch[n].rows \subseteq Rows
      /\ batch[n].todo \cup batch[n].queued \subseteq DOMAIN batch[n].rows
      /\ outbox \in [Rows -> OutboxRow] /\ WorkInv /\ work \in [Nodes -> Work]
  BY StateFacts
<1>2. r \in DOMAIN batch[n].rows /\ outbox[r] \in OutboxRow
  BY <1>1
<1>3. v \in OutboxRow
  BY <1>2, MarkFacts, Zenon
<1>4. /\ rows \in Drafts /\ DOMAIN rows = DOMAIN batch[n].rows /\ rows[r] = v
      /\ \A q \in DOMAIN batch[n].rows \ {r} : rows[q] = batch[n].rows[q]
  BY <1>1, <1>2, <1>3, DraftWrite
<1> HIDE DEF rows
<1>5. todo \subseteq DOMAIN rows /\ queued \subseteq DOMAIN rows /\ DOMAIN rows \subseteq Rows
  BY <1>1, <1>2, <1>4
<1>6. b.rows = rows
  BY DEF rows
<1>7. b \in Batch /\ b.todo \cup b.queued \subseteq DOMAIN b.rows
  BY <1>4, <1>5, <1>6
<1>8. Draft(b)
  <2> SUFFICES ASSUME NEW q \in DOMAIN rows
               PROVE  /\ webhook[q] # "ABSENT" /\ ~outbox[q].dead
                      /\ outbox[q].status # "PUBLISHED"
                      /\ rows[q] \in Versions(outbox[q])
                      /\ q \in todo => rows[q] = outbox[q]
                      /\ rows[q].status = "PUBLISHED" =>
                           q \in queued \/ webhook[q] \in {"QUEUED", "DONE"}
                      /\ q \in queued => /\ webhook[q] = "RECEIVED"
                                         /\ rows[q].status = "PUBLISHED"
                                         /\ \A m \in Nodes : ~Runs(m, q)
    BY <1>6 DEF Draft
  <2>1. CASE q = r
    BY <1>1, <1>2, <1>4, <2>1 DEF Draft
  <2>2. CASE q # r
    BY <1>1, <1>4, <2>2 DEF Draft
  <2> QED
    BY <2>1, <2>2
<1>9. \A q \in DOMAIN b.rows :
        /\ outbox[q].status = "FAILED" => outbox[q].due
        /\ \A m \in Nodes \ {n} : q \notin DOMAIN batch[m].rows
  BY <1>4, <1>6, StateFacts
<1>10. WorkInv' /\ \A m \in Nodes, q \in Rows : Runs(m, q)' => Runs(m, q)
  BY <1>1 DEF WorkInv, Runs
<1> QED
  BY <1>1, <1>6, <1>7, <1>8, <1>9, <1>10, BatchMoves, Zenon

\* A row that fails: Poison, JobDataFails and PublishFails.
LEMMA FailureInv ==
  ASSUME IInv, NEW n \in Nodes, NEW r \in Rows,
         Poison(n, r) \/ JobDataFails(n, r) \/ PublishFails(n, r)
  PROVE  IInv'
<1>1. /\ batch[n] \in Batch /\ batch \in [Nodes -> Batch] /\ Draft(batch[n])
      /\ batch[n].todo \subseteq DOMAIN batch[n].rows /\ outbox \in [Rows -> OutboxRow]
      /\ jobs \in [Rows -> [0..JobAttempts-1 -> Nat]] /\ faults \in 0..MaxFaults
  BY StateFacts DEF IInv
<1>2. r \in batch[n].todo /\ batch[n].pc = "loop" /\ UNCHANGED <<webhook, outbox, work>>
  BY DEF Poison, JobDataFails, PublishFails, IsCurrent
<1>3. batch[n].rows[r] = outbox[r] /\ r \notin batch[n].queued /\ outbox[r] \in OutboxRow
  BY <1>1, <1>2 DEF Draft
<1>4. PICK v \in {markTransientFailure(outbox[r]), markNonRetryableFailure(outbox[r])},
           todo \in SUBSET (batch[n].todo \ {r}) :
        batch' = [batch EXCEPT ![n] = [batch[n] EXCEPT !.rows[r] = v, !.todo = todo]]
  <2>1. CASE Poison(n, r)
    BY <1>3, <2>1, Zenon DEF Poison
  <2>2. CASE JobDataFails(n, r)
    BY <1>3, <2>2, Zenon DEF JobDataFails
  <2>3. CASE PublishFails(n, r)
    BY <1>3, <2>3, Zenon DEF PublishFails
  <2> QED
    BY <2>1, <2>2, <2>3, Zenon
<1> DEFINE b == [batch[n] EXCEPT !.rows[r] = v, !.todo = todo]
<1>5. v \in Versions(outbox[r]) /\ v.status = "FAILED"
  BY <1>3, MarkFacts, Zenon DEF Versions
<1>6. faults' \in 0..MaxFaults
  BY <1>1, FaultFacts DEF Poison, JobDataFails, PublishFails
<1>7. jobs' \in [Rows -> [0..JobAttempts-1 -> Nat]]
  <2>1. CASE PublishFails(n, r)
    <3>1. PICK k \in 0..2 : AddJobs(r, k)
      BY <2>1 DEF PublishFails
    <3> QED
      BY <3>1, AddJobsFacts
  <2> QED
    BY <1>1, <2>1 DEF Poison, JobDataFails
<1>8. /\ b.rows \in Drafts => b \in Batch
      /\ b.rows = [batch[n].rows EXCEPT ![r] = v] /\ b.todo = todo
      /\ b.queued = batch[n].queued
  BY <1>1, Zenon DEF Batch
<1> HIDE DEF b
<1> QED
  BY <1>2, <1>3, <1>4, <1>5, <1>6, <1>7, <1>8, LoopWrites, ZenonT(40) DEF b

\* publishProcessWebhookEvent adds jobs; the rows follow with the next step.
LEMMA PublishInv ==
  ASSUME IInv, NEW n \in Nodes, NEW r \in Rows, Publish(n, r) \/ PublishTwice(n, r)
  PROVE  IInv'
<1> DEFINE b == [batch[n] EXCEPT !.pc = "mark"]
<1>1. /\ batch[n] \in Batch /\ Draft(batch[n]) /\ WorkInv /\ work \in [Nodes -> Work]
      /\ batch[n].todo \cup batch[n].queued \subseteq DOMAIN batch[n].rows
      /\ faults \in 0..MaxFaults
  BY StateFacts
<1>2. batch' = [batch EXCEPT ![n] = b] /\ UNCHANGED <<webhook, outbox, work>>
  BY DEF Publish, PublishTwice
<1>3. /\ b \in Batch /\ b.rows = batch[n].rows /\ b.todo = batch[n].todo
      /\ b.queued = batch[n].queued
  BY <1>1 DEF Batch
<1> HIDE DEF b
<1>4. Draft(b)
  BY <1>1, <1>3 DEF Draft
<1>5. /\ b.todo \cup b.queued \subseteq DOMAIN b.rows
      /\ \A q \in DOMAIN b.rows :
           /\ outbox[q].status = "FAILED" => outbox[q].due
           /\ \A m \in Nodes \ {n} : q \notin DOMAIN batch[m].rows
  BY <1>3, StateFacts
<1>6. WorkInv' /\ \A m \in Nodes, q \in Rows : Runs(m, q)' => Runs(m, q)
  BY <1>1, <1>2 DEF WorkInv, Runs
<1>7. jobs' \in [Rows -> [0..JobAttempts-1 -> Nat]]
  BY AddJobsFacts DEF Publish, PublishTwice
<1>8. faults' \in 0..MaxFaults
  BY <1>1, FaultFacts DEF Publish, PublishTwice
<1>9. work' \in [Nodes -> Work]
  BY <1>1, <1>2
<1> QED
  BY <1>2, <1>3, <1>4, <1>5, <1>6, <1>7, <1>8, <1>9, BatchMoves, Zenon

\* markWebhookQueued takes the lock of a RECEIVED event no worker runs.
LEMMA MarkPublishedInv ==
  ASSUME IInv, NEW n \in Nodes, NEW r \in Rows, MarkPublished(n, r)
  PROVE  IInv'
<1>1. /\ batch[n] \in Batch /\ Draft(batch[n]) /\ WorkInv /\ work \in [Nodes -> Work]
      /\ batch[n].todo \cup batch[n].queued \subseteq DOMAIN batch[n].rows
      /\ faults \in 0..MaxFaults /\ jobs \in [Rows -> [0..JobAttempts-1 -> Nat]]
      /\ webhook \in [Rows -> WebhookStatus] /\ outbox \in [Rows -> OutboxRow]
  BY StateFacts
<1>2. r \in batch[n].todo /\ UNCHANGED <<webhook, outbox, jobs, work, faults>>
  BY DEF MarkPublished, IsCurrent
<1>3. /\ batch[n].rows[r] = outbox[r] /\ r \notin batch[n].queued /\ outbox[r] \in OutboxRow
      /\ webhook[r] \in {"RECEIVED", "QUEUED", "DONE"}
  BY <1>1, <1>2 DEF Draft, WebhookStatus
<1> DEFINE v == markPublished(outbox[r])
           queued == IF webhook[r] = "RECEIVED" THEN batch[n].queued \cup {r}
                     ELSE batch[n].queued
<1>4. v \in Versions(outbox[r]) /\ v.status = "PUBLISHED"
  BY <1>3, MarkFacts, Zenon DEF Versions
<1> DEFINE b == [batch[n] EXCEPT !.pc = "loop", !.rows[r] = v, !.todo = @ \ {r},
                                !.queued = queued]
<1>5. /\ batch' = [batch EXCEPT ![n] = b]
      /\ b.rows \in Drafts => b \in Batch
      /\ b.rows = [batch[n].rows EXCEPT ![r] = v] /\ b.todo = batch[n].todo \ {r}
      /\ b.queued = queued
  <2>1. batch' = [batch EXCEPT ![n] = b]
    BY <1>3, Zenon DEF MarkPublished
  <2>2. queued \in SUBSET Rows
    BY <1>1, BatchFacts
  <2> HIDE DEF v, queued
  <2> QED
    BY <1>1, <2>1, <2>2, Zenon DEF Batch
<1>6. /\ queued \in {batch[n].queued, batch[n].queued \cup {r}}
      /\ r \in queued <=> webhook[r] = "RECEIVED"
  BY <1>3
<1>7. webhook[r] = "RECEIVED" => \A m \in Nodes : ~Runs(m, r)
  BY DEF MarkPublished, WebhookLocked, Runs
<1> HIDE DEF b, v, queued
<1>8. /\ v.status = "PUBLISHED" => r \in queued \/ webhook[r] \in {"QUEUED", "DONE"}
      /\ r \in queued => webhook[r] = "RECEIVED" /\ v.status = "PUBLISHED"
                         /\ \A m \in Nodes : ~Runs(m, r)
  BY <1>3, <1>4, <1>6, <1>7
<1>9. faults' \in 0..MaxFaults /\ jobs' \in [Rows -> [0..JobAttempts-1 -> Nat]]
  BY <1>1, <1>2
<1>10. batch[n].todo \ {r} \in SUBSET (batch[n].todo \ {r})
  OBVIOUS
<1> QED
  BY <1>2, <1>4, <1>5, <1>6, <1>8, <1>9, <1>10, LoopWrites, ZenonT(40)

\* A rollback or a crash gives up the locks of the batch.
LEMMA GiveUpInv ==
  ASSUME IInv, NEW n \in Nodes, batch' = [batch EXCEPT ![n] = NoBatch],
         UNCHANGED <<webhook, outbox>>, jobs' \in [Rows -> [0..JobAttempts-1 -> Nat]],
         work' \in {work, [work EXCEPT ![n] = NoWork]}, faults' \in 0..MaxFaults
  PROVE  IInv'
<1>1. WorkInv /\ work \in [Nodes -> Work]
  BY StateFacts
<1>2. NoWork \in Work /\ NoWork.pc = "idle" /\ NoWork.owned = FALSE
  BY DispatcherAssumption DEF NoWork, Work
<1>3. work' \in [Nodes -> Work] /\ \A m \in Nodes : work'[m] \in {work[m], NoWork}
  BY <1>1, <1>2
<1>4. WorkInv' /\ \A m \in Nodes, q \in Rows : Runs(m, q)' => Runs(m, q)
  BY <1>1, <1>2, <1>3 DEF WorkInv, Runs
<1>5. Draft(NoBatch) /\ \A q \in DOMAIN NoBatch.rows :
        /\ outbox[q].status = "FAILED" => outbox[q].due
        /\ \A m \in Nodes \ {n} : q \notin DOMAIN batch[m].rows
  BY NoBatchFacts DEF Draft
<1>6. NoBatch.todo \cup NoBatch.queued \subseteq DOMAIN NoBatch.rows
  BY NoBatchFacts
<1> QED
  BY <1>3, <1>4, <1>5, <1>6, NoBatchFacts, BatchMoves, Zenon

\* BullMQ takes a job back.
LEMMA RequeueFacts ==
  ASSUME IInv, NEW n \in Nodes, work[n].pc # "idle", NEW k \in Nat, Requeue(work[n], k)
  PROVE  jobs' \in [Rows -> [0..JobAttempts-1 -> Nat]]
<1>1. jobs \in [Rows -> [0..JobAttempts-1 -> Nat]] /\ work[n].row \in Rows
  BY StateFacts DEF WorkInv
<1>2. CASE k < JobAttempts /\ jobs' = [jobs EXCEPT ![work[n].row][k] = @ + 1]
  <2>1. k \in 0..JobAttempts-1
    BY <1>2, DispatcherAssumption
  <2>2. jobs[work[n].row] \in [0..JobAttempts-1 -> Nat]
    BY <1>1
  <2>3. jobs[work[n].row][k] + 1 \in Nat
    <3>1. jobs[work[n].row][k] \in Nat
      BY <2>1, <2>2, Zenon
    <3> QED
      BY <3>1
  <2>4. jobs' = [jobs EXCEPT ![work[n].row] =
                   [jobs[work[n].row] EXCEPT ![k] = jobs[work[n].row][k] + 1]]
    BY <1>2
  <2> QED
    BY <1>1, <2>1, <2>2, <2>3, <2>4
<1>3. CASE jobs' = jobs
  BY <1>1, <1>3
<1> QED
  BY <1>2, <1>3 DEF Requeue

\* A waiting job leaves the queue.
LEMMA DropFacts ==
  ASSUME IInv, NEW r \in Rows, NEW k \in 0..JobAttempts-1, jobs[r][k] > 0,
         jobs' = [jobs EXCEPT ![r][k] = @ - 1]
  PROVE  jobs' \in [Rows -> [0..JobAttempts-1 -> Nat]]
<1>1. jobs \in [Rows -> [0..JobAttempts-1 -> Nat]]
  BY DEF IInv, LocksInv, TypeOK
<1>2. jobs[r] \in [0..JobAttempts-1 -> Nat]
  BY <1>1
<1>3. jobs[r][k] - 1 \in Nat
  <2>1. jobs[r][k] \in Nat
    BY <1>2, Zenon
  <2> QED
    BY <2>1
<1>4. jobs' = [jobs EXCEPT ![r] = [jobs[r] EXCEPT ![k] = jobs[r][k] - 1]]
  OBVIOUS
<1> QED
  BY <1>1, <1>2, <1>3, <1>4

\* The steps of BullMQ and of the workers, but for the commit of a job.
LEMMA WorkerInv ==
  ASSUME IInv, NEW n \in Nodes,
         (\E r \in Rows : TakeJob(n, r)) \/ LockEvent(n) \/ JobFails(n) \/ Stall(n)
  PROVE  IInv'
<1>1. /\ jobs \in [Rows -> [0..JobAttempts-1 -> Nat]] /\ work \in [Nodes -> Work]
      /\ faults \in 0..MaxFaults /\ WorkInv
  BY StateFacts
<1>2. /\ work[n] \in Work /\ work[n].made \in Nat /\ work[n].made + 1 \in Nat
      /\ work[n].pc # "idle" => work[n].row \in Rows
  BY <1>1, DispatcherAssumption DEF Work, WorkInv
<1>3. NoWork \in Work /\ NoWork.pc = "idle" /\ NoWork.owned = FALSE
  BY DispatcherAssumption DEF NoWork, Work
<1>4. ASSUME NEW w \in Work, work' = [work EXCEPT ![n] = w],
             IF w.pc = "idle" THEN ~w.owned ELSE w.row \in Rows,
             w.pc = "run" => ~WebhookLocked(w.row) \/ Runs(n, w.row)
      PROVE  /\ work' \in [Nodes -> Work] /\ WorkInv'
             /\ \A m \in Nodes, q \in Rows : Runs(m, q)' => Runs(m, q) \/ ~WebhookLocked(q)
  <2>1. work'[n] = w /\ \A m \in Nodes \ {n} : work'[m] = work[m]
    BY <1>1, <1>4
  <2> QED
    BY <1>1, <1>4, <2>1 DEF WorkInv, Runs
<1>5. CASE \E r \in Rows : TakeJob(n, r)
  <2>1. PICK r \in Rows, k \in 0..JobAttempts-1 :
          /\ jobs[r][k] > 0 /\ jobs' = [jobs EXCEPT ![r][k] = @ - 1]
          /\ work' = [work EXCEPT ![n] = [pc |-> "lock", row |-> r, made |-> k, owned |-> TRUE]]
    BY <1>5, Zenon DEF TakeJob
  <2> DEFINE w == [pc |-> "lock", row |-> r, made |-> k, owned |-> TRUE]
  <2>2. w \in Work
    BY Zenon DEF Work
  <2>3. w.pc = "lock" /\ w.row = r
    OBVIOUS
  <2>4. work' = [work EXCEPT ![n] = w]
    BY <2>1
  <2> HIDE DEF w
  <2>5. jobs' \in [Rows -> [0..JobAttempts-1 -> Nat]]
    BY <2>1, DropFacts, Zenon
  <2>6. UNCHANGED <<webhook, outbox, batch, faults>>
    BY <1>5 DEF TakeJob
  <2>7. /\ work' \in [Nodes -> Work] /\ WorkInv'
        /\ \A m \in Nodes, q \in Rows : Runs(m, q)' => Runs(m, q) \/ ~WebhookLocked(q)
    BY <1>4, <2>2, <2>3, <2>4, Zenon
  <2> QED
    BY <1>1, <2>5, <2>6, <2>7, WorkMoves
<1>6. CASE LockEvent(n)
  <2> DEFINE w == [work[n] EXCEPT !.pc = "run"]
  <2>1. w \in Work
    BY <1>2, Zenon DEF Work
  <2>2. w.pc = "run" /\ w.row = work[n].row
    BY <1>2 DEF Work
  <2>3. work' = [work EXCEPT ![n] = w] /\ UNCHANGED <<webhook, outbox, batch, jobs, faults>>
    BY <1>6 DEF LockEvent
  <2> HIDE DEF w
  <2>4. /\ work' \in [Nodes -> Work] /\ WorkInv'
        /\ \A m \in Nodes, q \in Rows : Runs(m, q)' => Runs(m, q) \/ ~WebhookLocked(q)
    BY <1>2, <1>4, <1>6, <2>1, <2>2, <2>3, Zenon DEF LockEvent
  <2> QED
    BY <1>1, <2>3, <2>4, WorkMoves
<1>7. CASE JobFails(n)
  <2>1. jobs' \in [Rows -> [0..JobAttempts-1 -> Nat]]
    BY <1>2, <1>7, RequeueFacts DEF JobFails
  <2>2. work' = [work EXCEPT ![n] = NoWork] /\ UNCHANGED <<webhook, outbox, batch>>
    BY <1>7 DEF JobFails
  <2>3. faults' \in 0..MaxFaults
    BY <1>7, FaultFacts DEF JobFails
  <2>4. /\ work' \in [Nodes -> Work] /\ WorkInv'
        /\ \A m \in Nodes, q \in Rows : Runs(m, q)' => Runs(m, q) \/ ~WebhookLocked(q)
    BY <1>3, <1>4, <2>2, Zenon
  <2> QED
    BY <2>1, <2>2, <2>3, <2>4, WorkMoves
<1>8. CASE Stall(n)
  <2> DEFINE w == [work[n] EXCEPT !.owned = FALSE]
  <2>1. w \in Work
    BY <1>2, Zenon DEF Work
  <2>2. w.pc = work[n].pc /\ w.row = work[n].row
    BY <1>2 DEF Work
  <2>3. work' = [work EXCEPT ![n] = w] /\ UNCHANGED <<webhook, outbox, batch>>
    BY <1>8 DEF Stall
  <2> HIDE DEF w
  <2>4. jobs' \in [Rows -> [0..JobAttempts-1 -> Nat]]
    BY <1>2, <1>8, RequeueFacts DEF Stall
  <2>5. faults' \in 0..MaxFaults
    BY <1>8, FaultFacts DEF Stall
  <2>6. /\ work' \in [Nodes -> Work] /\ WorkInv'
        /\ \A m \in Nodes, q \in Rows : Runs(m, q)' => Runs(m, q) \/ ~WebhookLocked(q)
    BY <1>2, <1>4, <1>8, <2>1, <2>2, <2>3, Zenon DEF Runs, Stall
  <2> QED
    BY <2>3, <2>4, <2>5, <2>6, WorkMoves
<1> QED
  BY <1>5, <1>6, <1>7, <1>8

\* Redis loses a job.
LEMMA LoseInv ==
  ASSUME IInv, NEW r \in Rows, LoseJob(r)
  PROVE  IInv'
<1>1. /\ jobs' \in [Rows -> [0..JobAttempts-1 -> Nat]]
      /\ UNCHANGED <<webhook, outbox, batch, work>>
  BY DropFacts, Zenon DEF LoseJob
<1>2. faults' \in 0..MaxFaults
  BY FaultFacts DEF LoseJob
<1>3. /\ work' \in [Nodes -> Work] /\ WorkInv'
      /\ \A m \in Nodes, q \in Rows : Runs(m, q)' => Runs(m, q)
  BY <1>1 DEF IInv, LocksInv, TypeOK, WorkInv, Runs
<1> QED
  BY <1>1, <1>2, <1>3, WorkMoves

\* The transaction fails, or the process dies.
LEMMA EndInv ==
  ASSUME IInv, NEW n \in Nodes, RollBackBatch(n) \/ Crash(n)
  PROVE  IInv'
<1>1. /\ jobs \in [Rows -> [0..JobAttempts-1 -> Nat]] /\ work[n] \in Work
      /\ work[n].pc = "idle" => ~work[n].owned
  BY StateFacts DEF WorkInv
<1>2. /\ batch' = [batch EXCEPT ![n] = NoBatch] /\ UNCHANGED <<webhook, outbox>>
      /\ work' \in {work, [work EXCEPT ![n] = NoWork]} /\ faults' \in 0..MaxFaults
  BY FaultFacts DEF RollBackBatch, Crash
<1>3. jobs' \in [Rows -> [0..JobAttempts-1 -> Nat]]
  <2>1. CASE Crash(n) /\ Requeue(work[n], work[n].made) /\ work[n].pc # "idle"
    BY <1>1, <2>1, RequeueFacts DEF Work
  <2>2. CASE work[n].pc = "idle" /\ Requeue(work[n], work[n].made)
    BY <1>1, <2>2 DEF Requeue
  <2> QED
    BY <1>1, <2>1, <2>2 DEF RollBackBatch, Crash
<1> QED
  BY <1>2, <1>3, GiveUpInv, Zenon

-----------------------------------------------------------------------------
(* The steps that commit to the tables *)

\* Such a step leaves the rows of every batch alone, or decides an event that no
\* batch is about to mark QUEUED.
LEMMA TablesMove ==
  ASSUME IInv, batch' = batch, jobs' = jobs, faults' = faults,
         webhook' \in [Rows -> WebhookStatus], outbox' \in [Rows -> OutboxRow],
         work' \in [Nodes -> Work], WorkInv', TableInv',
         \A m \in Nodes, r \in Rows : Runs(m, r)' => Runs(m, r),
         \A m \in Nodes : \A r \in DOMAIN batch[m].rows :
           /\ outbox'[r] = outbox[r]
           /\ webhook'[r] = webhook[r] \/ (webhook'[r] = "DONE" /\ r \notin batch[m].queued)
  PROVE  IInv'
<1>1. TypeOK' /\ Disjoint' /\ DueInv' /\ batch' \in [Nodes -> Batch]
  BY DEF IInv, LocksInv, TypeOK, Disjoint, DueInv
<1>2. ASSUME NEW m \in Nodes, NEW r \in DOMAIN batch[m].rows
      PROVE  /\ webhook'[r] # "ABSENT" /\ ~outbox'[r].dead /\ outbox'[r].status # "PUBLISHED"
             /\ batch[m].rows[r] \in Versions(outbox'[r])
             /\ r \in batch[m].todo => batch[m].rows[r] = outbox'[r]
             /\ batch[m].rows[r].status = "PUBLISHED" =>
                  r \in batch[m].queued \/ webhook'[r] \in {"QUEUED", "DONE"}
             /\ r \in batch[m].queued =>
                  /\ webhook'[r] = "RECEIVED" /\ batch[m].rows[r].status = "PUBLISHED"
                  /\ \A k \in Nodes : ~Runs(k, r)'
  <2>1. /\ outbox'[r] = outbox[r] /\ r \in Rows
        /\ webhook'[r] = webhook[r] \/ (webhook'[r] = "DONE" /\ r \notin batch[m].queued)
    BY <1>2, StateFacts
  <2>2. Draft(batch[m])
    BY StateFacts
  <2> QED
    BY <1>2, <2>1, <2>2 DEF Draft
<1>3. DraftInv'
  BY <1>2 DEF DraftInv, Draft
<1> QED
  BY <1>1, <1>3 DEF IInv, LocksInv

\* The acceptance of a webhook, the reconciliation and the timers: they write rows
\* that no batch has.
LEMMA RowsInv ==
  ASSUME IInv, NEW r \in Rows, NEW S \in SUBSET Rows,
         Accept(r) \/ BackoffElapses(r) \/ BecomesStale(r) \/ Reconcile(S)
  PROVE  IInv'
<1>1. /\ webhook \in [Rows -> WebhookStatus] /\ outbox \in [Rows -> OutboxRow]
      /\ work \in [Nodes -> Work] /\ WorkInv /\ TableInv /\ TypeOK
  BY SMTT(20) DEF IInv, LocksInv, TypeOK
<1>2. UNCHANGED <<batch, jobs, work, faults>>
  BY Zenon DEF Accept, BackoffElapses, BecomesStale, Reconcile
<1>3. WorkInv' /\ \A m \in Nodes, q \in Rows : Runs(m, q)' => Runs(m, q)
  BY <1>1, <1>2 DEF WorkInv, Runs
<1>4. ASSUME NEW m \in Nodes, NEW q \in DOMAIN batch[m].rows
      PROVE  /\ q \in Rows /\ webhook[q] # "ABSENT" /\ outbox[q].status # "PUBLISHED"
             /\ outbox[q].status = "FAILED" => outbox[q].due
  BY StateFacts DEF Draft
<1>5. ASSUME NEW q \in Rows
      PROVE  /\ [outbox[q] EXCEPT !.due = TRUE] \in OutboxRow
             /\ [outbox[q] EXCEPT !.stale = TRUE] \in OutboxRow
             /\ [outbox[q] EXCEPT !.status = "FAILED", !.due = TRUE] \in OutboxRow
  <2>1. outbox[q] \in OutboxRow
    BY <1>1, SMTT(20)
  <2> QED
    BY <2>1, Zenon DEF OutboxRow
<1>6. CASE Accept(r)
  <2>1. /\ webhook' = [webhook EXCEPT ![r] = "RECEIVED"] /\ webhook[r] = "ABSENT"
        /\ outbox[r] = NewRow /\ outbox' = outbox
    BY <1>1, <1>6 DEF Accept, TableInv
  <2>2. webhook' \in [Rows -> WebhookStatus]
    BY <1>1, <2>1 DEF WebhookStatus
  <2>3. TableInv'
    BY <1>1, <2>1 DEF TableInv, NewRow
  <2>4. \A m \in Nodes : \A q \in DOMAIN batch[m].rows :
          outbox'[q] = outbox[q] /\ webhook'[q] = webhook[q]
    BY <1>1, <1>4, <2>1
  <2> QED
    BY <1>1, <1>2, <1>3, <2>1, <2>2, <2>3, <2>4, TablesMove
<1>7. CASE BackoffElapses(r)
  <2>1. /\ outbox' = [outbox EXCEPT ![r] = [outbox[r] EXCEPT !.due = TRUE]]
        /\ webhook' = webhook /\ outbox[r].status = "FAILED" /\ ~outbox[r].due
    BY <1>7, SMTT(20) DEF BackoffElapses
  <2>2. outbox' \in [Rows -> OutboxRow]
    BY <1>1, <1>5, <2>1, Zenon
  <2>3. /\ outbox'[r].dead = outbox[r].dead /\ outbox'[r].status = outbox[r].status
    BY <1>1, <2>1 DEF OutboxRow
  <2>4. TableInv'
    <3>1. \A q \in Rows \ {r} : outbox'[q] = outbox[q]
      BY <1>1, <2>1
    <3>2. ~outbox[r].dead
      BY <1>1, <2>1 DEF TableInv
    <3>3. webhook[r] # "ABSENT"
      BY <1>1, <2>1 DEF TableInv, NewRow
    <3> QED
      BY <1>1, <2>1, <2>3, <3>1, <3>2, <3>3 DEF TableInv
  <2>5. \A m \in Nodes : \A q \in DOMAIN batch[m].rows :
          outbox'[q] = outbox[q] /\ webhook'[q] = webhook[q]
    BY <1>1, <1>4, <2>1
  <2> QED
    BY <1>1, <1>2, <1>3, <2>1, <2>2, <2>4, <2>5, TablesMove
<1>8. CASE BecomesStale(r)
  <2>1. /\ outbox' = [outbox EXCEPT ![r] = [outbox[r] EXCEPT !.stale = TRUE]]
        /\ webhook' = webhook /\ outbox[r].status = "PUBLISHED"
    BY <1>8 DEF BecomesStale
  <2>2. outbox' \in [Rows -> OutboxRow]
    BY <1>1, <1>5, <2>1, Zenon
  <2>3. /\ outbox'[r].dead = outbox[r].dead /\ outbox'[r].status = outbox[r].status
        /\ outbox'[r].due = outbox[r].due
    BY <1>1, <2>1 DEF OutboxRow
  <2>4. TableInv'
    <3>1. \A q \in Rows \ {r} : outbox'[q] = outbox[q]
      BY <1>1, <2>1
    <3> QED
      BY <1>1, <2>1, <2>3, <3>1, Zenon DEF TableInv, NewRow
  <2>5. \A m \in Nodes : \A q \in DOMAIN batch[m].rows :
          outbox'[q] = outbox[q] /\ webhook'[q] = webhook[q]
    BY <1>1, <1>4, <2>1
  <2> QED
    BY <1>1, <1>2, <1>3, <2>1, <2>2, <2>4, <2>5, TablesMove, Zenon
<1>9. CASE Reconcile(S)
  <2>1. /\ outbox' = [q \in Rows |-> IF q \in S
                        THEN [outbox[q] EXCEPT !.status = "FAILED", !.due = TRUE]
                        ELSE outbox[q]]
        /\ webhook' = webhook
        /\ \A q \in S : /\ outbox[q].status = "PUBLISHED" /\ ~outbox[q].dead
                        /\ webhook[q] \in {"RECEIVED", "QUEUED"}
    BY <1>9, Zenon DEF Reconcile, Reconcilable
  <2>2. outbox' \in [Rows -> OutboxRow]
    BY <1>1, <1>5, <2>1, Zenon
  <2>3. ASSUME NEW q \in S
        PROVE  [outbox[q] EXCEPT !.status = "FAILED", !.due = TRUE].dead = outbox[q].dead
               /\ [outbox[q] EXCEPT !.status = "FAILED", !.due = TRUE].status = "FAILED"
    BY <1>1, SMTT(20) DEF OutboxRow
  <2>4. TableInv'
    BY <1>1, <2>1, <2>3, Zenon DEF TableInv, NewRow
  <2>5. \A m \in Nodes : \A q \in DOMAIN batch[m].rows :
          outbox'[q] = outbox[q] /\ webhook'[q] = webhook[q]
    BY <1>4, <2>1, Zenon
  <2> QED
    BY <1>1, <1>2, <1>3, <2>1, <2>2, <2>4, <2>5, TablesMove, Zenon
<1> QED
  BY <1>6, <1>7, <1>8, <1>9

\* A job commits: the event it has locked is not in the QUEUED updates of a batch.
LEMMA CompleteInv ==
  ASSUME IInv, NEW n \in Nodes, Complete(n)
  PROVE  IInv'
<1>1. /\ webhook \in [Rows -> WebhookStatus] /\ outbox \in [Rows -> OutboxRow]
      /\ work \in [Nodes -> Work] /\ WorkInv /\ TableInv
  BY DEF IInv, LocksInv, TypeOK
<1>2. /\ work[n].row \in Rows /\ Runs(n, work[n].row)
      /\ webhook' = [webhook EXCEPT ![work[n].row] = "DONE"]
      /\ work' = [work EXCEPT ![n] = NoWork] /\ UNCHANGED <<outbox, batch, jobs, faults>>
  BY <1>1 DEF Complete, WorkInv, Runs
<1>3. NoWork \in Work /\ NoWork.pc = "idle" /\ NoWork.owned = FALSE
  BY DispatcherAssumption DEF NoWork, Work
<1>4. work' \in [Nodes -> Work] /\ \A m \in Nodes : work'[m] \in {work[m], NoWork}
  BY <1>1, <1>2, <1>3
<1>5. WorkInv' /\ \A m \in Nodes, q \in Rows : Runs(m, q)' => Runs(m, q)
  BY <1>1, <1>3, <1>4 DEF WorkInv, Runs
<1>6. webhook' \in [Rows -> WebhookStatus]
  BY <1>1, <1>2 DEF WebhookStatus
<1>7. TableInv'
  BY <1>1, <1>2 DEF TableInv
<1>8. ASSUME NEW m \in Nodes, NEW q \in DOMAIN batch[m].rows
      PROVE  webhook'[q] = webhook[q] \/ (webhook'[q] = "DONE" /\ q \notin batch[m].queued)
  <2>1. q \in Rows /\ Draft(batch[m])
    BY <1>8, StateFacts
  <2>2. q = work[n].row => q \notin batch[m].queued
    BY <1>2, <1>8, <2>1, SMTT(20) DEF Draft
  <2> QED
    BY <1>1, <1>2, <2>1, <2>2
<1> QED
  BY <1>1, <1>2, <1>4, <1>5, <1>6, <1>7, <1>8, TablesMove

\* A batch commits what it has made of its rows, and the events it has marked.
LEMMA CommitFacts ==
  ASSUME IInv, NEW n \in Nodes, CommitBatch(n)
  PROVE  /\ webhook' \in [Rows -> WebhookStatus] /\ outbox' \in [Rows -> OutboxRow]
         /\ UNCHANGED <<jobs, work, faults>> /\ batch' = [batch EXCEPT ![n] = NoBatch]
         /\ \A r \in Rows :
              IF r \in DOMAIN batch[n].rows
              THEN /\ outbox'[r] = batch[n].rows[r] /\ outbox'[r] \in Versions(outbox[r])
                   /\ ~outbox[r].dead /\ outbox[r].status # "PUBLISHED"
                   /\ outbox[r].status = "FAILED" => outbox[r].due
                   /\ webhook'[r] # "ABSENT"
                   /\ outbox'[r].status = "PUBLISHED" => webhook'[r] \in {"QUEUED", "DONE"}
                   /\ \/ webhook'[r] = webhook[r]
                      \/ /\ webhook'[r] = "QUEUED" /\ outbox'[r].status = "PUBLISHED"
                         /\ webhook[r] = "RECEIVED"
              ELSE outbox'[r] = outbox[r] /\ webhook'[r] = webhook[r]
<1>1. /\ batch[n] \in Batch /\ Draft(batch[n]) /\ outbox \in [Rows -> OutboxRow]
      /\ webhook \in [Rows -> WebhookStatus]
      /\ batch[n].queued \subseteq DOMAIN batch[n].rows /\ DOMAIN batch[n].rows \subseteq Rows
      /\ \A r \in DOMAIN batch[n].rows : outbox[r].status = "FAILED" => outbox[r].due
  BY StateFacts
<1>2. batch[n].rows \in [DOMAIN batch[n].rows -> OutboxRow]
  BY <1>1, BatchFacts
<1>3. /\ outbox' = [r \in Rows |-> IF r \in DOMAIN batch[n].rows
                                   THEN batch[n].rows[r] ELSE outbox[r]]
      /\ webhook' = [r \in Rows |-> IF r \in batch[n].queued THEN "QUEUED" ELSE webhook[r]]
      /\ UNCHANGED <<jobs, work, faults>> /\ batch' = [batch EXCEPT ![n] = NoBatch]
  BY DEF CommitBatch
<1>4. webhook' \in [Rows -> WebhookStatus] /\ outbox' \in [Rows -> OutboxRow]
  BY <1>1, <1>2, <1>3, SMTT(20) DEF WebhookStatus
<1>5. ASSUME NEW r \in DOMAIN batch[n].rows
      PROVE  /\ outbox'[r] = batch[n].rows[r] /\ outbox'[r] \in Versions(outbox[r])
             /\ ~outbox[r].dead /\ outbox[r].status # "PUBLISHED"
             /\ outbox[r].status = "FAILED" => outbox[r].due
             /\ webhook'[r] # "ABSENT"
             /\ outbox'[r].status = "PUBLISHED" => webhook'[r] \in {"QUEUED", "DONE"}
             /\ \/ webhook'[r] = webhook[r]
                \/ /\ webhook'[r] = "QUEUED" /\ outbox'[r].status = "PUBLISHED"
                   /\ webhook[r] = "RECEIVED"
  <2>1. outbox'[r] = batch[n].rows[r]
    BY <1>1, <1>3
  <2>2. webhook'[r] = IF r \in batch[n].queued THEN "QUEUED" ELSE webhook[r]
    BY <1>1, <1>3
  <2> QED
    BY <1>1, <2>1, <2>2 DEF Draft
<1>6. \A r \in Rows \ DOMAIN batch[n].rows : outbox'[r] = outbox[r] /\ webhook'[r] = webhook[r]
  BY <1>1, <1>3
<1> QED
  BY <1>3, <1>4, <1>5, <1>6

\* A batch that commits writes its drafts over rows that it has locked.
LEMMA CommitInv ==
  ASSUME IInv, NEW n \in Nodes, CommitBatch(n)
  PROVE  IInv'
<1>1. /\ webhook' \in [Rows -> WebhookStatus] /\ outbox' \in [Rows -> OutboxRow]
      /\ UNCHANGED <<jobs, work, faults>> /\ batch' = [batch EXCEPT ![n] = NoBatch]
  BY CommitFacts
<1>2. /\ batch' \in [Nodes -> Batch] /\ batch'[n] = NoBatch
      /\ \A m \in Nodes \ {n} : batch'[m] = batch[m]
  BY <1>1, NoBatchFacts DEF IInv
<1>3. TypeOK'
  <2>1. \A m \in Nodes : batch'[m].todo \cup batch'[m].queued \subseteq DOMAIN batch'[m].rows
    BY <1>2, NoBatchFacts, StateFacts
  <2>2. ASSUME NEW m \in Nodes
        PROVE  /\ DOMAIN batch'[m] = {"pc", "rows", "todo", "queued"}
               /\ batch'[m].pc \in {"idle", "loop", "mark"}
               /\ DOMAIN batch'[m].rows \subseteq Rows
               /\ \A r \in DOMAIN batch'[m].rows : batch'[m].rows[r] \in OutboxRow
    <3>1. batch'[m] \in Batch
      BY <1>2, <2>2
    <3> QED
      BY <3>1, BatchFacts
  <2>3. /\ jobs \in [Rows -> [0..JobAttempts-1 -> Nat]] /\ work \in [Nodes -> Work]
        /\ faults \in 0..MaxFaults
    BY StateFacts
  <2> QED
    BY <1>1, <2>1, <2>2, <2>3 DEF TypeOK
<1>4. ASSUME NEW m \in Nodes, NEW r \in DOMAIN batch'[m].rows
      PROVE  /\ batch'[m] = batch[m] /\ m # n /\ r \in Rows
             /\ outbox'[r] = outbox[r] /\ webhook'[r] = webhook[r]
  <2>1. m # n /\ batch'[m] = batch[m]
    BY <1>2, <1>4, NoBatchFacts
  <2>2. r \in Rows /\ r \notin DOMAIN batch[n].rows
    BY <1>4, <2>1, StateFacts
  <2> QED
    BY <2>1, <2>2, CommitFacts
<1>5. DraftInv'
  <2>1. ASSUME NEW m \in Nodes, NEW r \in DOMAIN batch'[m].rows
        PROVE  /\ webhook'[r] # "ABSENT" /\ ~outbox'[r].dead
               /\ outbox'[r].status # "PUBLISHED"
               /\ batch'[m].rows[r] \in Versions(outbox'[r])
               /\ r \in batch'[m].todo => batch'[m].rows[r] = outbox'[r]
               /\ batch'[m].rows[r].status = "PUBLISHED" =>
                    r \in batch'[m].queued \/ webhook'[r] \in {"QUEUED", "DONE"}
               /\ r \in batch'[m].queued =>
                    /\ webhook'[r] = "RECEIVED" /\ batch'[m].rows[r].status = "PUBLISHED"
                    /\ \A k \in Nodes : ~Runs(k, r)'
    <3>1. Draft(batch[m])
      BY StateFacts
    <3> QED
      BY <1>1, <1>4, <2>1, <3>1, SMTT(20) DEF Draft, Runs
  <2> QED
    BY <2>1, SMTT(20) DEF DraftInv, Draft
<1>6. Disjoint' /\ DueInv'
  <2>1. Disjoint'
    BY <1>2, NoBatchFacts DEF IInv, LocksInv, Disjoint
  <2>2. DueInv'
    BY <1>4 DEF IInv, LocksInv, DueInv
  <2> QED
    BY <2>1, <2>2
<1>7. TableInv'
  <2> SUFFICES ASSUME NEW r \in Rows
               PROVE  /\ outbox'[r].status = "PUBLISHED" => webhook'[r] \in {"QUEUED", "DONE"}
                      /\ webhook'[r] = "QUEUED" => outbox'[r].status \in {"PUBLISHED", "FAILED"}
                      /\ webhook'[r] = "ABSENT" => outbox'[r] = NewRow
                      /\ outbox'[r].dead => outbox'[r].status = "FAILED" /\ outbox'[r].due
    BY DEF TableInv
  <2>1. TableInv /\ outbox[r] \in OutboxRow
    BY StateFacts DEF IInv, LocksInv
  <2>2. CASE r \notin DOMAIN batch[n].rows
    BY <2>1, <2>2, CommitFacts DEF TableInv
  <2>3. CASE r \in DOMAIN batch[n].rows
    <3>1. /\ outbox'[r] \in Versions(outbox[r])
          /\ ~outbox[r].dead /\ webhook'[r] # "ABSENT"
          /\ outbox'[r].status = "PUBLISHED" => webhook'[r] \in {"QUEUED", "DONE"}
          /\ \/ webhook'[r] = webhook[r]
             \/ webhook'[r] = "QUEUED" /\ outbox'[r].status = "PUBLISHED"
      BY <2>3, CommitFacts
    <3>2. /\ outbox'[r].status \in {outbox[r].status, "PUBLISHED", "FAILED"}
          /\ outbox'[r].dead => outbox'[r].status = "FAILED" /\ outbox'[r].due
      BY <2>1, <3>1, VersionFacts
    <3> QED
      BY <2>1, <3>1, <3>2 DEF TableInv
  <2> QED
    BY <2>2, <2>3
<1>8. WorkInv'
  BY <1>1, StateFacts DEF WorkInv
<1> QED
  BY <1>2, <1>3, <1>5, <1>6, <1>7, <1>8 DEF IInv, LocksInv

-----------------------------------------------------------------------------
(* The theorems *)

\* The inductive invariant holds at all times.
LEMMA Invariance == Spec => []IInv
<1>1. Init => IInv
  BY InitInv
<1>2. IInv /\ [Next]_vars => IInv'
  <2> SUFFICES ASSUME IInv, [Next]_vars
               PROVE  IInv'
    BY SMTT(20)
  <2>1. CASE UNCHANGED vars
    <3>1. UNCHANGED <<webhook, outbox, batch, jobs, work, faults>>
      BY <2>1 DEF vars
    <3> QED
      BY <3>1 DEF IInv, LocksInv, TypeOK, DraftInv, Draft, Runs, Disjoint, TableInv, DueInv,
                  WorkInv
  <2>2. CASE \E r \in Rows :
               Accept(r) \/ BackoffElapses(r) \/ BecomesStale(r) \/ LoseJob(r)
    <3>1. PICK r \in Rows : Accept(r) \/ BackoffElapses(r) \/ BecomesStale(r) \/ LoseJob(r)
      BY <2>2
    <3> QED
      BY <3>1, RowsInv, LoseInv
  <2>3. CASE \E n \in Nodes : BatchStep(n)
    BY <2>3, FindInv, FailureInv, PublishInv, MarkPublishedInv, CommitInv DEF BatchStep
  <2>4. CASE \E n \in Nodes : JobStep(n)
    BY <2>4, WorkerInv, CompleteInv DEF JobStep
  <2>5. CASE \E n \in Nodes : NodeFault(n)
    BY <2>5, FailureInv, PublishInv, EndInv, WorkerInv DEF NodeFault
  <2>6. CASE \E n \in Nodes, r \in Rows : TakeJob(n, r)
    BY <2>6, WorkerInv
  <2>7. CASE \E S \in SUBSET Rows : Reconcile(S)
    <3>1. PICK S \in SUBSET Rows : Reconcile(S)
      BY <2>7, SMTT(20)
    <3>2. PICK r \in S : TRUE
      BY <3>1, Zenon DEF Reconcile
    <3> QED
      BY <3>1, <3>2, RowsInv
  <2> QED
    BY <2>1, <2>2, <2>3, <2>4, <2>5, <2>6, <2>7 DEF Next
<1> QED
  BY <1>1, <1>2, PTL DEF Spec

\* The steps that write a table.
LEMMA Writers ==
  ASSUME Next
  PROVE  \/ UNCHANGED <<webhook, outbox>>
         \/ \E r \in Rows : Accept(r) \/ BackoffElapses(r) \/ BecomesStale(r)
         \/ \E n \in Nodes : CommitBatch(n) \/ Complete(n)
         \/ \E S \in SUBSET Rows : Reconcile(S)
<1>1. ASSUME NEW n \in Nodes, NEW r \in Rows,
             Poison(n, r) \/ Publish(n, r) \/ MarkPublished(n, r)
      PROVE  UNCHANGED <<webhook, outbox>>
  BY <1>1, Zenon DEF Poison, Publish, MarkPublished
<1>2. ASSUME NEW n \in Nodes, NEW r \in Rows,
             \/ JobDataFails(n, r) \/ PublishTwice(n, r) \/ PublishFails(n, r)
             \/ TakeJob(n, r)
      PROVE  UNCHANGED <<webhook, outbox>>
  BY <1>2, Zenon DEF JobDataFails, PublishTwice, PublishFails, TakeJob
<1>3. ASSUME NEW n \in Nodes,
             \/ FindEligibleEvents(n) \/ LockEvent(n) \/ RollBackBatch(n)
             \/ JobFails(n) \/ Stall(n) \/ Crash(n)
      PROVE  UNCHANGED <<webhook, outbox>>
  BY <1>3, Zenon DEF FindEligibleEvents, LockEvent, RollBackBatch, JobFails, Stall, Crash
<1>4. ASSUME NEW r \in Rows, LoseJob(r)
      PROVE  UNCHANGED <<webhook, outbox>>
  BY <1>4, Zenon DEF LoseJob
<1> QED
  BY <1>1, <1>2, <1>3, <1>4, Zenon DEF Next, BatchStep, JobStep, NodeFault

\* Inbox and outbox agree in every state, for any number of rows, workers, jobs and
\* failures: a PUBLISHED row has an event that is QUEUED or decided, and an event
\* is QUEUED only behind a row that was published.
THEOREM TablesAgree == Spec => []InboxAgreesWithOutbox
<1>1. IInv => InboxAgreesWithOutbox
  BY DEF IInv, LocksInv, TableInv, InboxAgreesWithOutbox
<1> QED
  BY <1>1, Invariance, PTL

\* No committed batch, reconciliation or duplicate job takes a decided event back.
THEOREM DecisionsAreFinal == Spec => DecidedStaysDecided
<1>1. IInv /\ [Next]_vars =>
        [\A r \in Rows : webhook[r] = "DONE" => webhook'[r] = "DONE"]_vars
  <2> SUFFICES ASSUME IInv, Next, NEW r \in Rows, webhook[r] = "DONE"
               PROVE  webhook'[r] = "DONE"
    OBVIOUS
  <2>1. webhook \in [Rows -> WebhookStatus] /\ WorkInv
    BY SMTT(20) DEF IInv, LocksInv, TypeOK
  <2>2. \/ UNCHANGED webhook
        \/ \E q \in Rows : Accept(q)
        \/ \E n \in Nodes : CommitBatch(n) \/ Complete(n)
    BY Writers, Zenon DEF BackoffElapses, BecomesStale, Reconcile
  <2>3. ASSUME NEW q \in Rows, Accept(q) PROVE webhook'[r] = "DONE"
    BY <2>1, <2>3 DEF Accept
  <2>4. ASSUME NEW n \in Nodes, CommitBatch(n) PROVE webhook'[r] = "DONE"
    BY <2>4, CommitFacts
  <2>5. ASSUME NEW n \in Nodes, Complete(n) PROVE webhook'[r] = "DONE"
    BY <2>1, <2>5 DEF Complete
  <2> QED
    BY <2>2, <2>3, <2>4, <2>5
<1> QED
  BY <1>1, Invariance, PTL DEF Spec, DecidedStaysDecided

\* Failed publishes are counted one by one, and a dead row is never written again.
THEOREM FailuresAreCounted == Spec => FailuresCountedOnce
<1>1. IInv /\ [Next]_vars =>
        [\A r \in Rows :
           /\ outbox'[r].attempts # outbox[r].attempts =>
                /\ outbox'[r].attempts = outbox[r].attempts + 1
                /\ outbox'[r].status = "FAILED"
                /\ outbox[r].status # "PUBLISHED"
           /\ outbox[r].dead => outbox'[r] = outbox[r]]_vars
  <2> SUFFICES ASSUME IInv, Next, NEW r \in Rows
               PROVE  /\ outbox'[r].attempts # outbox[r].attempts =>
                           /\ outbox'[r].attempts = outbox[r].attempts + 1
                           /\ outbox'[r].status = "FAILED"
                           /\ outbox[r].status # "PUBLISHED"
                      /\ outbox[r].dead => outbox'[r] = outbox[r]
    OBVIOUS
  <2>1. /\ webhook \in [Rows -> WebhookStatus] /\ outbox \in [Rows -> OutboxRow]
        /\ TableInv /\ outbox[r] \in OutboxRow
    BY DEF IInv, LocksInv, TypeOK
  <2>2. \/ UNCHANGED outbox
        \/ \E q \in Rows : Accept(q) \/ BackoffElapses(q) \/ BecomesStale(q)
        \/ \E n \in Nodes : CommitBatch(n)
        \/ \E S \in SUBSET Rows : Reconcile(S)
    BY Writers DEF Complete
  <2>3. ASSUME NEW q \in Rows, Accept(q) PROVE outbox'[r] = outbox[r]
    BY <2>1, <2>3 DEF Accept, TableInv
  <2>4. ASSUME NEW q \in Rows, BackoffElapses(q)
        PROVE  /\ outbox'[r].attempts = outbox[r].attempts
               /\ outbox[r].dead => outbox'[r] = outbox[r]
    <3>1. ~outbox[q].dead
      BY <2>1, <2>4 DEF BackoffElapses, TableInv
    <3>2. outbox'[r] = IF r = q THEN [outbox[r] EXCEPT !.due = TRUE] ELSE outbox[r]
      BY <2>1, <2>4, Zenon DEF BackoffElapses
    <3> QED
      BY <2>1, <3>1, <3>2 DEF OutboxRow
  <2>5. ASSUME NEW q \in Rows, BecomesStale(q)
        PROVE  /\ outbox'[r].attempts = outbox[r].attempts
               /\ outbox[r].dead => outbox'[r] = outbox[r]
    <3>1. ~outbox[q].dead
      BY <2>1, <2>5 DEF BecomesStale, TableInv
    <3>2. outbox'[r] = IF r = q THEN [outbox[r] EXCEPT !.stale = TRUE] ELSE outbox[r]
      BY <2>1, <2>5, Zenon DEF BecomesStale
    <3> QED
      BY <2>1, <3>1, <3>2 DEF OutboxRow
  <2>6. ASSUME NEW S \in SUBSET Rows, Reconcile(S)
        PROVE  /\ outbox'[r].attempts = outbox[r].attempts
               /\ outbox[r].dead => outbox'[r] = outbox[r]
    <3>1. r \in S => ~outbox[r].dead
      BY <2>6, Zenon DEF Reconcile, Reconcilable
    <3>2. outbox'[r] = IF r \in S THEN [outbox[r] EXCEPT !.status = "FAILED", !.due = TRUE]
                                  ELSE outbox[r]
      BY <2>1, <2>6, Zenon DEF Reconcile
    <3> QED
      BY <2>1, <3>1, <3>2 DEF OutboxRow
  <2>7. ASSUME NEW n \in Nodes, CommitBatch(n)
        PROVE  \/ outbox'[r] = outbox[r]
               \/ /\ outbox'[r] \in Versions(outbox[r])
                  /\ ~outbox[r].dead /\ outbox[r].status # "PUBLISHED"
    BY <2>7, CommitFacts
  <2>8. CASE \E n \in Nodes : CommitBatch(n)
    BY <2>1, <2>7, <2>8, VersionFacts
  <2> QED
    BY <2>2, <2>3, <2>4, <2>5, <2>6, <2>8
<1> QED
  BY <1>1, Invariance, PTL DEF Spec, FailuresCountedOnce
=============================================================================
