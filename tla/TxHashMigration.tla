--------------------------- MODULE TxHashMigration ---------------------------
(***************************************************************************)
(* Migration NormalizeConfirmedTxHashes: one UPDATE that rewrites the      *)
(* confirmed_tx_hash of chosen payment intents in canonical form, row by   *)
(* row under a unique index, while workers of the current version may be   *)
(* confirming other intents (the services can start before the migration). *)
(* It establishes what EventProcessor assumes of the initial table.        *)
(***************************************************************************)
EXTENDS Naturals

CONSTANTS
  Intents,    \* ids of payment intents, numbers as far as ORDER BY goes
  Spellings,  \* spellings of transaction hashes
  Canonical,  \* the canonical spelling of every spelling
  Workers,
  NoHash,     \* confirmed_tx_hash IS NULL
  MaxRuns     \* bound on the runs of the migration

ASSUME MigrationAssumption ==
  /\ Intents \subseteq Nat \ {0}
  /\ Canonical \in [Spellings -> Spellings]
  /\ \A s \in Spellings : Canonical[Canonical[s]] = Canonical[s]
  /\ NoHash \notin Spellings
  /\ MaxRuns \in Nat

VARIABLES
  hash,       \* committed confirmed_tx_hash
  updatedAt,  \* committed updated_at, as a rank
  migration,  \* the migration's transaction
  runs,       \* runs of the migration so far
  migrated,   \* a run has committed
  tx,         \* worker transactions: the intent and the hash they confirm
  arrived     \* history: intents confirmed since the snapshot of the statement

vars == <<hash, updatedAt, migration, runs, migrated, tx, arrived>>

\* todo: rows of the UPDATE still to come, with their new values; done: the rows
\* already rewritten in the transaction.
NoMigration == [pc |-> "idle", todo |-> {}, done |-> {}]

NoTx == [pc |-> "idle", intent |-> 0, hash |-> NoHash]

Unique(h) == \A p, q \in Intents : p # q /\ h[p] # NoHash => h[p] # h[q]

\* The table of a database that has run without normalization: any spellings,
\* kept apart by the unique index only.
Init ==
  /\ hash \in {h \in [Intents -> Spellings \cup {NoHash}] : Unique(h)}
  /\ updatedAt \in [Intents -> Intents]
  /\ migration = NoMigration
  /\ runs = 0
  /\ migrated = FALSE
  /\ tx = [w \in Workers |-> NoTx]
  /\ arrived = {}

Confirmed == {p \in Intents : hash[p] # NoHash}

\* The rows of one group of DISTINCT ON (tx_hash).
Group(c) == {p \in Confirmed : Canonical[hash[p]] = c}

IsCanonical(p) == hash[p] = Canonical[hash[p]]

Earlier(p, q) ==
  \/ updatedAt[p] < updatedAt[q]
  \/ updatedAt[p] = updatedAt[q] /\ p < q

\* ORDER BY confirmed_tx_hash = tx_hash DESC, updated_at, id within a group.
Before(p, q) ==
  \/ IsCanonical(p) /\ ~IsCanonical(q)
  \/ (IsCanonical(p) <=> IsCanonical(q)) /\ Earlier(p, q)

\* CTE holder: the first row of every group.
Holders ==
  {p \in Confirmed : \A q \in Group(Canonical[hash[p]]) \ {p} : Before(p, q)}

\* Mutant of Targets: only rows in their canonical spelling already.
TargetsCanonicalOnly == {p \in Holders : IsCanonical(p)}

\* WHERE intent.confirmed_tx_hash <> holder.tx_hash
Targets == {p \in Holders : ~IsCanonical(p)}

-----------------------------------------------------------------------------
(* The migration *)

\* The statement takes its snapshot.
StartMigration ==
  /\ migration.pc = "idle"
  /\ runs < MaxRuns
  /\ runs' = runs + 1
  /\ migration' = [pc |-> "updating", todo |-> Targets, done |-> {}]
  /\ arrived' = {}
  /\ UNCHANGED <<hash, updatedAt, migrated, tx>>

NewHash(p) == Canonical[hash[p]]

\* A worker transaction has put this key into the index and is not over.
KeyHeldByWorker(h) == \E w \in Workers : tx[w].pc = "written" /\ tx[w].hash = h

\* A committed row that this transaction has not rewritten has the key.
KeyTaken(p) == \E q \in Intents \ (migration.done \cup {p}) : hash[q] = NewHash(p)

UpdateRow(p) ==
  /\ migration.pc = "updating"
  /\ p \in migration.todo
  /\ ~KeyHeldByWorker(NewHash(p))
  /\ ~KeyTaken(p)
  /\ migration' = [migration EXCEPT !.todo = @ \ {p}, !.done = @ \cup {p}]
  /\ UNCHANGED <<hash, updatedAt, runs, migrated, tx, arrived>>

\* The unique index refuses the row: the statement and the run fail.
UpdateRefused(p) ==
  /\ migration.pc = "updating"
  /\ p \in migration.todo
  /\ ~KeyHeldByWorker(NewHash(p))
  /\ KeyTaken(p)
  /\ migration' = NoMigration
  /\ UNCHANGED <<hash, updatedAt, runs, migrated, tx, arrived>>

CommitMigration ==
  /\ migration.pc = "updating"
  /\ migration.todo = {}
  /\ hash' = [p \in Intents |-> IF p \in migration.done THEN NewHash(p) ELSE hash[p]]
  /\ migration' = NoMigration
  /\ migrated' = TRUE
  /\ UNCHANGED <<updatedAt, runs, tx, arrived>>

-----------------------------------------------------------------------------
(* Workers of the current version *)

\* The worker has locked an unconfirmed intent, and its lookup by the canonical
\* hash has found no other intent.
LookUp(w) ==
  /\ tx[w].pc = "idle"
  /\ \E p \in Intents \ Confirmed, s \in Spellings :
       /\ \A v \in Workers : tx[v].intent # p
       /\ \A q \in Intents : hash[q] # Canonical[s]
       /\ tx' = [tx EXCEPT ![w] = [pc |-> "lookedUp", intent |-> p, hash |-> Canonical[s]]]
  /\ UNCHANGED <<hash, updatedAt, migration, runs, migrated, arrived>>

KeyHeldElsewhere(w) ==
  \/ \E v \in Workers \ {w} : tx[v].pc = "written" /\ tx[v].hash = tx[w].hash
  \/ \E p \in migration.done : NewHash(p) = tx[w].hash

\* Mutant of Write: the unique index does not exist.
WriteUnchecked(w) ==
  /\ tx[w].pc = "lookedUp"
  /\ tx' = [tx EXCEPT ![w].pc = "written"]
  /\ UNCHANGED <<hash, updatedAt, migration, runs, migrated, arrived>>

Write(w) ==
  /\ tx[w].pc = "lookedUp"
  /\ ~KeyHeldElsewhere(w)
  /\ \A q \in Intents : hash[q] # tx[w].hash
  /\ tx' = [tx EXCEPT ![w].pc = "written"]
  /\ UNCHANGED <<hash, updatedAt, migration, runs, migrated, arrived>>

\* The index refuses the hash: another transaction has committed it meanwhile.
WriteRefused(w) ==
  /\ tx[w].pc = "lookedUp"
  /\ ~KeyHeldElsewhere(w)
  /\ \E q \in Intents : hash[q] = tx[w].hash
  /\ tx' = [tx EXCEPT ![w] = NoTx]
  /\ UNCHANGED <<hash, updatedAt, migration, runs, migrated, arrived>>

Commit(w) ==
  /\ tx[w].pc = "written"
  /\ hash' = [hash EXCEPT ![tx[w].intent] = tx[w].hash]
  /\ \E t \in Intents : updatedAt' = [updatedAt EXCEPT ![tx[w].intent] = t]
  /\ tx' = [tx EXCEPT ![w] = NoTx]
  /\ arrived' = arrived \cup {tx[w].intent}
  /\ UNCHANGED <<migration, runs, migrated>>

Rollback(w) ==
  /\ tx[w].pc # "idle"
  /\ tx' = [tx EXCEPT ![w] = NoTx]
  /\ UNCHANGED <<hash, updatedAt, migration, runs, migrated, arrived>>

Next ==
  \/ StartMigration \/ CommitMigration
  \/ \E p \in Intents : UpdateRow(p) \/ UpdateRefused(p)
  \/ \E w \in Workers :
       LookUp(w) \/ Write(w) \/ WriteRefused(w) \/ Commit(w) \/ Rollback(w)

Spec == Init /\ [][Next]_vars

-----------------------------------------------------------------------------
(* Properties *)

\* The state is well formed: a migration rewrites confirmed rows only, and a
\* worker confirms with canonical hashes only.
TypeOK ==
  /\ hash \in [Intents -> Spellings \cup {NoHash}]
  /\ updatedAt \in [Intents -> Intents]
  /\ migration \in [pc : {"idle", "updating"}, todo : SUBSET Intents, done : SUBSET Intents]
  /\ migration.todo \cup migration.done \subseteq Confirmed
  /\ runs \in 0..MaxRuns
  /\ migrated \in BOOLEAN
  /\ tx \in [Workers ->
       [pc : {"idle", "lookedUp", "written"}, intent : Intents \cup {0},
        hash : Spellings \cup {NoHash}]]
  /\ arrived \in SUBSET Intents
  /\ \A w \in Workers : tx[w].pc # "idle" =>
       /\ tx[w].intent \in Intents \ Confirmed
       /\ tx[w].hash \in Spellings /\ Canonical[tx[w].hash] = tx[w].hash

\* "Each canonical hash goes to exactly one payment intent": once a run has
\* committed, every stored hash is kept in its canonical spelling by exactly one
\* intent, whatever workers confirm during and after the migration.  The lookup
\* by canonical hash therefore finds every transaction that was used.
OneHolderEach ==
  migrated =>
    \A p \in Confirmed :
      \E q \in Intents :
        /\ hash[q] = Canonical[hash[p]]
        /\ \A r \in Intents \ {q} : hash[r] # Canonical[hash[p]]

\* The unique index, uncommitted entries included, has every key once: what the
\* committed rows, the rewritten rows and the workers' rows store is different,
\* and no two transactions write the same row.
KeysApart ==
  /\ Unique(hash)
  /\ \A p \in migration.done, q \in Intents : hash[q] # NewHash(p)
  /\ \A w \in Workers : tx[w].pc = "written" =>
       /\ \A q \in Intents : hash[q] # tx[w].hash
       /\ \A p \in migration.done : NewHash(p) # tx[w].hash
       /\ \A v \in Workers \ {w} : tx[v].pc = "written" => tx[v].hash # tx[w].hash
  /\ \A v, w \in Workers :
       v # w /\ tx[w].pc # "idle" => tx[v].intent # tx[w].intent

\* The rows the statement has chosen are enough and not too many: one row for
\* every hash that no intent stores in canonical form, and never two for one.
PlanIsExact ==
  LET plan == migration.todo \cup migration.done IN
  /\ \A p \in plan : hash[p] # NewHash(p)
  /\ \A p, q \in plan : p # q => NewHash(p) # NewHash(q)
  /\ migration.pc = "updating" =>
       \A p \in Confirmed :
         \/ \E q \in Intents : hash[q] = Canonical[hash[p]]
         \/ \E q \in plan : NewHash(q) = Canonical[hash[p]]

\* The statement never runs into the unique index by its own choice of rows:
\* a row is refused only when a worker has committed the very hash after the
\* snapshot was taken.
RefusedOnlyByWorker ==
  \A p \in migration.todo :
    KeyTaken(p) => \E q \in arrived : hash[q] = NewHash(p)

\* The migration changes how a hash is spelled, never which transaction an
\* intent was confirmed by, and takes a canonical spelling from nobody.
KeepsTransaction ==
  [][\A p \in Confirmed :
       /\ Canonical[hash'[p]] = Canonical[hash[p]]
       /\ hash[p] = Canonical[hash[p]] => hash'[p] = hash[p]]_vars

\* Once migrated, a worker never confirms an intent with a transaction that has
\* confirmed another one, in whatever spelling.
NoSecondUse ==
  [][\A p \in Intents :
       migrated /\ hash[p] = NoHash /\ hash'[p] # NoHash =>
         \A q \in Confirmed : Canonical[hash[q]] # Canonical[hash'[p]]]_vars

\* A run after a committed one finds nothing to do.
SecondRunIsEmpty == migrated => migration.todo \cup migration.done = {}
=============================================================================
