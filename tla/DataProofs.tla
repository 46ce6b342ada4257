------------------------------ MODULE DataProofs ------------------------------
(***************************************************************************)
(* The hashes a migration rewrites, the amounts a payment is compared by   *)
(* and the answer and the line an error gets, for every table, amount and  *)
(* graph of errors.                                                        *)
(*                                                                         *)
(* The migration: the first row of a group exists (LeastNatural), so the   *)
(* plan of the statement is exact (StartPreserves), and the unique index   *)
(* keeps it exact until the commit (KeysApart).                            *)
(*                                                                         *)
(* The functions are recursive, over the digits of an amount and over the  *)
(* causes of an error.  Their recursions have solutions (Recursion,        *)
(* Descent), which are compared with a reference by induction over the     *)
(* naturals, the predicate given as a set (Induction).                     *)
(***************************************************************************)
EXTENDS TxHashMigration, Amounts, ErrorMapping, WellFoundedInduction, TLAPS

-----------------------------------------------------------------------------
(* Induction and recursion over the naturals *)

\* A set of naturals that is not empty has a least element.
LEMMA LeastNatural ==
  ASSUME NEW T, T \subseteq Nat, T # {}
  PROVE  \E x \in T : \A y \in T : x <= y
<1> DEFINE R == OpToRel(<, Nat)
<1>1. IsWellFoundedOn(R, Nat)
  BY NatLessThanWellFounded, Zenon
<1>2. PICK x \in T : \A y \in T : ~(<<y, x>> \in R)
  <2> HIDE DEF R
  <2> QED  BY <1>1, WFMin, Zenon
<1>3. ASSUME NEW y \in T  PROVE x <= y
  <2>1. ~(<<y, x>> \in {ss \in Nat \X Nat : ss[1] < ss[2]})
    BY <1>2, Zenon DEF OpToRel
  <2> QED  BY <2>1
<1> QED  BY <1>2, <1>3, Zenon

\* Induction over the naturals, the predicate given by the set T it describes.
LEMMA Induction ==
  ASSUME NEW T, 0 \in T, \A n \in Nat : n \in T => n + 1 \in T
  PROVE  Nat \subseteq T
<1> SUFFICES ASSUME Nat \ T # {} PROVE FALSE
  BY Zenon
<1>1. PICK x \in Nat \ T : \A y \in Nat \ T : x <= y
  <2>1. Nat \ T \subseteq Nat
    BY Zenon
  <2> QED  BY <2>1, LeastNatural, Zenon
<1>2. x # 0 /\ x \in Nat
  BY <1>1, Zenon
<1>3. x - 1 \in Nat /\ (x - 1) + 1 = x /\ ~(x <= x - 1)
  BY <1>2
<1>4. x - 1 \in T
  BY <1>1, <1>3, Zenon
<1>5. (x - 1) + 1 \in T
  BY <1>3, <1>4, Zenon
<1> QED  BY <1>1, <1>3, <1>5, Zenon

\* f starts with a and goes on by F.
Iterates(f, S, a, F) ==
  f \in [Nat -> S] /\ f[0] = a /\ \A n \in Nat : f[n + 1] = F[<<n, f[n]>>]

IsStep(F, S) == F \in [Nat \X S -> S]

\* A function may be defined by recursion over the naturals.  The step is a
\* function, so that the lemma is one of first-order logic.
LEMMA Recursion ==
  ASSUME NEW S, NEW a \in S, NEW F, IsStep(F, S)
  PROVE  \E f : Iterates(f, S, a, F)
<1>0. F \in [Nat \X S -> S]
  BY Zenon DEF IsStep
<1> DEFINE Prefix(n) == {g \in [0..n -> S] :
                         g[0] = a /\ \A m \in 0..(n - 1) : g[m + 1] = F[<<m, g[m]>>]}
           T == {n \in Nat : Prefix(n) # {}}
<1>1. 0 \in T
  <2> DEFINE g == [m \in 0..0 |-> a]
  <2>1. g \in Prefix(0)
    OBVIOUS
  <2> QED  BY <2>1
<1>2. ASSUME NEW n \in Nat, n \in T  PROVE n + 1 \in T
  <2>1. PICK g \in [0..n -> S] : g[0] = a /\ \A m \in 0..(n - 1) : g[m + 1] = F[<<m, g[m]>>]
    BY <1>2, Zenon
  <2> DEFINE h == [m \in 0..(n + 1) |-> IF m = n + 1 THEN F[<<n, g[n]>>] ELSE g[m]]
  <2>2. h \in [0..(n + 1) -> S] /\ h[0] = a
    <3>1. \A m \in 0..(n + 1) : m # n + 1 => m \in 0..n
      BY SMT
    <3>2. n \in 0..n /\ 0 \in 0..(n + 1) /\ 0 # n + 1
      BY SMT
    <3>3. g[n] \in S /\ <<n, g[n]>> \in Nat \X S
      BY <3>2, Zenon
    <3>4. F[<<n, g[n]>>] \in S
      BY <1>0, <3>3, Zenon
    <3>5. \A m \in 0..(n + 1) : (IF m = n + 1 THEN F[<<n, g[n]>>] ELSE g[m]) \in S
      BY <3>1, <3>4, Zenon
    <3> QED  BY <2>1, <3>2, <3>5, Zenon
  <2>3. ASSUME NEW m \in 0..n  PROVE h[m + 1] = F[<<m, h[m]>>]
    <3>1. CASE m = n
      <4>1. h[m + 1] = F[<<n, g[n]>>] /\ h[m] = g[n]
        BY <3>1
      <4> QED  BY <3>1, <4>1, Zenon
    <3>2. CASE m # n
      <4>1. h[m + 1] = g[m + 1] /\ h[m] = g[m] /\ m \in 0..(n - 1)
        BY <3>2
      <4> HIDE DEF h
      <4>2. g[m + 1] = F[<<m, g[m]>>]
        BY <2>1, <4>1, Zenon
      <4> QED  BY <4>1, <4>2, Zenon
    <3> QED  BY <3>1, <3>2, Zenon
  <2>4. (n + 1) - 1 = n /\ n + 1 \in Nat
    OBVIOUS
  <2> HIDE DEF h
  <2>5. h \in Prefix(n + 1)
    BY <2>2, <2>3, <2>4, Zenon
  <2> QED  BY <2>4, <2>5, Zenon
<1>3. \A n \in Nat : Prefix(n) # {}
  <2> HIDE DEF T
  <2>1. Nat \subseteq T
    BY <1>1, <1>2, Induction, Zenon
  <2> USE DEF T
  <2> QED  BY <2>1, Zenon
<1> DEFINE G(n) == CHOOSE g : g \in Prefix(n)
<1>4. \A n \in Nat : G(n) \in Prefix(n)
  BY <1>3, Zenon
<1> HIDE DEF G
<1>5. ASSUME NEW n \in Nat, NEW g \in Prefix(n), NEW h \in Prefix(n + 1)
      PROVE  \A i \in 0..n : g[i] = h[i]
  <2> DEFINE U == {i \in Nat : i <= n => g[i] = h[i]}
  <2>1. 0 \in U
    BY Zenon
  <2>2. ASSUME NEW i \in Nat, i \in U  PROVE i + 1 \in U
    <3>0. i + 1 \in Nat
      BY SMT
    <3> SUFFICES ASSUME i + 1 <= n PROVE g[i + 1] = h[i + 1]
      BY <3>0, Zenon
    <3>1. i \in 0..(n - 1) /\ i \in 0..((n + 1) - 1) /\ i <= n
      BY SMT
    <3>2. g[i + 1] = F[<<i, g[i]>>] /\ h[i + 1] = F[<<i, h[i]>>]
      BY <3>1, Zenon
    <3> QED  BY <2>2, <3>1, <3>2, Zenon
  <2> HIDE DEF U
  <2>3. Nat \subseteq U
    BY <2>1, <2>2, Induction, Zenon
  <2> USE DEF U
  <2>4. \A i \in 0..n : i \in Nat /\ i <= n
    BY SMT
  <2> QED  BY <2>3, <2>4, Zenon
<1> DEFINE f == [n \in Nat |-> G(n)[n]]
<1>6. \A n \in Nat : G(n) \in [0..n -> S] /\ n \in 0..n /\ G(n)[0] = a
  <2>1. \A n \in Nat : n \in 0..n
    BY SMT
  <2> QED  BY <1>4, <2>1, Zenon
<1>7. f \in [Nat -> S] /\ f[0] = a
  <2>1. \A n \in Nat : G(n)[n] \in S
    BY <1>6, Zenon
  <2> QED  BY <1>6, <2>1
<1>8. ASSUME NEW n \in Nat  PROVE f[n + 1] = F[<<n, f[n]>>]
  <2>1. n + 1 \in Nat /\ n \in 0..n /\ n \in 0..((n + 1) - 1)
    BY SMT
  <2>2. f[n + 1] = G(n + 1)[n + 1] /\ f[n] = G(n)[n]
    BY <2>1, Zenon
  <2>3. G(n) \in Prefix(n) /\ G(n + 1) \in Prefix(n + 1)
    BY <1>4, <2>1, Zenon
  <2>4. G(n)[n] = G(n + 1)[n]
    <3> HIDE DEF Prefix
    <3> QED  BY <1>5, <2>1, <2>3, Zenon
  <2>5. G(n + 1)[n + 1] = F[<<n, G(n + 1)[n]>>]
    BY <2>1, <2>3, Zenon
  <2> QED  BY <2>2, <2>4, <2>5, Zenon
<1> HIDE DEF f
<1> QED  BY <1>7, <1>8, Zenon DEF Iterates

-----------------------------------------------------------------------------
(* The migration of the transaction hashes *)

\* RefusedOnlyByWorker as the induction needs it: every row in the way of the
\* statement has arrived after its snapshot.
InTheWayArrived ==
  \A p \in migration.todo : \A q \in Intents : hash[q] = NewHash(p) => q \in arrived

\* OneHolderEach without the uniqueness, which KeysApart gives.
SomeHolderEach ==
  migrated => \A p \in Confirmed : \E q \in Intents : hash[q] = Canonical[hash[p]]

IInv ==
  /\ TypeOK /\ KeysApart /\ PlanIsExact /\ InTheWayArrived /\ SomeHolderEach
  /\ SecondRunIsEmpty

-----------------------------------------------------------------------------
(* The plan of the statement *)

\* Every set of intents has a row that is earlier than all its others.
LEMMA EarliestRow ==
  ASSUME updatedAt \in [Intents -> Intents], NEW S, S \subseteq Intents, S # {}
  PROVE  \E p \in S : \A q \in S \ {p} : Earlier(p, q)
<1> USE MigrationAssumption
<1> DEFINE Ages == {updatedAt[p] : p \in S}
<1>1. PICK t \in Ages : \A u \in Ages : t <= u
  <2>1. \A p \in S : updatedAt[p] \in Nat
    BY Zenon
  <2>2. Ages \subseteq Nat
    BY <2>1
  <2>3. PICK s \in S : TRUE
    BY Zenon
  <2>4. updatedAt[s] \in Ages
    BY <2>3
  <2> HIDE DEF Ages
  <2> QED  BY <2>2, <2>4, LeastNatural, Zenon
<1> DEFINE Oldest == {p \in S : updatedAt[p] = t}
<1>2. PICK p \in Oldest : \A q \in Oldest : p <= q
  <2>1. Oldest \subseteq Nat /\ Oldest # {}
    BY <1>1, Zenon
  <2> HIDE DEF Oldest
  <2> QED  BY <2>1, LeastNatural, Zenon
<1>3. ASSUME NEW q \in S \ {p}  PROVE Earlier(p, q)
  <2>1. updatedAt[p] \in Nat /\ updatedAt[q] \in Nat /\ p \in Nat /\ q \in Nat
    BY Zenon
  <2>2. updatedAt[p] = t /\ t <= updatedAt[q]
    BY <1>1
  <2>3. CASE updatedAt[q] = t
    <3>1. p <= q /\ p # q
      BY <1>2, <2>3
    <3> QED  BY <2>1, <2>2, <2>3, <3>1 DEF Earlier
  <2>4. CASE updatedAt[q] # t
    BY <2>1, <2>2, <2>4 DEF Earlier
  <2> QED  BY <2>3, <2>4
<1> QED  BY <1>3

\* A hash without a canonical holder has a row among the targets.
LEMMA PlanCovers ==
  ASSUME TypeOK, NEW p \in Confirmed,
         \A q \in Intents : hash[q] # Canonical[hash[p]]
  PROVE  \E q \in Targets : NewHash(q) = Canonical[hash[p]]
<1> DEFINE c == Canonical[hash[p]]
           G == Group(c)
<1>1. G \subseteq Intents /\ G # {}
  BY DEF Group, Confirmed
<1>2. PICK q \in G : \A r \in G \ {q} : Earlier(q, r)
  <2> HIDE DEF G
  <2> QED  BY <1>1, EarliestRow DEF TypeOK
<1>3. q \in Confirmed /\ Canonical[hash[q]] = c
  BY DEF Group
<1>4. \A r \in G : ~IsCanonical(r)
  BY DEF Group, Confirmed, IsCanonical
<1>5. \A r \in G \ {q} : Before(q, r)
  BY <1>2, <1>4 DEF Before
<1>6. q \in Holders
  BY <1>3, <1>5 DEF Holders
<1>7. q \in Targets
  BY <1>4, <1>6 DEF Targets
<1> QED  BY <1>3, <1>7 DEF NewHash

\* A target is the only target of its group, and no row of it is canonical.
LEMMA TargetsApart ==
  ASSUME TypeOK, NEW p \in Targets
  PROVE  /\ p \in Confirmed /\ hash[p] # NewHash(p)
         /\ \A q \in Targets : q # p => NewHash(q) # NewHash(p)
         /\ \A q \in Intents : hash[q] # NewHash(p)
<1> USE MigrationAssumption
<1>1. p \in Confirmed /\ ~IsCanonical(p) /\ p \in Holders
  BY DEF Targets, Holders
<1>2. hash[p] # NewHash(p)
  BY <1>1 DEF IsCanonical, NewHash
<1>3. ASSUME NEW q \in Targets, q # p, NewHash(q) = NewHash(p)  PROVE FALSE
  <2>1. q \in Confirmed /\ ~IsCanonical(q) /\ q \in Holders
    BY <1>3 DEF Targets, Holders
  <2>2. q \in Group(Canonical[hash[p]]) /\ p \in Group(Canonical[hash[q]])
    BY <1>1, <1>3, <2>1 DEF Group, NewHash
  <2>3. Before(p, q) /\ Before(q, p)
    BY <1>1, <1>3, <2>1, <2>2 DEF Holders
  <2>4. Earlier(p, q) /\ Earlier(q, p)
    BY <1>1, <2>1, <2>3 DEF Before
  <2>5. updatedAt[p] \in Nat /\ updatedAt[q] \in Nat /\ p \in Nat /\ q \in Nat
    BY <1>1, <2>1, Zenon DEF TypeOK, Confirmed
  <2> QED  BY <2>4, <2>5 DEF Earlier
<1>4. ASSUME NEW q \in Intents, hash[q] = NewHash(p)  PROVE FALSE
  <2>1. hash[p] \in Spellings /\ p \in Intents
    BY <1>1 DEF TypeOK, Confirmed
  <2>2. q \in Confirmed /\ Canonical[hash[q]] = Canonical[hash[p]] /\ IsCanonical(q)
    BY <1>4, <2>1 DEF NewHash, Confirmed, IsCanonical
  <2>3. q \in Group(Canonical[hash[p]]) /\ q # p
    BY <1>1, <2>2 DEF Group
  <2>4. Before(p, q)
    BY <1>1, <2>3 DEF Holders
  <2> QED  BY <1>1, <2>2, <2>4 DEF Before
<1> QED  BY <1>1, <1>2, <1>3, <1>4

-----------------------------------------------------------------------------
(* The steps of the migration *)

\* Any table that respects the unique index satisfies the hypothesis.
LEMMA InitEstablishes == Init => IInv
<1> SUFFICES ASSUME Init
             PROVE  IInv
  OBVIOUS
<1> USE MigrationAssumption
<1>1. TypeOK
  <2>1. migration \in [pc : {"idle", "updating"}, todo : SUBSET Intents, done : SUBSET Intents]
    BY DEF Init, NoMigration
  <2>2. migration.todo \cup migration.done \subseteq Confirmed
    BY DEF Init, NoMigration
  <2>3. tx \in [Workers -> [pc : {"idle", "lookedUp", "written"}, intent : Intents \cup {0},
                            hash : Spellings \cup {NoHash}]]
    BY DEF Init, NoTx
  <2>4. \A w \in Workers : tx[w].pc = "idle"
    BY DEF Init, NoTx
  <2>5. /\ hash \in [Intents -> Spellings \cup {NoHash}]
        /\ updatedAt \in [Intents -> Intents]
        /\ runs \in 0..MaxRuns /\ arrived \in SUBSET Intents
    BY DEF Init
  <2>6. migrated \in BOOLEAN
    BY Zenon DEF Init
  <2> QED  BY <2>1, <2>2, <2>3, <2>4, <2>5, <2>6 DEF TypeOK
<1>2. KeysApart
  BY DEF Init, KeysApart, NoMigration, NoTx
<1>3. PlanIsExact
  BY DEF Init, PlanIsExact, NoMigration
<1>4. InTheWayArrived /\ SomeHolderEach /\ SecondRunIsEmpty
  BY DEF Init, InTheWayArrived, SomeHolderEach, SecondRunIsEmpty, NoMigration
<1> QED  BY <1>1, <1>2, <1>3, <1>4 DEF IInv

\* The snapshot of the statement gives an exact plan, and an empty one after a
\* committed run.
LEMMA StartPreserves ==
  ASSUME IInv, StartMigration
  PROVE  IInv'
<1> USE MigrationAssumption
<1>1. /\ migration'.pc = "updating" /\ migration'.todo = Targets /\ migration'.done = {}
      /\ hash' = hash /\ updatedAt' = updatedAt /\ tx' = tx /\ migrated' = migrated
      /\ arrived' = {} /\ runs' = runs + 1 /\ runs < MaxRuns
  BY DEF StartMigration
<1>2. TypeOK
  BY DEF IInv
<1>3. Targets \subseteq Confirmed
  BY DEF Targets, Holders
<1>4. TypeOK'
  <2>1. migration' \in [pc : {"idle", "updating"}, todo : SUBSET Intents, done : SUBSET Intents]
    BY <1>3 DEF StartMigration, Confirmed
  <2>2. migration'.todo \cup migration'.done \subseteq Confirmed'
    BY <1>1, <1>3 DEF Confirmed
  <2>3. runs' \in 0..MaxRuns
    BY <1>1, <1>2 DEF TypeOK
  <2> QED  BY <1>1, <1>2, <2>1, <2>2, <2>3 DEF TypeOK, Confirmed
<1>5. KeysApart'
  BY <1>1 DEF IInv, KeysApart, Unique, NewHash
<1>6. PlanIsExact'
  <2>1. \A p \in Targets : hash[p] # NewHash(p)
    BY <1>2, TargetsApart
  <2>2. \A p, q \in Targets : p # q => NewHash(p) # NewHash(q)
    BY <1>2, TargetsApart
  <2>3. \A p \in Confirmed :
          \/ \E q \in Intents : hash[q] = Canonical[hash[p]]
          \/ \E q \in Targets : NewHash(q) = Canonical[hash[p]]
    BY <1>2, PlanCovers
  <2> QED  BY <1>1, <2>1, <2>2, <2>3 DEF PlanIsExact, NewHash, Confirmed
<1>7. InTheWayArrived'
  <2>1. \A p \in Targets, q \in Intents : hash[q] # NewHash(p)
    BY <1>2, TargetsApart
  <2> QED  BY <1>1, <2>1 DEF InTheWayArrived, NewHash
<1>8. SomeHolderEach'
  BY <1>1, Zenon DEF IInv, SomeHolderEach, Confirmed
<1>9. SecondRunIsEmpty'
  <2> SUFFICES ASSUME migrated, NEW p \in Targets
               PROVE  FALSE
    BY <1>1 DEF SecondRunIsEmpty
  <2>1. p \in Confirmed /\ \A q \in Intents : hash[q] # NewHash(p)
    BY <1>2, TargetsApart
  <2> QED  BY <2>1 DEF IInv, SomeHolderEach, NewHash
<1> QED  BY <1>4, <1>5, <1>6, <1>7, <1>8, <1>9 DEF IInv

\* Rewriting a row moves it from the plan into the index.
LEMMA UpdateRowPreserves ==
  ASSUME IInv, NEW p \in Intents, UpdateRow(p)
  PROVE  IInv'
<1> USE MigrationAssumption
<1>1. /\ p \in migration.todo /\ migration.pc = "updating" /\ migration'.pc = "updating"
      /\ migration'.todo = migration.todo \ {p}
      /\ migration'.done = migration.done \cup {p}
      /\ hash' = hash /\ updatedAt' = updatedAt /\ tx' = tx /\ migrated' = migrated
      /\ arrived' = arrived /\ runs' = runs
  BY DEF UpdateRow, IInv, TypeOK
<1>2. TypeOK'
  <2>1. migration' \in [pc : {"idle", "updating"}, todo : SUBSET Intents, done : SUBSET Intents]
    BY Zenon DEF IInv, TypeOK, UpdateRow
  <2> QED  BY <1>1, <2>1 DEF IInv, TypeOK, Confirmed
<1>3. \A q \in Intents : hash[q] # NewHash(p)
  <2>1. \A q \in Intents \ (migration.done \cup {p}) : hash[q] # NewHash(p)
    BY DEF UpdateRow, KeyTaken
  <2>2. ASSUME NEW q \in migration.done  PROVE hash[q] # NewHash(p)
    <3>1. q \in Intents /\ hash[q] \in Spellings /\ hash[p] \in Spellings
      BY <1>1, <2>2 DEF IInv, TypeOK, Confirmed
    <3>2. hash[q] # Canonical[hash[q]]
      BY <2>2 DEF IInv, PlanIsExact, NewHash
    <3> QED  BY <3>1, <3>2 DEF NewHash
  <2>3. hash[p] # NewHash(p)
    BY <1>1 DEF IInv, PlanIsExact
  <2> QED  BY <2>1, <2>2, <2>3, Zenon
<1>4. \A w \in Workers : tx[w].pc = "written" => tx[w].hash # NewHash(p)
  BY DEF UpdateRow, KeyHeldByWorker
<1>5. KeysApart'
  BY <1>1, <1>3, <1>4 DEF IInv, KeysApart, Unique, NewHash
<1>6. PlanIsExact'
  <2>1. migration'.todo \cup migration'.done = migration.todo \cup migration.done
    BY <1>1
  <2> QED  BY <1>1, <2>1 DEF IInv, PlanIsExact, NewHash, Confirmed
<1>7. InTheWayArrived' /\ SomeHolderEach'
  BY <1>1 DEF IInv, InTheWayArrived, SomeHolderEach, NewHash, Confirmed
<1>8. SecondRunIsEmpty'
  BY <1>1 DEF IInv, SecondRunIsEmpty
<1> QED  BY <1>2, <1>5, <1>6, <1>7, <1>8 DEF IInv

\* A refused row ends the transaction and leaves the table as it was.
LEMMA RefusedPreserves ==
  ASSUME IInv, NEW p \in Intents, UpdateRefused(p)
  PROVE  IInv'
<1>1. /\ migration'.pc = "idle" /\ migration'.todo = {} /\ migration'.done = {}
      /\ hash' = hash /\ updatedAt' = updatedAt /\ tx' = tx /\ migrated' = migrated
      /\ arrived' = arrived /\ runs' = runs
  BY DEF UpdateRefused, NoMigration
<1>2. TypeOK'
  <2>1. migration' \in [pc : {"idle", "updating"}, todo : SUBSET Intents, done : SUBSET Intents]
    BY DEF UpdateRefused, NoMigration
  <2> QED  BY <1>1, <2>1 DEF IInv, TypeOK, Confirmed
<1>3. KeysApart'
  BY <1>1 DEF IInv, KeysApart, Unique, NewHash
<1>4. PlanIsExact' /\ InTheWayArrived' /\ SecondRunIsEmpty'
  BY <1>1 DEF PlanIsExact, InTheWayArrived, SecondRunIsEmpty
<1>5. SomeHolderEach'
  BY <1>1 DEF IInv, SomeHolderEach, Confirmed
<1> QED  BY <1>2, <1>3, <1>4, <1>5 DEF IInv

\* The commit of the migration puts the plan into effect.
LEMMA CommitMigrationPreserves ==
  ASSUME IInv, CommitMigration
  PROVE  IInv'
<1> USE MigrationAssumption
<1>1. /\ migration.pc = "updating" /\ migration.todo = {}
      /\ migration'.pc = "idle" /\ migration'.todo = {} /\ migration'.done = {}
      /\ updatedAt' = updatedAt /\ tx' = tx /\ migrated' = TRUE
      /\ arrived' = arrived /\ runs' = runs
  BY DEF CommitMigration, NoMigration
<1>2. \A p \in Intents :
        hash'[p] = IF p \in migration.done THEN Canonical[hash[p]] ELSE hash[p]
  BY DEF CommitMigration, NewHash
<1>3. migration.done \subseteq Confirmed
  BY DEF IInv, TypeOK
<1>4. \A p \in Confirmed : hash[p] \in Spellings /\ p \in Intents
  BY DEF IInv, TypeOK, Confirmed
<1>5. \A p \in Confirmed : hash'[p] \in Spellings /\ Canonical[hash'[p]] = Canonical[hash[p]]
  BY <1>2, <1>4, Zenon
<1>6. Confirmed' = Confirmed
  <2>1. \A p \in Intents : hash'[p] # NoHash <=> hash[p] # NoHash
    <3> SUFFICES ASSUME NEW p \in Intents PROVE hash'[p] # NoHash <=> hash[p] # NoHash
      OBVIOUS
    <3>1. CASE p \in migration.done
      BY <1>3, <1>5, <3>1 DEF Confirmed
    <3>2. CASE p \notin migration.done
      BY <1>2, <3>2
    <3> QED  BY <3>1, <3>2
  <2> QED  BY <2>1, Zenon DEF Confirmed
<1>7. TypeOK'
  <2>1. hash' \in [Intents -> Spellings \cup {NoHash}]
    BY <1>3, <1>4 DEF IInv, TypeOK, CommitMigration, NewHash
  <2>2. migration' \in [pc : {"idle", "updating"}, todo : SUBSET Intents, done : SUBSET Intents]
    BY DEF CommitMigration, NoMigration
  <2> QED  BY <1>1, <1>6, <2>1, <2>2 DEF IInv, TypeOK
<1>8. \A p \in migration.done, q \in Intents : hash[q] # Canonical[hash[p]]
  BY Zenon DEF IInv, KeysApart, NewHash
<1>9. \A p, q \in migration.done : p # q => Canonical[hash[p]] # Canonical[hash[q]]
  BY DEF IInv, PlanIsExact, NewHash
<1>10. Unique(hash')
  <2> SUFFICES ASSUME NEW p \in Intents, NEW q \in Intents, p # q, hash'[p] # NoHash,
                      hash'[p] = hash'[q]
               PROVE  FALSE
    BY DEF Unique
  <2>1. CASE p \in migration.done /\ q \in migration.done
    BY <1>2, <1>9, <2>1
  <2>2. CASE p \in migration.done /\ q \notin migration.done
    BY <1>2, <1>8, <2>2
  <2>3. CASE p \notin migration.done /\ q \in migration.done
    BY <1>2, <1>8, <2>3
  <2>4. CASE p \notin migration.done /\ q \notin migration.done
    BY <1>2, <2>4 DEF IInv, KeysApart, Unique
  <2> QED  BY <2>1, <2>2, <2>3, <2>4
<1>11. ASSUME NEW w \in Workers, tx[w].pc = "written", NEW q \in Intents
       PROVE  hash'[q] # tx[w].hash
  <2>1. hash[q] # tx[w].hash
    BY <1>11, Zenon DEF IInv, KeysApart
  <2>2. q \in migration.done => Canonical[hash[q]] # tx[w].hash
    BY <1>11 DEF IInv, KeysApart, NewHash
  <2> QED  BY <1>2, <2>1, <2>2
<1>12. KeysApart'
  BY <1>1, <1>10, <1>11 DEF IInv, KeysApart
<1>13. SomeHolderEach'
  <2> SUFFICES ASSUME NEW p \in Confirmed
               PROVE  \E q \in Intents : hash'[q] = Canonical[hash[p]]
    BY <1>5, <1>6 DEF SomeHolderEach
  <2>1. CASE \E q \in migration.done : NewHash(q) = Canonical[hash[p]]
    BY <1>2, <1>3, <1>4, <2>1, Zenon DEF NewHash
  <2>2. CASE \E q \in Intents : hash[q] = Canonical[hash[p]]
    <3>1. PICK q \in Intents : hash[q] = Canonical[hash[p]]
      BY <2>2
    <3>2. Canonical[hash[q]] = hash[q]
      BY <1>4, <3>1
    <3>3. hash'[q] = hash[q]
      BY <1>2, <3>2
    <3> QED  BY <3>1, <3>3, Zenon
  <2> QED  BY <1>1, <2>1, <2>2 DEF IInv, PlanIsExact
<1>14. PlanIsExact' /\ InTheWayArrived' /\ SecondRunIsEmpty'
  BY <1>1 DEF PlanIsExact, InTheWayArrived, SecondRunIsEmpty
<1> QED  BY <1>7, <1>12, <1>13, <1>14 DEF IInv

-----------------------------------------------------------------------------
(* The steps of the workers *)

TxType ==
  [pc : {"idle", "lookedUp", "written"}, intent : Intents \cup {0},
   hash : Spellings \cup {NoHash}]

\* What a worker's open transaction knows: an unconfirmed row and a canonical hash.
OpenTx(t) ==
  /\ t.intent \in Intents \ Confirmed
  /\ t.hash \in Spellings /\ Canonical[t.hash] = t.hash

\* Before its commit a worker changes nothing but its own transaction; it has to
\* show that its keys and its row are still its own.
LEMMA WorkerPreserves ==
  ASSUME IInv, NEW w \in Workers, NEW t \in TxType,
         tx' = [tx EXCEPT ![w] = t],
         UNCHANGED <<hash, updatedAt, migration, runs, migrated, arrived>>,
         t.pc # "idle" => OpenTx(t),
         t.pc = "idle" => t.intent = 0,
         t.pc # "idle" => \A v \in Workers \ {w} : tx[v].intent # t.intent,
         t.pc = "written" =>
           /\ \A q \in Intents : hash[q] # t.hash
           /\ \A p \in migration.done : NewHash(p) # t.hash
           /\ \A v \in Workers \ {w} : tx[v].pc = "written" => tx[v].hash # t.hash
  PROVE  IInv'
<1> USE MigrationAssumption
<1>1. tx \in [Workers -> TxType]
  BY DEF IInv, TypeOK, TxType
<1>2. tx'[w] = t /\ \A v \in Workers \ {w} : tx'[v] = tx[v]
  BY <1>1
<1>3. tx' \in [Workers -> TxType]
  BY <1>1
<1>4. \A v \in Workers : tx[v].pc # "idle" => OpenTx(tx[v])
  BY DEF IInv, TypeOK, OpenTx
<1>5. \A v \in Workers : tx'[v].pc # "idle" => OpenTx(tx'[v])
  BY <1>2, <1>4
<1>6. TypeOK'
  BY <1>3, <1>5 DEF IInv, TypeOK, TxType, OpenTx, Confirmed
<1>7. Unique(hash') /\ \A p \in migration'.done, q \in Intents : hash'[q] # NewHash(p)'
  BY DEF IInv, KeysApart, Unique, NewHash
<1>8. ASSUME NEW v \in Workers, tx'[v].pc = "written"
      PROVE  /\ \A q \in Intents : hash[q] # tx'[v].hash
             /\ \A p \in migration.done : NewHash(p) # tx'[v].hash
             /\ \A u \in Workers \ {v} : tx'[u].pc = "written" => tx'[u].hash # tx'[v].hash
  BY <1>2, <1>8 DEF IInv, KeysApart
<1>9. ASSUME NEW u \in Workers, NEW v \in Workers, u # v, tx'[v].pc # "idle"
      PROVE  tx'[u].intent # tx'[v].intent
  <2>1. CASE u = w /\ t.pc = "idle"
    <3>1. tx'[v].intent \in Intents
      BY <1>5, <1>9 DEF OpenTx
    <3> QED  BY <1>2, <2>1, <3>1
  <2>2. CASE u = w /\ t.pc # "idle"
    BY <1>2, <1>9, <2>2
  <2>3. CASE u # w
    BY <1>2, <1>9, <2>3 DEF IInv, KeysApart
  <2> QED  BY <2>1, <2>2, <2>3
<1>10. KeysApart'
  BY <1>7, <1>8, <1>9 DEF KeysApart, NewHash
<1>11. PlanIsExact' /\ InTheWayArrived' /\ SomeHolderEach' /\ SecondRunIsEmpty'
  BY DEF IInv, PlanIsExact, InTheWayArrived, SomeHolderEach, SecondRunIsEmpty, NewHash,
         Confirmed
<1> QED  BY <1>6, <1>10, <1>11 DEF IInv

\* The steps of a worker up to its commit.
LEMMA LookUpPreserves ==
  ASSUME IInv, NEW w \in Workers, LookUp(w)
  PROVE  IInv'
<1> USE MigrationAssumption
<1>1. PICK p \in Intents \ Confirmed, s \in Spellings :
        /\ \A v \in Workers : tx[v].intent # p
        /\ tx' = [tx EXCEPT ![w] = [pc |-> "lookedUp", intent |-> p, hash |-> Canonical[s]]]
  BY Zenon DEF LookUp
<1> DEFINE t == [pc |-> "lookedUp", intent |-> p, hash |-> Canonical[s]]
<1>2. t \in TxType
  BY DEF TxType
<1>3. OpenTx(t) /\ t.pc = "lookedUp" /\ t.intent = p
  BY DEF OpenTx
<1>4. UNCHANGED <<hash, updatedAt, migration, runs, migrated, arrived>>
  BY DEF LookUp
<1>5. tx' = [tx EXCEPT ![w] = t]
  BY <1>1
<1>6. \A v \in Workers \ {w} : tx[v].intent # t.intent
  BY <1>1, <1>3
<1> HIDE DEF t
<1> HIDE MigrationAssumption
<1> QED  BY <1>2, <1>3, <1>4, <1>5, <1>6, WorkerPreserves, Zenon

\* A worker writes a hash that nobody holds, committed or not.
LEMMA WritePreserves ==
  ASSUME IInv, NEW w \in Workers, Write(w)
  PROVE  IInv'
<1> DEFINE t == [tx[w] EXCEPT !.pc = "written"]
<1>1. tx[w] \in TxType /\ tx[w].pc = "lookedUp"
  BY DEF IInv, TypeOK, TxType, Write
<1>2. t \in TxType /\ t.pc = "written" /\ t.intent = tx[w].intent /\ t.hash = tx[w].hash
  BY <1>1 DEF TxType
<1>3. OpenTx(tx[w])
  BY <1>1 DEF IInv, TypeOK, OpenTx
<1>4. OpenTx(t)
  BY <1>2, <1>3 DEF OpenTx
<1>5. tx' = [tx EXCEPT ![w] = t]
  BY DEF Write, IInv, TypeOK
<1>6. \A v \in Workers \ {w} : tx[v].intent # t.intent
  BY <1>1, <1>2 DEF IInv, KeysApart
<1>7. /\ \A q \in Intents : hash[q] # t.hash
      /\ \A p \in migration.done : NewHash(p) # t.hash
      /\ \A v \in Workers \ {w} : tx[v].pc = "written" => tx[v].hash # t.hash
  BY <1>2 DEF Write, KeyHeldElsewhere
<1>8. UNCHANGED <<hash, updatedAt, migration, runs, migrated, arrived>>
  BY DEF Write
<1> HIDE DEF t
<1> QED  BY <1>2, <1>4, <1>5, <1>6, <1>7, <1>8, WorkerPreserves, Zenon

\* A worker whose write is refused, or that rolls back, gives up its row.
LEMMA EndPreserves ==
  ASSUME IInv, NEW w \in Workers, WriteRefused(w) \/ Rollback(w)
  PROVE  IInv'
<1>1. NoTx \in TxType /\ NoTx.pc = "idle" /\ NoTx.intent = 0
  BY DEF NoTx, TxType
<1>2. /\ tx' = [tx EXCEPT ![w] = NoTx]
      /\ UNCHANGED <<hash, updatedAt, migration, runs, migrated, arrived>>
  BY DEF WriteRefused, Rollback
<1> QED  BY <1>1, <1>2, WorkerPreserves, Zenon

\* The commit of a worker adds a canonical hash that nobody else has.
LEMMA CommitPreserves ==
  ASSUME IInv, NEW w \in Workers, Commit(w)
  PROVE  IInv'
<1> USE MigrationAssumption
<1> DEFINE i == tx[w].intent
           h == tx[w].hash
<1>1. tx \in [Workers -> TxType] /\ tx[w].pc = "written"
  BY DEF IInv, TypeOK, TxType, Commit
<1>2. OpenTx(tx[w])
  BY <1>1 DEF IInv, TypeOK, OpenTx
<1>3. i \in Intents /\ i \notin Confirmed /\ h \in Spellings /\ Canonical[h] = h
  BY <1>2 DEF OpenTx
<1>4. /\ hash' = [hash EXCEPT ![i] = h]
      /\ tx' = [tx EXCEPT ![w] = NoTx]
      /\ arrived' = arrived \cup {i}
      /\ migration' = migration /\ runs' = runs /\ migrated' = migrated
  BY DEF Commit
<1>5. updatedAt' \in [Intents -> Intents]
  BY DEF Commit, IInv, TypeOK
<1>6. NoTx \in TxType /\ NoTx.pc = "idle" /\ NoTx.intent = 0
  BY DEF NoTx, TxType
<1>7. tx'[w] = NoTx /\ \A v \in Workers \ {w} : tx'[v] = tx[v]
  BY <1>1, <1>4
<1>8. tx' \in [Workers -> TxType]
  BY <1>1, <1>4, <1>6
<1>9. /\ \A q \in Intents : hash[q] # h
      /\ \A p \in migration.done : NewHash(p) # h
      /\ \A v \in Workers \ {w} : tx[v].pc = "written" => tx[v].hash # h
      /\ \A v \in Workers \ {w} : tx[v].pc # "idle" => tx[v].intent # i
  BY <1>1 DEF IInv, KeysApart
<1> HIDE DEF i, h
<1>10. hash'[i] = h /\ \A q \in Intents \ {i} : hash'[q] = hash[q]
  BY <1>3, <1>4 DEF IInv, TypeOK
<1>11. Confirmed' = Confirmed \cup {i}
  BY <1>3, <1>10, Zenon DEF Confirmed
<1>12. migration.todo \cup migration.done \subseteq Confirmed
  BY DEF IInv, TypeOK
<1>13. \A p \in Confirmed : p \in Intents /\ p # i /\ hash'[p] = hash[p]
  BY <1>3, <1>10 DEF Confirmed
<1>14. \A p \in Confirmed : NewHash(p)' = NewHash(p)
  BY <1>13 DEF NewHash
<1>15. TypeOK'
  <2>1. hash' \in [Intents -> Spellings \cup {NoHash}]
    BY <1>3, <1>4 DEF IInv, TypeOK
  <2>2. \A v \in Workers : tx'[v].pc # "idle" =>
          /\ tx'[v].intent \in Intents \ Confirmed'
          /\ tx'[v].hash \in Spellings /\ Canonical[tx'[v].hash] = tx'[v].hash
    BY <1>6, <1>7, <1>9, <1>11, SMTT(20) DEF IInv, TypeOK
  <2> QED  BY <1>3, <1>4, <1>5, <1>8, <1>11, <1>12, <2>1, <2>2 DEF IInv, TypeOK, TxType
<1>16. KeysApart'
  <2>1. Unique(hash')
    BY <1>9, <1>10 DEF IInv, KeysApart, Unique
  <2>2. \A p \in migration.done, q \in Intents : hash'[q] # NewHash(p)
    BY <1>9, <1>10 DEF IInv, KeysApart
  <2>3. \A p \in migration'.done, q \in Intents : hash'[q] # NewHash(p)'
    BY <1>4, <1>12, <1>14, <2>2, Zenon
  <2>4. ASSUME NEW v \in Workers, tx'[v].pc = "written"
        PROVE  /\ v # w /\ tx'[v] = tx[v]
               /\ \A q \in Intents : hash'[q] # tx'[v].hash
               /\ \A p \in migration.done : NewHash(p) # tx'[v].hash
               /\ \A u \in Workers \ {v} : tx'[u].pc = "written" => tx'[u].hash # tx'[v].hash
    <3>1. v # w /\ tx'[v] = tx[v]
      BY <1>6, <1>7, <2>4
    <3>2. \A q \in Intents : hash'[q] # tx'[v].hash
      BY <1>9, <1>10, <2>4, <3>1 DEF IInv, KeysApart
    <3>3. \A p \in migration.done : NewHash(p) # tx'[v].hash
      BY <2>4, <3>1 DEF IInv, KeysApart
    <3>4. \A u \in Workers \ {v} : tx'[u].pc = "written" => tx'[u].hash # tx'[v].hash
      BY <1>6, <1>7, <2>4, <3>1 DEF IInv, KeysApart
    <3> QED  BY <3>1, <3>2, <3>3, <3>4
  <2>5. \A v \in Workers : tx'[v].pc = "written" =>
          \A p \in migration'.done : NewHash(p)' # tx'[v].hash
    BY <1>4, <1>12, <1>14, <2>4
  <2>6. ASSUME NEW u \in Workers, NEW v \in Workers, u # v, tx'[v].pc # "idle"
        PROVE  tx'[u].intent # tx'[v].intent
    <3>1. v # w /\ tx'[v] = tx[v] /\ tx[v].intent \in Intents
      BY <1>6, <1>7, <2>6 DEF IInv, TypeOK
    <3>2. CASE u = w
      BY <1>6, <1>7, <3>1, <3>2
    <3>3. CASE u # w
      BY <1>7, <2>6, <3>1, <3>3 DEF IInv, KeysApart
    <3> QED  BY <3>2, <3>3
  <2> QED  BY <2>1, <2>3, <2>4, <2>5, <2>6, SMTT(20) DEF KeysApart
<1>17. \A q \in Intents : hash[q] \in Spellings => hash'[q] = hash[q]
  BY <1>13 DEF Confirmed
<1>18. \A p \in Confirmed : Canonical[hash[p]] \in Spellings
  BY DEF IInv, TypeOK, Confirmed
<1>19. PlanIsExact'
  <2>1. \A p \in migration'.todo \cup migration'.done : hash'[p] # NewHash(p)'
    BY <1>4, <1>12, <1>13, <1>14 DEF IInv, PlanIsExact
  <2>2. \A p, q \in migration'.todo \cup migration'.done : p # q => NewHash(p)' # NewHash(q)'
    BY <1>4, <1>12, <1>14 DEF IInv, PlanIsExact
  <2>3. ASSUME NEW p \in Confirmed', migration.pc = "updating"
        PROVE  \/ \E q \in Intents : hash'[q] = Canonical[hash'[p]]
               \/ \E q \in migration.todo \cup migration.done : NewHash(q) = Canonical[hash'[p]]
    <3>1. CASE p = i
      BY <1>3, <1>10, <3>1
    <3>2. CASE p \in Confirmed
      <4>1. \/ \E q \in Intents : hash[q] = Canonical[hash[p]]
            \/ \E q \in migration.todo \cup migration.done : NewHash(q) = Canonical[hash[p]]
        BY <2>3, <3>2 DEF IInv, PlanIsExact
      <4> QED  BY <1>13, <1>17, <1>18, <3>2, <4>1
    <3> QED  BY <1>11, <3>1, <3>2
  <2>4. ASSUME NEW p \in Confirmed', migration.pc = "updating"
        PROVE  \/ \E q \in Intents : hash'[q] = Canonical[hash'[p]]
               \/ \E q \in migration.todo \cup migration.done : NewHash(q)' = Canonical[hash'[p]]
    BY <1>12, <1>14, <2>3, <2>4
  <2> QED  BY <1>4, <2>1, <2>2, <2>4 DEF PlanIsExact
<1>20. InTheWayArrived'
  BY <1>4, <1>10, <1>12, <1>14 DEF IInv, InTheWayArrived
<1>21. SomeHolderEach'
  <2> SUFFICES ASSUME migrated, NEW p \in Confirmed'
               PROVE  \E q \in Intents : hash'[q] = Canonical[hash'[p]]
    BY <1>4 DEF SomeHolderEach
  <2>1. CASE p = i
    BY <1>3, <1>10, <2>1, Zenon
  <2>2. CASE p \in Confirmed
    <3>1. PICK q \in Intents : hash[q] = Canonical[hash[p]]
      BY <2>2 DEF IInv, SomeHolderEach
    <3> QED  BY <1>13, <1>17, <1>18, <2>2, <3>1
  <2> QED  BY <1>11, <2>1, <2>2
<1>22. SecondRunIsEmpty'
  BY <1>4 DEF IInv, SecondRunIsEmpty
<1> QED  BY <1>15, <1>16, <1>19, <1>20, <1>21, <1>22 DEF IInv

-----------------------------------------------------------------------------
(* The invariant and the properties *)

\* A step that changes nothing.
LEMMA StutterPreserves ==
  ASSUME IInv, UNCHANGED vars
  PROVE  IInv'
<1>1. TypeOK'
  BY SMTT(20) DEF vars, IInv, TypeOK, Confirmed
<1>2. KeysApart'
  BY DEF vars, IInv, KeysApart, Unique, NewHash
<1>3. PlanIsExact' /\ InTheWayArrived'
  BY DEF vars, IInv, PlanIsExact, InTheWayArrived, NewHash, Confirmed
<1>4. SomeHolderEach' /\ SecondRunIsEmpty'
  BY DEF vars, IInv, SomeHolderEach, SecondRunIsEmpty, Confirmed
<1> QED  BY <1>1, <1>2, <1>3, <1>4, SMTT(20) DEF IInv

\* IInv is inductive.
LEMMA Invariance == Spec => []IInv
<1>1. Init => IInv
  BY InitEstablishes
<1>2. IInv /\ [Next]_vars => IInv'
  <2> SUFFICES ASSUME IInv, [Next]_vars  PROVE IInv'
    OBVIOUS
  <2>1. CASE StartMigration \/ CommitMigration
    BY <2>1, StartPreserves, CommitMigrationPreserves
  <2>2. ASSUME NEW p \in Intents, UpdateRow(p) \/ UpdateRefused(p)  PROVE IInv'
    BY <2>2, UpdateRowPreserves, RefusedPreserves
  <2>3. ASSUME NEW w \in Workers, LookUp(w) \/ Write(w)  PROVE IInv'
    BY <2>3, LookUpPreserves, WritePreserves
  <2>4. ASSUME NEW w \in Workers, WriteRefused(w) \/ Commit(w) \/ Rollback(w)  PROVE IInv'
    BY <2>4, EndPreserves, CommitPreserves
  <2>5. CASE UNCHANGED vars
    BY <2>5, StutterPreserves
  <2> QED  BY <2>1, <2>2, <2>3, <2>4, <2>5 DEF Next
<1> QED  BY <1>1, <1>2, PTL DEF Spec

\* After a committed run of migration NormalizeConfirmedTxHashes every stored
\* hash is kept in canonical form by exactly one intent, for any table, any
\* spellings and any number of workers confirming meanwhile.
THEOREM OneHolder == Spec => []OneHolderEach
<1>1. IInv => OneHolderEach
  <2> SUFFICES ASSUME IInv, migrated, NEW p \in Confirmed
               PROVE  \E q \in Intents :
                        /\ hash[q] = Canonical[hash[p]]
                        /\ \A r \in Intents \ {q} : hash[r] # Canonical[hash[p]]
    BY DEF OneHolderEach
  <2>1. PICK q \in Intents : hash[q] = Canonical[hash[p]]
    BY DEF IInv, SomeHolderEach
  <2>2. hash[q] # NoHash
    BY <2>1, MigrationAssumption DEF IInv, TypeOK, Confirmed
  <2>3. \A r \in Intents \ {q} : hash[r] # hash[q]
    BY <2>2 DEF IInv, KeysApart, Unique
  <2> QED  BY <2>1, <2>3
<1> QED  BY <1>1, Invariance, PTL

\* The UPDATE of the migration is refused by the unique index only when a worker
\* has committed the hash after the statement's snapshot.
THEOREM RefusedByWorkerOnly == Spec => []RefusedOnlyByWorker
<1>1. IInv => RefusedOnlyByWorker
  BY DEF IInv, InTheWayArrived, RefusedOnlyByWorker, KeyTaken
<1> QED  BY <1>1, Invariance, PTL

\* A second run of the migration plans no row.
THEOREM RunsOnce == Spec => []SecondRunIsEmpty
<1>1. IInv => SecondRunIsEmpty
  BY SMTT(20) DEF IInv
<1> QED  BY <1>1, Invariance, PTL

\* Who changes the table: the commit of the migration, or of a worker.
LEMMA HashChange ==
  ASSUME [Next]_vars, hash' # hash
  PROVE  CommitMigration \/ \E w \in Workers : Commit(w)
BY Zenon DEF Next, vars, StartMigration, UpdateRow, UpdateRefused, LookUp, Write, WriteRefused,
       Rollback

\* What a worker's commit does to the table.
LEMMA CommitHash ==
  ASSUME IInv, NEW w \in Workers, Commit(w)
  PROVE  /\ tx[w].intent \in Intents \ Confirmed
         /\ tx[w].hash \in Spellings /\ Canonical[tx[w].hash] = tx[w].hash
         /\ \A q \in Intents : hash[q] # tx[w].hash
         /\ hash'[tx[w].intent] = tx[w].hash
         /\ \A q \in Intents \ {tx[w].intent} : hash'[q] = hash[q]
<1>1. tx[w].pc = "written" /\ hash' = [hash EXCEPT ![tx[w].intent] = tx[w].hash]
  BY DEF Commit
<1> QED  BY <1>1 DEF IInv, TypeOK, KeysApart

\* No step changes which transaction an intent was confirmed by, nor takes the
\* canonical spelling from the intent that has it.
THEOREM TransactionKept == Spec => KeepsTransaction
<1>1. ASSUME IInv, [Next]_vars, NEW p \in Confirmed
      PROVE  /\ Canonical[hash'[p]] = Canonical[hash[p]]
             /\ hash[p] = Canonical[hash[p]] => hash'[p] = hash[p]
  <2>1. CASE hash' = hash
    BY <2>1
  <2>2. CASE CommitMigration
    <3>1. p \in Intents /\ hash[p] \in Spellings
      BY <1>1 DEF IInv, TypeOK, Confirmed
    <3>2. hash'[p] = hash[p] \/ hash'[p] = Canonical[hash[p]]
      BY <2>2, <3>1 DEF CommitMigration, NewHash
    <3> QED  BY <3>1, <3>2, MigrationAssumption
  <2>3. ASSUME NEW w \in Workers, Commit(w)  PROVE hash'[p] = hash[p]
    BY <1>1, <2>3, CommitHash DEF Confirmed
  <2> QED  BY <1>1, <2>1, <2>2, <2>3, HashChange
<1>2. IInv /\ [Next]_vars =>
        [\A p \in Confirmed :
           /\ Canonical[hash'[p]] = Canonical[hash[p]]
           /\ hash[p] = Canonical[hash[p]] => hash'[p] = hash[p]]_vars
  BY <1>1
<1> QED  BY <1>2, Invariance, PTL DEF Spec, KeepsTransaction

\* After a committed run no worker confirms an intent with a transaction that
\* has confirmed another intent in any spelling.
THEOREM SecondUseRefused == Spec => NoSecondUse
<1>1. ASSUME IInv, [Next]_vars, NEW p \in Intents, migrated, hash[p] = NoHash,
             hash'[p] # NoHash, NEW q \in Confirmed
      PROVE  Canonical[hash[q]] # Canonical[hash'[p]]
  <2>1. CASE CommitMigration
    <3>1. migration.done = {}
      BY <1>1 DEF IInv, SecondRunIsEmpty
    <3>2. hash'[p] = hash[p]
      BY <2>1, <3>1 DEF CommitMigration
    <3> QED  BY <1>1, <3>2
  <2>2. ASSUME NEW w \in Workers, Commit(w)
        PROVE  Canonical[hash[q]] # Canonical[hash'[p]]
    <3>1. p = tx[w].intent
      BY <1>1, <2>2, CommitHash
    <3>2. Canonical[hash'[p]] = tx[w].hash
      BY <1>1, <2>2, <3>1, CommitHash
    <3>3. PICK r \in Intents : hash[r] = Canonical[hash[q]]
      BY <1>1 DEF IInv, SomeHolderEach
    <3> QED  BY <1>1, <2>2, <3>2, <3>3, CommitHash, SMTT(20)
  <2> QED  BY <1>1, <2>1, <2>2, HashChange
<1>2. IInv /\ [Next]_vars =>
        [\A p \in Intents :
           migrated /\ hash[p] = NoHash /\ hash'[p] # NoHash =>
             \A q \in Confirmed : Canonical[hash[q]] # Canonical[hash'[p]]]_vars
  BY <1>1
<1> QED  BY <1>2, Invariance, PTL DEF Spec, NoSecondUse

-----------------------------------------------------------------------------
(* Amounts *)

Places == 2 * MaxDigits

\* The digits of a text are digits.
HasDigits(t) == \A k \in 1..Places : DigitAt(t, k) \in 0..9

\* The value of a text is what its recursive definition says.
LEMMA ValueUpTo ==
  ASSUME NEW t, HasDigits(t)
  PROVE  \E v \in [Nat -> Nat] :
           /\ v[0] = 0
           /\ \A k \in Nat : k + 1 <= Places => v[k + 1] = 10 * v[k] + DigitAt(t, k + 1)
           /\ Value(t) = v[Places]
<1> DEFINE F == [p \in Nat \X Nat |->
                   IF p[1] + 1 <= Places THEN 10 * p[2] + DigitAt(t, p[1] + 1) ELSE 0]
           Up(u) == [k \in 0..Places |-> IF k = 0 THEN 0 ELSE 10 * u[k - 1] + DigitAt(t, k)]
           upTo == CHOOSE u : u = Up(u)
<1>1. Places \in Nat
  BY AmountsAssumption, SMT DEF Places
<1>2. F \in [Nat \X Nat -> Nat]
  <2>1. ASSUME NEW p \in Nat \X Nat
        PROVE  (IF p[1] + 1 <= Places THEN 10 * p[2] + DigitAt(t, p[1] + 1) ELSE 0) \in Nat
    <3>1. CASE p[1] + 1 <= Places
      <4>1. p[1] \in Nat /\ p[2] \in Nat /\ p[1] + 1 \in 1..Places
        BY <1>1, <3>1, SMT
      <4>2. DigitAt(t, p[1] + 1) \in 0..9
        BY <4>1, Zenon DEF HasDigits
      <4>3. \A a \in Nat, b \in 0..9 : 10 * a + b \in Nat
        BY SMT
      <4> QED  BY <3>1, <4>1, <4>2, <4>3, Zenon
    <3>2. CASE ~(p[1] + 1 <= Places)
      BY <3>2, SMT
    <3> QED  BY <3>1, <3>2, Zenon
  <2> QED  BY <2>1, Zenon
<1>3. PICK v \in [Nat -> Nat] : v[0] = 0 /\ \A n \in Nat : v[n + 1] = F[<<n, v[n]>>]
  <2> HIDE DEF F
  <2>1. 0 \in Nat
    BY SMT
  <2>2. IsStep(F, Nat)
    BY <1>2, Zenon DEF IsStep
  <2>3. \E v : Iterates(v, Nat, 0, F)
    BY <2>1, <2>2, Recursion, Zenon
  <2> QED  BY <2>3, Zenon DEF Iterates
<1>4. \A k \in Nat : k + 1 <= Places => v[k + 1] = 10 * v[k] + DigitAt(t, k + 1)
  <2>1. ASSUME NEW k \in Nat, k + 1 <= Places
        PROVE  v[k + 1] = 10 * v[k] + DigitAt(t, k + 1)
    <3>1. <<k, v[k]>> \in Nat \X Nat
      BY Zenon
    <3>2. F[<<k, v[k]>>] = 10 * v[k] + DigitAt(t, k + 1)
      BY <2>1, <3>1, Zenon
    <3> HIDE DEF F
    <3> QED  BY <1>3, <3>2, Zenon
  <2> QED  BY <2>1, Zenon
<1> HIDE DEF F
<1>5. upTo = Up(upTo)
  <2> DEFINE w == [k \in 0..Places |-> v[k]]
  <2>1. ASSUME NEW k \in 0..Places
        PROVE  v[k] = IF k = 0 THEN 0 ELSE 10 * w[k - 1] + DigitAt(t, k)
    <3>1. CASE k = 0
      BY <1>3, <3>1, Zenon
    <3>2. CASE k # 0
      <4>1. k - 1 \in Nat /\ k - 1 \in 0..Places /\ (k - 1) + 1 = k /\ k <= Places
        BY <1>1, <3>2, SMT
      <4>2. v[(k - 1) + 1] = 10 * v[k - 1] + DigitAt(t, (k - 1) + 1)
        BY <1>4, <4>1, Zenon
      <4>3. w[k - 1] = v[k - 1]
        BY <4>1, Zenon
      <4> HIDE DEF w
      <4> QED  BY <3>2, <4>1, <4>2, <4>3, Zenon
    <3> QED  BY <3>1, <3>2, Zenon
  <2>2. w = Up(w)
    BY <2>1, Zenon
  <2> HIDE DEF w, Up
  <2> QED  BY <2>2, Zenon
<1>6. \A k \in Nat : k <= Places => upTo[k] = v[k]
  <2> HIDE DEF upTo
  <2> DEFINE T == {k \in Nat : k <= Places => upTo[k] = v[k]}
  <2>1. 0 \in T
    <3>1. 0 \in 0..Places /\ 0 \in Nat
      BY <1>1, SMT
    <3>2. Up(upTo)[0] = 0
      BY <3>1, Zenon
    <3> HIDE DEF Up
    <3> QED  BY <1>3, <1>5, <3>1, <3>2, Zenon
  <2>2. ASSUME NEW k \in Nat, k \in T  PROVE k + 1 \in T
    <3>1. k + 1 \in Nat
      BY SMT
    <3>2. ASSUME k + 1 <= Places  PROVE upTo[k + 1] = v[k + 1]
      <4>1. k + 1 \in 0..Places /\ k + 1 # 0 /\ (k + 1) - 1 = k /\ k <= Places
        BY <1>1, <3>2, SMT
      <4>2. Up(upTo)[k + 1] = 10 * upTo[(k + 1) - 1] + DigitAt(t, k + 1)
        BY <4>1, Zenon
      <4> HIDE DEF Up
      <4>3. upTo[k] = v[k]
        BY <2>2, <4>1, Zenon
      <4> QED  BY <1>4, <1>5, <3>2, <4>1, <4>2, <4>3, Zenon
    <3> QED  BY <3>1, <3>2, Zenon
  <2> HIDE DEF T
  <2>3. Nat \subseteq T
    BY <2>1, <2>2, Induction, Zenon
  <2> USE DEF T
  <2> QED  BY <2>3, Zenon
<1>7. Value(t) = upTo[Places]
  BY Zenon DEF Value, Places
<1> HIDE DEF upTo
<1>8. Places <= Places
  BY <1>1, SMT
<1>9. Value(t) = v[Places]
  BY <1>1, <1>6, <1>7, <1>8, Zenon
<1> QED  BY <1>3, <1>4, <1>9, Zenon

\* Two texts have one value exactly if they agree at every place.
LEMMA SameValue ==
  ASSUME NEW t, NEW u, HasDigits(t), HasDigits(u)
  PROVE  Value(t) = Value(u) <=> \A k \in 1..Places : DigitAt(t, k) = DigitAt(u, k)
<1>1. PICK v \in [Nat -> Nat] :
        /\ v[0] = 0
        /\ \A k \in Nat : k + 1 <= Places => v[k + 1] = 10 * v[k] + DigitAt(t, k + 1)
        /\ Value(t) = v[Places]
  BY ValueUpTo, Zenon
<1>2. PICK w \in [Nat -> Nat] :
        /\ w[0] = 0
        /\ \A k \in Nat : k + 1 <= Places => w[k + 1] = 10 * w[k] + DigitAt(u, k + 1)
        /\ Value(u) = w[Places]
  BY ValueUpTo, Zenon
<1> DEFINE Agree(k) == \A i \in 1..k : DigitAt(t, i) = DigitAt(u, i)
           T == {k \in Nat : k <= Places => (v[k] = w[k] <=> Agree(k))}
<1>3. Places \in Nat
  BY AmountsAssumption, SMT DEF Places
<1>4. 0 \in T
  BY <1>1, <1>2, SMT
<1>5. ASSUME NEW k \in Nat, k \in T  PROVE k + 1 \in T
  <2>1. ASSUME k + 1 <= Places  PROVE v[k + 1] = w[k + 1] <=> Agree(k + 1)
    <3> DEFINE d == DigitAt(t, k + 1)
               e == DigitAt(u, k + 1)
    <3>1. k + 1 \in 1..Places /\ k <= Places
      BY <1>3, <2>1, SMT
    <3>2. d \in 0..9 /\ e \in 0..9
      BY <3>1, Zenon DEF HasDigits
    <3>3. v[k + 1] = 10 * v[k] + d /\ w[k + 1] = 10 * w[k] + e
      BY <1>1, <1>2, <2>1, Zenon
    <3>4. v[k] \in Nat /\ w[k] \in Nat
      BY Zenon
    <3>5. v[k + 1] = w[k + 1] <=> v[k] = w[k] /\ d = e
      <4> HIDE DEF d, e
      <4>1. 10 * v[k] + d = 10 * w[k] + e <=> v[k] = w[k] /\ d = e
        BY <3>2, <3>4, SMT
      <4> QED  BY <3>3, <4>1, Zenon
    <3>6. v[k] = w[k] <=> Agree(k)
      BY <1>5, <3>1, Zenon
    <3>7. \A i : i \in 1..(k + 1) <=> i \in 1..k \/ i = k + 1
      BY SMT
    <3>8. Agree(k + 1) <=> Agree(k) /\ d = e
      BY <3>7, Zenon
    <3> QED  BY <3>5, <3>6, <3>8, Zenon
  <2>2. k + 1 \in Nat
    BY SMT
  <2> QED  BY <2>1, <2>2, Zenon
<1>6. Nat \subseteq T
  <2> HIDE DEF T
  <2> QED  BY <1>4, <1>5, Induction, Zenon
<1>7. Places <= Places
  BY <1>3, SMT
<1> QED  BY <1>1, <1>2, <1>3, <1>6, <1>7, Zenon

\* A value is zero exactly if every digit is.
LEMMA ZeroValue ==
  ASSUME NEW t, HasDigits(t)
  PROVE  Value(t) \in Nat /\ (Value(t) = 0 <=> \A k \in 1..Places : DigitAt(t, k) = 0)
<1>1. PICK v \in [Nat -> Nat] :
        /\ v[0] = 0
        /\ \A k \in Nat : k + 1 <= Places => v[k + 1] = 10 * v[k] + DigitAt(t, k + 1)
        /\ Value(t) = v[Places]
  BY ValueUpTo, Zenon
<1> DEFINE Zero(k) == \A i \in 1..k : DigitAt(t, i) = 0
           T == {k \in Nat : k <= Places => (v[k] = 0 <=> Zero(k))}
<1>2. Places \in Nat
  BY AmountsAssumption, SMT DEF Places
<1>3. 0 \in T
  BY <1>1, SMT
<1>4. ASSUME NEW k \in Nat, k \in T  PROVE k + 1 \in T
  <2>1. ASSUME k + 1 <= Places  PROVE v[k + 1] = 0 <=> Zero(k + 1)
    <3> DEFINE d == DigitAt(t, k + 1)
    <3>1. k + 1 \in 1..Places /\ k <= Places
      BY <1>2, <2>1, SMT
    <3>2. d \in 0..9 /\ v[k] \in Nat
      BY <3>1, Zenon DEF HasDigits
    <3>3. v[k + 1] = 10 * v[k] + d
      BY <1>1, <2>1, Zenon
    <3>4. \A a \in Nat, x \in 0..9 : 10 * a + x = 0 <=> a = 0 /\ x = 0
      BY SMT
    <3>5. v[k + 1] = 0 <=> v[k] = 0 /\ d = 0
      <4> HIDE DEF d
      <4> QED  BY <3>2, <3>3, <3>4, Zenon
    <3>6. v[k] = 0 <=> Zero(k)
      BY <1>4, <3>1, Zenon
    <3>7. \A i : i \in 1..(k + 1) <=> i \in 1..k \/ i = k + 1
      BY SMT
    <3>8. Zero(k + 1) <=> Zero(k) /\ d = 0
      BY <3>7, Zenon
    <3> QED  BY <3>5, <3>6, <3>8, Zenon
  <2>2. k + 1 \in Nat
    BY SMT
  <2> QED  BY <2>1, <2>2, Zenon
<1>5. Nat \subseteq T
  <2> HIDE DEF T
  <2> QED  BY <1>3, <1>4, Induction, Zenon
<1>6. Places <= Places
  BY <1>2, SMT
<1> QED  BY <1>1, <1>2, <1>5, <1>6, Zenon

-----------------------------------------------------------------------------
(* The parts of a text *)

\* The digits before or after the point of a text.
LEMMA PartIsSeq ==
  ASSUME NEW p \in Part
  PROVE  p \in Seq(0..9) /\ Len(p) \in 0..MaxDigits
<1>1. PICK n \in 0..MaxDigits : p \in [1..n -> Digits]
  BY Zenon DEF Part
<1>2. n \in Nat /\ \A i \in 1..n : p[i] \in 0..9
  <2>1. n \in Nat
    BY AmountsAssumption, SMT
  <2>2. \A i \in 1..n : p[i] \in 0..9
    BY <1>1, AmountsAssumption, Zenon
  <2> QED  BY <2>1, <2>2, Zenon
<1> QED  BY <1>1, <1>2, SMT

\* The integer part of a decimal: no superfluous zero.
Shortest(part) == part # <<>> /\ (part[1] = 0 => Len(part) = 1)

\* On the integer part of a decimal the removal of leading zeros, with a zero for
\* an empty result, changes nothing.
LEMMA ShortestKept ==
  ASSUME NEW p \in Seq(0..9), Shortest(p)
  PROVE  OrZero(WithoutLeading(p)) = p
<1> DEFINE First(i) == /\ \A j \in 1..(i - 1) : p[j] = 0
                       /\ i <= Len(p) => p[i] # 0
<1>1. Len(p) \in Nat /\ Len(p) >= 1
  BY SMT DEF Shortest
<1>2. CASE p[1] = 0
  <2>1. Len(p) = 1
    BY <1>2, Zenon DEF Shortest
  <2>2. \A i \in 1..(Len(p) + 1) : First(i) <=> i = 2
    BY <1>2, <2>1, SMT
  <2>3. 2 \in 1..(Len(p) + 1)
    BY <2>1, SMT
  <2>4. FirstDigit(p) = 2
    <3> HIDE DEF First
    <3>1. (CHOOSE i \in 1..(Len(p) + 1) : First(i)) = 2
      BY <2>2, <2>3, Zenon
    <3> USE DEF First
    <3> QED  BY <3>1, Zenon DEF FirstDigit
  <2>5. WithoutLeading(p) = <<>>
    BY <2>1, <2>4, SMT DEF WithoutLeading
  <2>6. p = <<0>>
    BY <1>2, <2>1, SMT
  <2> QED  BY <2>5, <2>6, Zenon DEF OrZero
<1>3. CASE p[1] # 0
  <2>1. \A i \in 1..(Len(p) + 1) : First(i) <=> i = 1
    BY <1>1, <1>3, SMT
  <2>2. 1 \in 1..(Len(p) + 1)
    BY <1>1, SMT
  <2>3. FirstDigit(p) = 1
    <3> HIDE DEF First
    <3>1. (CHOOSE i \in 1..(Len(p) + 1) : First(i)) = 1
      BY <2>1, <2>2, Zenon
    <3> USE DEF First
    <3> QED  BY <3>1, Zenon DEF FirstDigit
  <2>4. WithoutLeading(p) = p
    BY <1>1, <2>3, SMT DEF WithoutLeading
  <2> QED  BY <2>4, Zenon DEF OrZero, Shortest
<1> QED  BY <1>2, <1>3, Zenon

\* Where the trailing zeros begin.
LastDigit(part, n) ==
  /\ \A j \in (n + 1)..Len(part) : part[j] = 0
  /\ n > 0 => part[n] # 0

\* WithoutTrailing cuts at the last digit that is not 0.
LEMMA TrailingZeros ==
  ASSUME NEW p \in Seq(0..9)
  PROVE  \E n \in 0..Len(p) : LastDigit(p, n) /\ WithoutTrailing(p) = SubSeq(p, 1, n)
<1> DEFINE T == {n \in Nat : n <= Len(p) /\ \A j \in (n + 1)..Len(p) : p[j] = 0}
<1>1. Len(p) \in Nat
  BY SMT
<1>2. Len(p) \in T
  BY <1>1, SMT
<1>3. PICK n \in T : \A m \in T : n <= m
  <2>1. T \subseteq Nat /\ T # {}
    BY <1>2, Zenon
  <2> HIDE DEF T
  <2> QED  BY <2>1, LeastNatural, Zenon
<1>4. n \in 0..Len(p)
  BY <1>1, <1>3, SMT
<1>5. n > 0 => p[n] # 0
  <2> SUFFICES ASSUME n > 0, p[n] = 0 PROVE FALSE
    BY Zenon
  <2>1. \A j \in ((n - 1) + 1)..Len(p) : j = n \/ j \in (n + 1)..Len(p)
    BY <1>1, <1>4, SMT
  <2>2. n - 1 \in T
    <3>1. n - 1 \in Nat /\ n - 1 <= Len(p)
      BY <1>1, <1>4, SMT
    <3>2. \A j \in ((n - 1) + 1)..Len(p) : p[j] = 0
      BY <1>3, <2>1, Zenon
    <3> QED  BY <3>1, <3>2, Zenon
  <2>3. n <= n - 1
    <3> HIDE DEF T
    <3> QED  BY <1>3, <2>2, Zenon
  <2> QED  BY <1>4, <2>3, SMT
<1>6. LastDigit(p, n)
  BY <1>3, <1>5, Zenon DEF LastDigit
<1>7. \A m \in 0..Len(p) : LastDigit(p, m) => m = n
  BY <1>1, <1>4, <1>6, SMT DEF LastDigit
<1>8. (CHOOSE m \in 0..Len(p) : LastDigit(p, m)) = n
  BY <1>4, <1>6, <1>7, Zenon
<1>9. WithoutTrailing(p) = SubSeq(p, 1, n)
  BY <1>8, Zenon DEF WithoutTrailing, LastDigit
<1> QED  BY <1>4, <1>6, <1>9, Zenon

\* Trailing zeros are found at one place only.
LEMMA LastDigitUnique ==
  ASSUME NEW p \in Seq(0..9), NEW m \in 0..Len(p), NEW n \in 0..Len(p),
         LastDigit(p, m), LastDigit(p, n)
  PROVE  m = n
BY SMT DEF LastDigit

\* A fraction as the column holds it.
Padded(p) == [i \in 1..FractionDigits |-> IF i <= Len(p) THEN p[i] ELSE 0]

\* A fraction padded to the digits of the column.
LEMMA PaddedFacts ==
  ASSUME NEW p \in Seq(0..9)
  PROVE  /\ Padded(p) \in Seq(0..9) /\ Len(Padded(p)) = FractionDigits
         /\ \A i \in 1..FractionDigits : Padded(p)[i] = IF i <= Len(p) THEN p[i] ELSE 0
         /\ SubSeq(p \o Zeros(FractionDigits), 1, FractionDigits) = Padded(p)
<1>1. FractionDigits \in Nat
  BY AmountsAssumption, Zenon
<1>2. \A i \in 1..FractionDigits : (IF i <= Len(p) THEN p[i] ELSE 0) \in 0..9
  BY <1>1, SMT
<1>3. Padded(p) \in Seq(0..9) /\ Len(Padded(p)) = FractionDigits
  BY <1>1, <1>2, SMT DEF Padded
<1>4. \A i \in 1..FractionDigits : Padded(p)[i] = IF i <= Len(p) THEN p[i] ELSE 0
  BY Zenon DEF Padded
<1>5. SubSeq(p \o Zeros(FractionDigits), 1, FractionDigits) = Padded(p)
  <2> DEFINE z == Zeros(FractionDigits)
  <2>1. z \in Seq(0..9) /\ Len(z) = FractionDigits /\ \A i \in 1..FractionDigits : z[i] = 0
    BY <1>1, SMT DEF Zeros
  <2> HIDE DEF z
  <2>2. PICK s : s = p \o z
    BY Zenon
  <2>3. /\ s \in Seq(0..9) /\ Len(s) = Len(p) + FractionDigits
        /\ \A i \in 1..FractionDigits : s[i] = IF i <= Len(p) THEN p[i] ELSE 0
    <3>1. s \in Seq(0..9) /\ Len(s) = Len(p) + FractionDigits
      <4>1. ASSUME NEW D, p \in Seq(D), z \in Seq(D)
            PROVE  p \o z \in Seq(D) /\ Len(p \o z) = Len(p) + Len(z)
        BY <4>1, SMT
      <4> QED  BY <2>1, <2>2, <4>1, Zenon
    <3>2. ASSUME NEW i \in 1..FractionDigits, i <= Len(p)  PROVE s[i] = p[i]
      BY <1>1, <2>1, <2>2, <3>2, SMT
    <3>3. ASSUME NEW i \in 1..FractionDigits, ~(i <= Len(p))  PROVE s[i] = 0
      <4>1. s[i] = z[i - Len(p)] /\ i - Len(p) \in 1..FractionDigits
        BY <1>1, <2>1, <2>2, <3>3, SMT
      <4> QED  BY <2>1, <4>1, Zenon
    <3> QED  BY <3>1, <3>2, <3>3, Zenon
  <2>4. SubSeq(s, 1, FractionDigits) = [i \in 1..FractionDigits |-> s[i]]
    BY <1>1, <2>3, SMT
  <2>5. SubSeq(s, 1, FractionDigits) = Padded(p)
    BY <2>3, <2>4, Zenon DEF Padded
  <2> QED  BY <2>2, <2>5, Zenon DEF z
<1> QED  BY <1>3, <1>4, <1>5, Zenon

\* The zeros that the column adds are the ones that the canonical text drops.
LEMMA PaddingDropped ==
  ASSUME NEW p \in Seq(0..9), Len(p) <= FractionDigits
  PROVE  WithoutTrailing(Padded(p)) = WithoutTrailing(p)
<1>1. FractionDigits \in Nat /\ Len(p) \in Nat
  BY AmountsAssumption, SMT
<1>2. PICK n \in 0..Len(p) : LastDigit(p, n) /\ WithoutTrailing(p) = SubSeq(p, 1, n)
  BY TrailingZeros, Zenon
<1>3. PICK q \in Seq(0..9) :
        /\ q = Padded(p) /\ Len(q) = FractionDigits
        /\ \A i \in 1..FractionDigits : q[i] = IF i <= Len(p) THEN p[i] ELSE 0
  BY PaddedFacts, Zenon
<1>4. PICK m \in 0..Len(q) : LastDigit(q, m) /\ WithoutTrailing(q) = SubSeq(q, 1, m)
  BY TrailingZeros, Zenon
<1>5. n \in 0..Len(q) /\ LastDigit(q, n)
  BY <1>1, <1>2, <1>3, SMT DEF LastDigit
<1>6. m = n
  BY <1>4, <1>5, LastDigitUnique, Zenon
<1>7. SubSeq(q, 1, n) = SubSeq(p, 1, n)
  BY <1>1, <1>3, <1>5, SMT
<1> QED  BY <1>2, <1>3, <1>4, <1>6, <1>7, Zenon

-----------------------------------------------------------------------------
(* The values of texts *)

IsText(t) ==
  /\ t.integer \in Seq(0..9) /\ Len(t.integer) <= MaxDigits
  /\ t.fraction \in Seq(0..9)

FractionDigit(p, i) == IF i <= Len(p) THEN p[i] ELSE 0

\* The places of a text are those of its parts.
LEMMA PlacesOfParts ==
  ASSUME NEW t, IsText(t)
  PROVE  /\ HasDigits(t)
         /\ \A i \in 1..Len(t.integer) :
              LET k == i + MaxDigits - Len(t.integer)
              IN  k \in 1..Places /\ DigitAt(t, k) = t.integer[i]
         /\ \A i \in 1..MaxDigits :
              /\ i + MaxDigits \in 1..Places
              /\ DigitAt(t, i + MaxDigits) = FractionDigit(t.fraction, i)
<1>1. PICK p \in Seq(0..9) : p = t.integer
  BY Zenon DEF IsText
<1>2. PICK q \in Seq(0..9) : q = t.fraction
  BY Zenon DEF IsText
<1>3. MaxDigits \in Nat /\ Len(p) \in Nat /\ Len(q) \in Nat /\ Len(p) <= MaxDigits
  BY <1>1, AmountsAssumption, SMT DEF IsText
<1>4. /\ \A i \in 1..Len(p) : p[i] \in 0..9
      /\ \A i \in 1..Len(q) : q[i] \in 0..9
  BY SMT
<1>5. ASSUME NEW k \in 1..Places
      PROVE  DigitAt(t, k) = IF k <= MaxDigits
                             THEN IF k - MaxDigits + Len(p) >= 1
                                  THEN p[k - MaxDigits + Len(p)] ELSE 0
                             ELSE IF k - MaxDigits <= Len(q) THEN q[k - MaxDigits] ELSE 0
  BY <1>1, <1>2, Zenon DEF DigitAt
<1>6. HasDigits(t)
  <2>1. ASSUME NEW k \in 1..Places  PROVE DigitAt(t, k) \in 0..9
    <3>1. CASE k <= MaxDigits /\ k - MaxDigits + Len(p) >= 1
      <4>1. k - MaxDigits + Len(p) \in 1..Len(p)
        BY <1>3, <3>1, SMT DEF Places
      <4> QED  BY <1>4, <1>5, <3>1, <4>1, Zenon
    <3>2. CASE ~(k <= MaxDigits) /\ k - MaxDigits <= Len(q)
      <4>1. k - MaxDigits \in 1..Len(q)
        BY <1>3, <3>2, SMT DEF Places
      <4> QED  BY <1>4, <1>5, <3>2, <4>1, Zenon
    <3>3. 0 \in 0..9
      BY SMT
    <3> QED  BY <1>5, <3>1, <3>2, <3>3, Zenon
  <2> QED  BY <2>1, Zenon DEF HasDigits
<1>7. ASSUME NEW i \in 1..Len(p)
      PROVE  i + MaxDigits - Len(p) \in 1..Places /\ DigitAt(t, i + MaxDigits - Len(p)) = p[i]
  <2> DEFINE k == i + MaxDigits - Len(p)
  <2>1. /\ k \in 1..Places /\ k <= MaxDigits
        /\ k - MaxDigits + Len(p) = i /\ k - MaxDigits + Len(p) >= 1
    BY <1>3, SMT DEF Places
  <2> HIDE DEF k
  <2>2. DigitAt(t, k) = p[i]
    BY <1>5, <2>1, Zenon
  <2> QED  BY <2>1, <2>2, Zenon DEF k
<1>8. ASSUME NEW i \in 1..MaxDigits
      PROVE  i + MaxDigits \in 1..Places /\ DigitAt(t, i + MaxDigits) = FractionDigit(q, i)
  <2> DEFINE k == i + MaxDigits
  <2>1. k \in 1..Places /\ ~(k <= MaxDigits) /\ k - MaxDigits = i
    BY <1>3, SMT DEF Places
  <2> HIDE DEF k
  <2>2. DigitAt(t, k) = FractionDigit(q, i)
    BY <1>5, <2>1, Zenon DEF FractionDigit
  <2> QED  BY <2>1, <2>2, Zenon DEF k
<1> QED  BY <1>1, <1>2, <1>6, <1>7, <1>8, Zenon

\* Texts that differ only in zeros at the end have one value.
LEMMA SameParts ==
  ASSUME NEW t, NEW u, IsText(t), IsText(u), t.integer = u.integer,
         \A i \in 1..MaxDigits : FractionDigit(t.fraction, i) = FractionDigit(u.fraction, i)
  PROVE  Value(t) = Value(u)
<1>1. MaxDigits \in Nat
  BY AmountsAssumption, Zenon
<1>2. ASSUME NEW k \in 1..Places  PROVE DigitAt(t, k) = DigitAt(u, k)
  <2>1. CASE k <= MaxDigits
    BY <2>1, Zenon DEF DigitAt
  <2>2. CASE ~(k <= MaxDigits)
    <3>1. k - MaxDigits \in 1..MaxDigits /\ (k - MaxDigits) + MaxDigits = k
      BY <1>1, <2>2, SMT DEF Places
    <3> QED  BY <3>1, PlacesOfParts, Zenon
  <2> QED  BY <2>1, <2>2, Zenon
<1>3. HasDigits(t) /\ HasDigits(u)
  BY PlacesOfParts, Zenon
<1> QED  BY <1>2, <1>3, SameValue, Zenon

\* Conversely, two decimals of one value have the same integer part and fractions
\* that differ only in zeros at the end.
LEMMA EqualIntegers ==
  ASSUME NEW t, NEW u, IsText(t), IsText(u), Value(t) = Value(u),
         Shortest(t.integer), Shortest(u.integer)
  PROVE  Len(t.integer) <= Len(u.integer)
<1> SUFFICES ASSUME ~(Len(t.integer) <= Len(u.integer)) PROVE FALSE
  BY Zenon
<1>1. PICK p \in Seq(0..9) : p = t.integer
  BY Zenon DEF IsText
<1>2. PICK q \in Seq(0..9) : q = u.integer
  BY Zenon DEF IsText
<1>3. /\ MaxDigits \in Nat /\ Len(p) \in Nat /\ Len(q) \in Nat /\ Len(p) <= MaxDigits
      /\ Len(q) <= MaxDigits
  BY <1>1, <1>2, AmountsAssumption, SMT DEF IsText
<1>4. Len(p) > Len(q) /\ Len(q) >= 1
  <2>1. q # <<>> /\ ~(Len(p) <= Len(q))
    BY <1>1, <1>2, Zenon DEF Shortest
  <2> QED  BY <1>3, <2>1, SMT
<1> DEFINE k == 1 + MaxDigits - Len(p)
<1>5. k \in 1..Places /\ k <= MaxDigits /\ ~(k - MaxDigits + Len(q) >= 1)
  BY <1>3, <1>4, SMT DEF Places
<1>6. 1 \in 1..Len(p) /\ Len(p) # 1
  BY <1>3, <1>4, SMT
<1>7. DigitAt(t, k) = p[1]
  BY <1>1, <1>6, PlacesOfParts, Zenon
<1> HIDE DEF k
<1>8. DigitAt(u, k) = 0
  BY <1>2, <1>5, Zenon DEF DigitAt
<1>9. DigitAt(t, k) = DigitAt(u, k)
  <2>1. HasDigits(t) /\ HasDigits(u)
    BY PlacesOfParts, Zenon
  <2> QED  BY <1>5, <2>1, SameValue, Zenon
<1> QED  BY <1>1, <1>6, <1>7, <1>8, <1>9, Zenon DEF Shortest

\* Texts of one value, without leading zeros, differ in trailing zeros only.
LEMMA EqualParts ==
  ASSUME NEW t, NEW u, IsText(t), IsText(u), Value(t) = Value(u),
         Shortest(t.integer), Shortest(u.integer)
  PROVE  /\ t.integer = u.integer
         /\ \A i \in 1..MaxDigits :
              FractionDigit(t.fraction, i) = FractionDigit(u.fraction, i)
<1>1. PICK p \in Seq(0..9) : p = t.integer
  BY Zenon DEF IsText
<1>2. PICK q \in Seq(0..9) : q = u.integer
  BY Zenon DEF IsText
<1>3. Len(p) = Len(q)
  <2>1. Len(p) <= Len(q) /\ Len(q) <= Len(p)
    BY <1>1, <1>2, EqualIntegers, Zenon
  <2> QED  BY <2>1, SMT
<1>4. \A k \in 1..Places : DigitAt(t, k) = DigitAt(u, k)
  <2>1. HasDigits(t) /\ HasDigits(u)
    BY PlacesOfParts, Zenon
  <2> QED  BY <2>1, SameValue, Zenon
<1>5. ASSUME NEW i \in 1..Len(p)  PROVE p[i] = q[i]
  BY <1>1, <1>2, <1>3, <1>4, PlacesOfParts, Zenon
<1>6. p = q
  BY <1>3, <1>5, SMT
<1>7. ASSUME NEW i \in 1..MaxDigits
      PROVE  FractionDigit(t.fraction, i) = FractionDigit(u.fraction, i)
  BY <1>4, PlacesOfParts, Zenon
<1> QED  BY <1>1, <1>2, <1>6, <1>7, Zenon

-----------------------------------------------------------------------------
(* The conversions *)

\* A text of the model is a text; a decimal has no leading zeros to cut.
LEMMA TextFacts ==
  ASSUME NEW t \in Texts
  PROVE  /\ IsText(t) /\ Len(t.fraction) \in 0..MaxDigits
         /\ IsDecimal(t) => Shortest(t.integer) /\ OrZero(WithoutLeading(t.integer)) = t.integer
<1>1. t.integer \in Part /\ t.fraction \in Part
  BY Zenon DEF Texts, Text
<1>2. /\ t.integer \in Seq(0..9) /\ Len(t.integer) \in 0..MaxDigits
      /\ t.fraction \in Seq(0..9) /\ Len(t.fraction) \in 0..MaxDigits
  BY <1>1, PartIsSeq, Zenon
<1>3. Len(t.integer) <= MaxDigits
  BY <1>2, AmountsAssumption, SMT
<1>4. IsDecimal(t) => Shortest(t.integer)
  BY Zenon DEF IsDecimal, Shortest
<1> QED  BY <1>2, <1>3, <1>4, ShortestKept, Zenon DEF IsText

\* The column keeps the value and the parts of an accepted amount, up to zeros at
\* the end.
LEMMA NumericFacts ==
  ASSUME NEW t \in Texts, isValidPaymentAmount(t)
  PROVE  /\ Numeric(t).integer = t.integer
         /\ Numeric(t).fraction = Padded(t.fraction)
         /\ IsText(Numeric(t))
         /\ Value(Numeric(t)) = Value(t)
         /\ Len(t.integer) <= IntegerDigits
<1>1. /\ IsText(t) /\ Shortest(t.integer) /\ OrZero(WithoutLeading(t.integer)) = t.integer
      /\ Len(t.fraction) <= FractionDigits
  BY TextFacts, Zenon DEF isValidPaymentAmount
<1>2. Numeric(t).integer = t.integer /\ Numeric(t).fraction = Padded(t.fraction)
  BY <1>1, Zenon DEF Numeric, Padded
<1>3. PICK p \in Seq(0..9) : p = t.fraction
  BY <1>1, Zenon DEF IsText
<1>4. PICK q \in Seq(0..9) :
        /\ q = Padded(p) /\ Len(q) = FractionDigits
        /\ \A i \in 1..FractionDigits : q[i] = IF i <= Len(p) THEN p[i] ELSE 0
  BY PaddedFacts, Zenon
<1>5. IsText(Numeric(t))
  BY <1>1, <1>2, <1>3, <1>4, Zenon DEF IsText
<1>6. ASSUME NEW i \in 1..MaxDigits  PROVE FractionDigit(q, i) = FractionDigit(p, i)
  <2>1. Len(p) \in Nat /\ FractionDigits \in Nat /\ MaxDigits \in Nat /\ Len(p) <= FractionDigits
    BY <1>1, <1>3, AmountsAssumption, SMT
  <2> QED  BY <1>4, <2>1, SMT DEF FractionDigit
<1>7. Value(Numeric(t)) = Value(t)
  BY <1>1, <1>2, <1>3, <1>4, <1>5, <1>6, SameParts, Zenon
<1>8. Len(t.integer) <= IntegerDigits
  <2>1. Len(WithoutLeading(t.integer)) <= IntegerDigits
    BY Zenon DEF isValidPaymentAmount
  <2>2. CASE WithoutLeading(t.integer) = <<>>
    <3>1. t.integer = <<0>>
      BY <1>1, <2>2, Zenon DEF OrZero
    <3>2. Len(<<0>>) <= IntegerDigits
      BY AmountsAssumption, SMT
    <3> QED  BY <3>1, <3>2, Zenon
  <2>3. CASE WithoutLeading(t.integer) # <<>>
    BY <1>1, <2>1, <2>3, Zenon DEF OrZero
  <2> QED  BY <2>2, <2>3, Zenon
<1> QED  BY <1>2, <1>5, <1>7, <1>8, Zenon

\* An accepted amount is not zero.
LEMMA ValidIsPositive ==
  ASSUME NEW t \in Texts, isValidPaymentAmount(t)
  PROVE  Value(t) \in Nat /\ Value(t) > 0
<1>1. IsText(t) /\ Len(t.fraction) \in 0..MaxDigits
  BY TextFacts, Zenon
<1>2. \E k \in 1..Places : DigitAt(t, k) # 0
  <2>1. CASE ~IsZero(t.integer)
    <3>1. PICK i \in DOMAIN t.integer : t.integer[i] # 0
      BY <2>1, Zenon DEF IsZero
    <3>2. i \in 1..Len(t.integer)
      BY <1>1, SMT DEF IsText
    <3> QED  BY <1>1, <3>1, <3>2, PlacesOfParts, Zenon
  <2>2. CASE ~IsZero(t.fraction)
    <3>1. PICK i \in DOMAIN t.fraction : t.fraction[i] # 0
      BY <2>2, Zenon DEF IsZero
    <3>2. i \in 1..MaxDigits /\ i <= Len(t.fraction)
      BY <1>1, AmountsAssumption, SMT DEF IsText
    <3>3. FractionDigit(t.fraction, i) # 0
      BY <3>1, <3>2, Zenon DEF FractionDigit
    <3> QED  BY <1>1, <3>2, <3>3, PlacesOfParts, Zenon
  <2> QED  BY <2>1, <2>2, Zenon DEF isValidPaymentAmount
<1>3. Value(t) \in Nat /\ Value(t) # 0
  BY <1>1, <1>2, PlacesOfParts, ZeroValue, Zenon
<1> QED  BY <1>3, SMT

\* The first digit.
LEMMA HeadIsFirst ==
  ASSUME NEW D, NEW p \in Seq(D), p # <<>>
  PROVE  Head(p) = p[1] /\ (Len(p) > 1 => Len(p) # 1)
<1>1. Head(p) = p[1]
  BY SMT
<1>2. Len(p) \in Nat
  BY SMT
<1>3. \A n \in Nat : n > 1 => n # 1
  BY SMT
<1> QED  BY <1>1, <1>2, <1>3, Zenon

\* The canonical text of an accepted amount.
LEMMA CanonicalFacts ==
  ASSUME NEW t \in Texts, isValidPaymentAmount(t)
  PROVE  /\ toCanonicalAmount(Numeric(t)) = toCanonicalAmount(t)
         /\ LET c == toCanonicalAmount(t)
            IN  /\ Value(c) = Value(t)
                /\ c.integer = t.integer
                /\ Len(c.integer) > 1 => Head(c.integer) # 0
                /\ c.fraction # <<>> => c.fraction[Len(c.fraction)] # 0
                /\ c.point <=> c.fraction # <<>>
<1>1. /\ IsText(t) /\ Shortest(t.integer) /\ OrZero(WithoutLeading(t.integer)) = t.integer
      /\ Len(t.fraction) <= FractionDigits
  BY TextFacts, Zenon DEF isValidPaymentAmount
<1>2. PICK p \in Seq(0..9) : p = t.fraction
  BY <1>1, Zenon DEF IsText
<1>3. Numeric(t).integer = t.integer /\ Numeric(t).fraction = Padded(p)
  BY <1>2, NumericFacts, Zenon
<1>4. WithoutTrailing(Padded(p)) = WithoutTrailing(p)
  BY <1>1, <1>2, PaddingDropped, Zenon
<1>5. toCanonicalAmount(Numeric(t)) = toCanonicalAmount(t)
  BY <1>2, <1>3, <1>4, Zenon DEF toCanonicalAmount
<1>6. PICK n \in 0..Len(p) : LastDigit(p, n) /\ WithoutTrailing(p) = SubSeq(p, 1, n)
  BY TrailingZeros, Zenon
<1>7. PICK q : q = SubSeq(p, 1, n)
  BY Zenon
<1>8. Len(p) \in Nat /\ n \in Nat /\ n <= Len(p)
  BY SMT
<1>9. q \in Seq(0..9) /\ Len(q) = n /\ \A i \in 1..n : q[i] = p[i]
  BY <1>7, <1>8, SMT
<1>10. PICK c : c = toCanonicalAmount(t)
  BY Zenon
<1>11. c.integer = t.integer /\ c.fraction = q /\ c.point = (q # <<>>)
  BY <1>1, <1>2, <1>6, <1>7, <1>10, Zenon DEF toCanonicalAmount
<1>12. IsText(c)
  BY <1>1, <1>9, <1>11, Zenon DEF IsText
<1>13. ASSUME NEW i \in 1..MaxDigits  PROVE FractionDigit(q, i) = FractionDigit(p, i)
  <2>1. CASE i <= n
    BY <1>8, <1>9, <2>1, AmountsAssumption, SMT DEF FractionDigit
  <2>2. CASE ~(i <= n)
    BY <1>6, <1>8, <1>9, <2>2, AmountsAssumption, SMT DEF FractionDigit, LastDigit
  <2> QED  BY <2>1, <2>2, Zenon
<1>14. Value(c) = Value(t)
  BY <1>1, <1>2, <1>11, <1>12, <1>13, SameParts, Zenon
<1>15. Len(c.integer) > 1 => Head(c.integer) # 0
  <2>1. PICK r \in Seq(0..9) : r = t.integer
    BY <1>1, Zenon DEF IsText
  <2>2. r # <<>> /\ (r[1] = 0 => Len(r) = 1)
    BY <1>1, <2>1, Zenon DEF Shortest
  <2>3. Head(r) = r[1] /\ (Len(r) > 1 => Len(r) # 1)
    BY <2>2, HeadIsFirst, Zenon
  <2> QED  BY <1>11, <2>1, <2>2, <2>3, Zenon
<1>16. q # <<>> => q[Len(q)] # 0
  BY <1>6, <1>8, <1>9, SMT DEF LastDigit
<1> QED  BY <1>5, <1>10, <1>11, <1>14, <1>15, <1>16, Zenon

\* The comparison of the processor.
LEMMA NormalizedEqual ==
  ASSUME NEW t \in Texts, NEW u \in Texts, isValidPaymentAmount(t), IsDecimal(u),
         Len(u.fraction) <= FractionDigits
  PROVE  normalizeAmount(u) = normalizeAmount(Numeric(t)) <=> Value(u) = Value(t)
<1>1. /\ IsText(t) /\ Shortest(t.integer) /\ OrZero(WithoutLeading(t.integer)) = t.integer
      /\ Len(t.fraction) <= FractionDigits
  BY TextFacts, Zenon DEF isValidPaymentAmount
<1>2. IsText(u) /\ Shortest(u.integer) /\ OrZero(WithoutLeading(u.integer)) = u.integer
  BY TextFacts, Zenon
<1>3. PICK p \in Seq(0..9) : p = t.fraction
  BY <1>1, Zenon DEF IsText
<1>4. PICK q \in Seq(0..9) : q = u.fraction
  BY <1>2, Zenon DEF IsText
<1>5. Padded(p) \in Seq(0..9)
  BY PaddedFacts, Zenon
<1>6. Padded(Padded(p)) = Padded(p)
  <2>1. /\ Len(Padded(p)) = FractionDigits /\ FractionDigits \in Nat
        /\ \A i \in 1..FractionDigits : i <= FractionDigits
    BY PaddedFacts, AmountsAssumption, SMT
  <2>2. Padded(Padded(p)) = [i \in 1..FractionDigits |-> Padded(p)[i]]
    BY <2>1, Zenon DEF Padded
  <2>3. Padded(p) = [i \in 1..FractionDigits |-> Padded(p)[i]]
    BY Zenon DEF Padded
  <2> QED  BY <2>2, <2>3, Zenon
<1>7. /\ normalizeAmount(u) = [integer |-> u.integer, point |-> TRUE, fraction |-> Padded(q)]
      /\ normalizeAmount(u).integer = u.integer /\ normalizeAmount(u).fraction = Padded(q)
  <2>1. SubSeq(q \o Zeros(FractionDigits), 1, FractionDigits) = Padded(q)
    BY PaddedFacts, Zenon
  <2> QED  BY <1>2, <1>4, <2>1, Zenon DEF normalizeAmount
<1>8. /\ normalizeAmount(Numeric(t))
           = [integer |-> t.integer, point |-> TRUE, fraction |-> Padded(p)]
      /\ normalizeAmount(Numeric(t)).integer = t.integer
      /\ normalizeAmount(Numeric(t)).fraction = Padded(p)
  <2>1. SubSeq(Padded(p) \o Zeros(FractionDigits), 1, FractionDigits) = Padded(p)
    BY <1>5, <1>6, PaddedFacts, Zenon
  <2>2. Numeric(t).integer = t.integer /\ Numeric(t).fraction = Padded(p)
    BY <1>3, NumericFacts, Zenon
  <2> QED  BY <1>1, <2>1, <2>2, Zenon DEF normalizeAmount
<1>9. normalizeAmount(u) = normalizeAmount(Numeric(t))
        <=> u.integer = t.integer /\ Padded(q) = Padded(p)
  <2>1. ASSUME u.integer = t.integer, Padded(q) = Padded(p)
        PROVE  normalizeAmount(u) = normalizeAmount(Numeric(t))
    BY <1>7, <1>8, <2>1, Zenon
  <2>2. ASSUME normalizeAmount(u) = normalizeAmount(Numeric(t))
        PROVE  u.integer = t.integer /\ Padded(q) = Padded(p)
    BY <1>7, <1>8, <2>2, Zenon
  <2> QED  BY <2>1, <2>2, Zenon
<1>10. /\ Len(p) \in Nat /\ Len(q) \in Nat /\ Len(p) <= FractionDigits /\ Len(q) <= FractionDigits
       /\ Len(p) <= MaxDigits /\ Len(q) <= MaxDigits
       /\ FractionDigits \in Nat /\ MaxDigits \in Nat
  <2>1. Len(p) \in 0..MaxDigits /\ Len(q) \in 0..MaxDigits
    BY <1>3, <1>4, TextFacts, Zenon
  <2> QED  BY <1>1, <1>3, <1>4, <2>1, AmountsAssumption, SMT
<1>11. Padded(q) = Padded(p) <=> \A i \in 1..MaxDigits : FractionDigit(q, i) = FractionDigit(p, i)
  <2>1. Padded(q) = Padded(p)
          <=> \A i \in 1..FractionDigits : FractionDigit(q, i) = FractionDigit(p, i)
    <3>1. ASSUME Padded(q) = Padded(p), NEW i \in 1..FractionDigits
          PROVE  FractionDigit(q, i) = FractionDigit(p, i)
      <4>1. /\ Padded(q)[i] = IF i <= Len(q) THEN q[i] ELSE 0
            /\ Padded(p)[i] = IF i <= Len(p) THEN p[i] ELSE 0
        BY Zenon DEF Padded
      <4> QED  BY <3>1, <4>1, Zenon DEF FractionDigit
    <3>2. ASSUME \A i \in 1..FractionDigits : FractionDigit(q, i) = FractionDigit(p, i)
          PROVE  Padded(q) = Padded(p)
      BY <3>2, Zenon DEF Padded, FractionDigit
    <3> QED  BY <3>1, <3>2, Zenon
  <2>2. \A i \in Nat : i > FractionDigits \/ i > MaxDigits =>
          FractionDigit(q, i) = 0 /\ FractionDigit(p, i) = 0
    BY <1>10, SMT DEF FractionDigit
  <2>3. \A i \in 1..FractionDigits : i \in Nat /\ (i \in 1..MaxDigits \/ i > MaxDigits)
    BY <1>10, SMT
  <2>4. \A i \in 1..MaxDigits : i \in Nat /\ (i \in 1..FractionDigits \/ i > FractionDigits)
    BY <1>10, SMT
  <2> QED  BY <2>1, <2>2, <2>3, <2>4, Zenon
<1>12. ASSUME u.integer = t.integer, Padded(q) = Padded(p)  PROVE Value(u) = Value(t)
  BY <1>1, <1>2, <1>3, <1>4, <1>11, <1>12, SameParts, Zenon
<1>13. ASSUME Value(u) = Value(t)  PROVE u.integer = t.integer /\ Padded(q) = Padded(p)
  BY <1>1, <1>2, <1>3, <1>4, <1>11, <1>13, EqualParts, Zenon
<1> QED  BY <1>9, <1>12, <1>13, Zenon

\* A decimal with the value of an accepted amount is one that is accepted.
LEMMA EqualIsValid ==
  ASSUME NEW t \in Texts, NEW u \in Texts, isValidPaymentAmount(t), IsDecimal(u),
         Len(u.fraction) <= FractionDigits, Value(u) = Value(t)
  PROVE  isValidPaymentAmount(u)
<1>1. IsText(t) /\ Shortest(t.integer) /\ Len(t.fraction) \in 0..MaxDigits
  BY TextFacts, Zenon DEF isValidPaymentAmount
<1>2. IsText(u) /\ Shortest(u.integer)
  BY TextFacts, Zenon
<1>3. /\ u.integer = t.integer
      /\ \A i \in 1..MaxDigits : FractionDigit(u.fraction, i) = FractionDigit(t.fraction, i)
  BY <1>1, <1>2, EqualParts, Zenon
<1>4. ASSUME ~IsZero(t.fraction)  PROVE ~IsZero(u.fraction)
  <2>1. PICK i \in DOMAIN t.fraction : t.fraction[i] # 0
    BY <1>4, Zenon DEF IsZero
  <2>2. i \in 1..MaxDigits /\ i <= Len(t.fraction)
    BY <1>1, AmountsAssumption, SMT DEF IsText
  <2>3. FractionDigit(u.fraction, i) # 0
    BY <1>3, <2>1, <2>2, Zenon DEF FractionDigit
  <2>4. i <= Len(u.fraction) /\ u.fraction[i] # 0
    BY <2>3, Zenon DEF FractionDigit
  <2>5. i \in DOMAIN u.fraction
    BY <1>2, <2>2, <2>4, AmountsAssumption, SMT DEF IsText
  <2> QED  BY <2>4, <2>5, Zenon DEF IsZero
<1> QED  BY <1>3, <1>4, Zenon DEF isValidPaymentAmount

-----------------------------------------------------------------------------
(* The requests *)

\* What each stage of an amount has left behind.
AmountInv ==
  /\ sent \in Texts /\ paid \in Texts
  /\ pc \in {"create", "refused", "read", "webhook", "done"}
  /\ pc \in {"create", "refused"} => row = None /\ read = None
  /\ pc \in {"read", "webhook", "done"} =>
       isValidPaymentAmount(sent) /\ row = Numeric(sent) /\ created = toCanonicalAmount(sent)
  /\ pc = "read" => read = None
  /\ pc \in {"webhook", "done"} => read = toCanonicalAmount(row)
  /\ pc = "done" =>
       (verdict = "match" <=> isValidPaymentAmount(paid)
                              /\ normalizeAmount(paid) = normalizeAmount(row))

\* Every request keeps it.
LEMMA AmountInvHolds == AmountSpec => []AmountInv
<1>1. AmountInit => AmountInv
  BY Zenon DEF AmountInit, AmountInv
<1>2. ASSUME AmountInv, [AmountNext]_amountVars  PROVE AmountInv'
  <2>1. CASE CreatePaymentIntent
    <3>1. sent' = sent /\ paid' = paid /\ read' = read /\ pc = "create"
      BY <2>1, Zenon DEF CreatePaymentIntent
    <3>2. CASE isValidPaymentAmount(sent)
      <4>1. row' = Numeric(sent) /\ created' = toCanonicalAmount(sent) /\ pc' = "read"
        BY <2>1, <3>2, Zenon DEF CreatePaymentIntent
      <4> QED  BY <1>2, <3>1, <3>2, <4>1, Zenon DEF AmountInv
    <3>3. CASE ~isValidPaymentAmount(sent)
      <4>1. row' = row /\ pc' = "refused"
        BY <2>1, <3>3, Zenon DEF CreatePaymentIntent
      <4> QED  BY <1>2, <3>1, <4>1, Zenon DEF AmountInv
    <3> QED  BY <3>2, <3>3, Zenon
  <2>2. CASE GetPaymentIntent
    BY <1>2, <2>2, Zenon DEF AmountInv, GetPaymentIntent
  <2>3. CASE ProcessWebhook
    BY <1>2, <2>3, Zenon DEF AmountInv, ProcessWebhook
  <2>4. CASE UNCHANGED amountVars
    BY <1>2, <2>4, Zenon DEF AmountInv, amountVars
  <2> QED  BY <1>2, <2>1, <2>2, <2>3, <2>4, Zenon DEF AmountNext
<1> QED  BY <1>1, <1>2, PTL DEF AmountSpec

\* The column, the response of the creation and every later response hold the
\* value of the request, in the one canonical text, for every column width.
THEOREM AmountsAreKept == AmountSpec => []AmountKept
<1>1. ASSUME AmountInv  PROVE AmountKept
  <2>1. CASE pc \in {"create", "refused"}
    BY <1>1, <2>1, Zenon DEF AmountInv, AmountKept
  <2>2. CASE pc \in {"read", "webhook", "done"}
    <3>1. /\ sent \in Texts /\ isValidPaymentAmount(sent) /\ row = Numeric(sent)
          /\ created = toCanonicalAmount(sent)
      BY <1>1, <2>2, Zenon DEF AmountInv
    <3>2. /\ Value(row) = Value(sent) /\ Value(row) > 0 /\ Len(row.integer) <= IntegerDigits
      BY <3>1, NumericFacts, ValidIsPositive, Zenon
    <3>3. ASSUME read # None
          PROVE  /\ read = created
                 /\ Value(read) = Value(sent)
                 /\ Len(read.integer) > 1 => Head(read.integer) # 0
                 /\ read.fraction # <<>> => read.fraction[Len(read.fraction)] # 0
                 /\ read.point <=> read.fraction # <<>>
      <4>1. read = created
        BY <1>1, <2>2, <3>1, <3>3, CanonicalFacts, Zenon DEF AmountInv
      <4> QED  BY <3>1, <4>1, CanonicalFacts, Zenon
    <3> QED  BY <3>2, <3>3, Zenon DEF AmountKept
  <2> QED  BY <1>1, <2>1, <2>2, Zenon DEF AmountInv
<1> QED  BY <1>1, AmountInvHolds, PTL

\* The processor matches a webhook with an intent exactly when both name the
\* same value, whatever zeros and points the two texts have.
THEOREM PaymentsMatchByValue == AmountSpec => []PaidMeansEqual
<1>1. ASSUME AmountInv  PROVE PaidMeansEqual
  <2>1. SUFFICES ASSUME pc = "done"
        PROVE  verdict = "match" <=> IsDecimal(paid) /\ Value(paid) = Value(sent)
                                     /\ Len(paid.fraction) <= FractionDigits
    BY Zenon DEF PaidMeansEqual
  <2>2. /\ sent \in Texts /\ paid \in Texts /\ isValidPaymentAmount(sent)
        /\ verdict = "match" <=> isValidPaymentAmount(paid)
                                 /\ normalizeAmount(paid) = normalizeAmount(Numeric(sent))
    BY <1>1, <2>1, Zenon DEF AmountInv
  <2>3. ASSUME isValidPaymentAmount(paid)
        PROVE  IsDecimal(paid) /\ Len(paid.fraction) <= FractionDigits
    BY <2>3, Zenon DEF isValidPaymentAmount
  <2> QED  BY <2>2, <2>3, NormalizedEqual, EqualIsValid, Zenon
<1> QED  BY <1>1, AmountInvHolds, PTL

-----------------------------------------------------------------------------
(* Errors *)

\* g is defined by recursion from m + 1 down to 0.
Descends(g, S, m, a, F) ==
  g \in [0..(m + 1) -> S] /\ g[m + 1] = a /\ \A d \in 0..m : g[d] = F[g[d + 1]]

\* Such a function exists.
LEMMA Descent ==
  ASSUME NEW S, NEW m \in Nat, NEW a \in S, NEW F \in [S -> S]
  PROVE  \E g : Descends(g, S, m, a, F)
<1> DEFINE G == [p \in Nat \X S |-> F[p[2]]]
<1>1. IsStep(G, S)
  <2>1. \A p \in Nat \X S : F[p[2]] \in S
    <3>1. \A p \in Nat \X S : p[2] \in S
      BY SMT
    <3> QED  BY <3>1, Zenon
  <2> QED  BY <2>1, Zenon DEF IsStep
<1>2. PICK f : Iterates(f, S, a, G)
  <2> HIDE DEF G
  <2> QED  BY <1>1, Recursion, Zenon
<1>3. /\ f \in [Nat -> S] /\ f[0] = a
      /\ \A n \in Nat : f[n + 1] = G[<<n, f[n]>>]
  BY <1>2, Zenon DEF Iterates
<1>4. \A n \in Nat : f[n + 1] = F[f[n]]
  <2>1. ASSUME NEW n \in Nat  PROVE f[n + 1] = F[f[n]]
    <3>1. <<n, f[n]>> \in Nat \X S /\ <<n, f[n]>>[2] = f[n]
      BY <1>3, SMT
    <3>2. G[<<n, f[n]>>] = F[f[n]]
      BY <3>1, Zenon
    <3> QED  BY <1>3, <3>2, Zenon
  <2> QED  BY <2>1, Zenon
<1> DEFINE g == [d \in 0..(m + 1) |-> f[(m + 1) - d]]
<1>5. \A d \in 0..(m + 1) : (m + 1) - d \in Nat
  BY SMT
<1>6. g \in [0..(m + 1) -> S]
  BY <1>3, <1>5, Zenon
<1>7. g[m + 1] = a
  <2>1. m + 1 \in 0..(m + 1) /\ (m + 1) - (m + 1) = 0
    BY SMT
  <2> QED  BY <1>3, <2>1, Zenon
<1>8. ASSUME NEW d \in 0..m  PROVE g[d] = F[g[d + 1]]
  <2>1. /\ d \in 0..(m + 1) /\ d + 1 \in 0..(m + 1) /\ (m + 1) - (d + 1) \in Nat
        /\ (m + 1) - d = ((m + 1) - (d + 1)) + 1
    BY SMT
  <2>2. g[d] = f[(m + 1) - d] /\ g[d + 1] = f[(m + 1) - (d + 1)]
    BY <2>1, Zenon
  <2> QED  BY <1>4, <2>1, <2>2, Zenon
<1> HIDE DEF g
<1> QED  BY <1>6, <1>7, <1>8, Zenon DEF Descends

-----------------------------------------------------------------------------
(* Depth first and breadth first *)

\* The heap is one of the error graphs.
IsHeap == heap \in Heaps

Objects == Errors \cup {Nothing}

\* What an error refers to is an error or nothing.
LEMMA LinksAreObjects ==
  ASSUME IsHeap, NEW e \in Errors
  PROVE  /\ Links(e) \in Seq(Objects)
         /\ DOMAIN Links(e) = 1..Len(Links(e)) /\ Len(Links(e)) \in Nat
         /\ Nested(e) \subseteq Objects
         /\ heap[e].code \in Codes /\ heap[e].message \in Messages
<1>1. heap[e] \in ErrorObject
  BY MappingAssumption, Zenon DEF IsHeap
<1>2. /\ heap[e].driverError \in Objects /\ heap[e].cause \in Objects
      /\ heap[e].errors \in Seq(Errors)
      /\ heap[e].code \in Codes /\ heap[e].message \in Messages
  BY <1>1, SMT DEF ErrorObject, Objects
<1>3. PICK d, c, r : d = heap[e].driverError /\ c = heap[e].cause /\ r = heap[e].errors
  BY Zenon
<1>4. <<d, c>> \in Seq(Objects)
  BY <1>2, <1>3, SMT
<1>5. r \in Seq(Objects)
  BY <1>2, <1>3, SMT DEF Objects
<1>6. <<d, c>> \o r \in Seq(Objects)
  BY <1>4, <1>5, SMT
<1>7. Links(e) \in Seq(Objects)
  BY <1>3, <1>6, Zenon DEF Links
<1>8. /\ DOMAIN Links(e) = 1..Len(Links(e)) /\ Len(Links(e)) \in Nat
      /\ \A i \in DOMAIN Links(e) : Links(e)[i] \in Objects
  BY <1>7, SMT
<1> QED  BY <1>2, <1>7, <1>8, Zenon DEF Nested

\* sees[d]: the errors from which a walk that starts at depth d meets one of own.
IsSeen(sees, own) ==
  /\ sees \in [0..(MaxCauseDepth + 1) -> SUBSET Errors]
  /\ sees[MaxCauseDepth + 1] = {}
  /\ \A d \in 0..MaxCauseDepth : \A x \in Errors :
       x \in sees[d] <=> x \in own \/ \E y \in Nested(x) : y \in sees[d + 1]

\* y is in s or one link away from it.
Joins(y, s) == y # Nothing /\ (y \in s \/ \E x \in s : y \in Nested(x))

\* near[k]: the errors at most k links away from e.
IsNear(near, e) ==
  /\ near[0] = {e} \ {Nothing}
  /\ \A k \in 0..MaxCauseDepth : k # 0 =>
       \A y : y \in near[k] <=> Joins(y, near[k - 1])

\* The reference collects errors only.
LEMMA NearAreErrors ==
  ASSUME IsHeap, NEW e \in Objects, NEW near, IsNear(near, e)
  PROVE  \A k \in 0..MaxCauseDepth : near[k] \subseteq Errors
<1> DEFINE T == {k \in Nat : k <= MaxCauseDepth => near[k] \subseteq Errors}
<1>1. 0 \in T
  <2>1. 0 \in Nat
    BY SMT
  <2>2. near[0] \subseteq Errors
    BY Zenon DEF IsNear, Objects
  <2> QED  BY <2>1, <2>2, Zenon
<1>2. ASSUME NEW k \in Nat, k \in T  PROVE k + 1 \in T
  <2>0. k + 1 \in Nat
    BY SMT
  <2>1. SUFFICES ASSUME k + 1 <= MaxCauseDepth PROVE near[k + 1] \subseteq Errors
    BY <2>0, Zenon
  <2>2. k <= MaxCauseDepth /\ k + 1 \in 0..MaxCauseDepth /\ (k + 1) - 1 = k /\ k + 1 # 0
    BY <2>1, MappingAssumption, SMT
  <2>3. near[k] \subseteq Errors
    BY <1>2, <2>2, Zenon
  <2>4. \A y : y \in near[k + 1] <=> Joins(y, near[k])
    BY <2>2, Zenon DEF IsNear
  <2>5. ASSUME NEW y \in near[k + 1]  PROVE y \in Errors
    <3>1. CASE y \in near[k]
      BY <2>3, <3>1, Zenon
    <3>2. CASE y \notin near[k]
      <4>1. PICK x \in near[k] : y \in Nested(x) /\ y # Nothing
        BY <2>4, <2>5, <3>2, Zenon DEF Joins
      <4>2. Nested(x) \subseteq Objects
        BY <2>3, LinksAreObjects, Zenon
      <4> QED  BY <4>1, <4>2, Zenon DEF Objects
    <3> QED  BY <3>1, <3>2, Zenon
  <2> QED  BY <2>5, Zenon
<1> HIDE DEF T
<1>3. Nat \subseteq T
  BY <1>1, <1>2, Induction, Zenon
<1> USE DEF T
<1>4. \A k \in 0..MaxCauseDepth : k \in Nat /\ k <= MaxCauseDepth
  BY MappingAssumption, SMT
<1> QED  BY <1>3, <1>4, Zenon

\* A walk that starts deeper sees less.
LEMMA SeesLess ==
  ASSUME NEW own, NEW sees, IsSeen(sees, own)
  PROVE  \A d \in 0..MaxCauseDepth : sees[d + 1] \subseteq sees[d]
<1> DEFINE m == MaxCauseDepth
           T == {k \in Nat : k <= m => sees[(m - k) + 1] \subseteq sees[m - k]}
<1>0. m \in Nat
  BY MappingAssumption, Zenon
<1>s. /\ \A d \in 0..(m + 1) : sees[d] \subseteq Errors
      /\ sees[m + 1] = {}
      /\ \A d \in 0..m : \A x \in Errors :
           x \in sees[d] <=> x \in own \/ \E y \in Nested(x) : y \in sees[d + 1]
  BY Zenon DEF IsSeen
<1> HIDE DEF m
<1>1. 0 \in T
  <2>1. (m - 0) + 1 = m + 1 /\ 0 \in Nat
    BY <1>0, SMT
  <2>2. sees[(m - 0) + 1] = {}
    BY <1>s, <2>1, Zenon
  <2> QED  BY <2>1, <2>2, Zenon
<1>2. ASSUME NEW k \in Nat, k \in T  PROVE k + 1 \in T
  <2>0. k + 1 \in Nat
    BY SMT
  <2>1. SUFFICES ASSUME k + 1 <= m
                 PROVE  sees[(m - (k + 1)) + 1] \subseteq sees[m - (k + 1)]
    BY <2>0, Zenon
  <2>2. PICK d : d = m - (k + 1)
    BY Zenon
  <2>3. /\ k <= m /\ m - k = d + 1 /\ d \in 0..m /\ d + 1 \in 0..m /\ d + 1 \in 0..(m + 1)
    BY <1>0, <2>1, <2>2, SMT
  <2>4. sees[(d + 1) + 1] \subseteq sees[d + 1]
    BY <1>2, <2>3, Zenon
  <2>5. sees[d + 1] \subseteq sees[d]
    BY <1>s, <2>3, <2>4, Zenon
  <2> QED  BY <2>2, <2>5, Zenon
<1> HIDE DEF T
<1>3. Nat \subseteq T
  BY <1>1, <1>2, Induction, Zenon
<1> USE DEF T
<1>4. ASSUME NEW d \in 0..m  PROVE sees[d + 1] \subseteq sees[d]
  <2>1. PICK k \in Nat : k = m - d
    BY <1>0, SMT
  <2>2. k <= m /\ m - k = d
    BY <1>0, <2>1, SMT
  <2> QED  BY <1>3, <2>2, Zenon
<1> QED  BY <1>4, Zenon DEF m

\* The depth-first walks of the filter meet what is within reach by breadth: no
\* path, however it branches, meets, or runs in a circle, hides an error.
LEMMA WalkSeesWithin ==
  ASSUME IsHeap, NEW e \in Objects, NEW near, IsNear(near, e),
         NEW own, NEW sees, IsSeen(sees, own)
  PROVE  e \in sees[0] <=> \E x \in near[MaxCauseDepth] : x \in own
<1> DEFINE m == MaxCauseDepth
           Meets(k) == \E x \in near[k] : x \in sees[k]
           T == {k \in Nat : k <= m => (e \in sees[0] <=> Meets(k))}
<1>0. m \in Nat /\ Nothing \notin Errors
  BY MappingAssumption, Zenon
<1>s. /\ \A d \in 0..(m + 1) : sees[d] \subseteq Errors
      /\ sees[m + 1] = {}
      /\ \A d \in 0..m : \A x \in Errors :
           x \in sees[d] <=> x \in own \/ \E y \in Nested(x) : y \in sees[d + 1]
  BY Zenon DEF IsSeen
<1>n. /\ near[0] = {e} \ {Nothing}
      /\ \A k \in 0..m : k # 0 =>
           \A y : y \in near[k] <=> Joins(y, near[k - 1])
      /\ \A k \in 0..m : near[k] \subseteq Errors
  BY NearAreErrors, Zenon DEF IsNear
<1>l. \A d \in 0..m : sees[d + 1] \subseteq sees[d]
  BY SeesLess, Zenon
<1> HIDE DEF m
<1>1. 0 \in T
  <2>1. 0 \in Nat /\ 0 \in 0..(m + 1)
    BY <1>0, SMT
  <2>2. e \in sees[0] => e # Nothing
    BY <1>0, <1>s, <2>1, Zenon
  <2>3. e \in sees[0] <=> Meets(0)
    BY <1>n, <2>2, Zenon
  <2> QED  BY <2>1, <2>3, Zenon
<1>2. ASSUME NEW k \in Nat, k \in T  PROVE k + 1 \in T
  <2>0. k + 1 \in Nat
    BY SMT
  <2>1. SUFFICES ASSUME k + 1 <= m PROVE Meets(k) <=> Meets(k + 1)
    <3>1. k + 1 <= m => k <= m
      BY <1>0, SMT
    <3> HIDE DEF Meets
    <3> QED  BY <1>2, <2>0, <3>1, Zenon
  <2>2. /\ k \in 0..m /\ k + 1 \in 0..m /\ (k + 1) - 1 = k /\ k + 1 # 0
        /\ k + 1 \in 0..(m + 1) /\ (k + 1) + 1 \in 0..(m + 1)
    BY <1>0, <2>1, SMT
  <2>3. /\ \A y : y \in near[k + 1] <=> Joins(y, near[k])
        /\ near[k] \subseteq Errors /\ near[k + 1] \subseteq Errors
    BY <1>n, <2>2, Zenon
  <2>4. ASSUME Meets(k)  PROVE Meets(k + 1)
    <3>1. PICK x \in near[k] : x \in sees[k]
      BY <2>4, Zenon
    <3>2. CASE x \in own
      <4>1. x \in near[k + 1] /\ x \in Errors
        BY <1>0, <2>3, <3>1, Zenon DEF Joins
      <4>2. x \in sees[k + 1]
        BY <1>s, <2>2, <3>2, <4>1, Zenon
      <4> QED  BY <4>1, <4>2, Zenon
    <3>3. CASE x \notin own
      <4>1. x \in Errors
        BY <2>3, <3>1, Zenon
      <4>2. PICK y \in Nested(x) : y \in sees[k + 1]
        BY <1>s, <2>2, <3>1, <3>3, <4>1, Zenon
      <4>3. y # Nothing
        BY <1>0, <1>s, <2>2, <4>2, Zenon
      <4>4. y \in near[k + 1]
        BY <2>3, <3>1, <4>2, <4>3, Zenon DEF Joins
      <4> QED  BY <4>2, <4>4, Zenon
    <3> QED  BY <3>2, <3>3, Zenon
  <2>5. ASSUME Meets(k + 1)  PROVE Meets(k)
    <3>1. PICK y \in near[k + 1] : y \in sees[k + 1]
      BY <2>5, Zenon
    <3>2. CASE y \in near[k]
      BY <1>l, <2>2, <3>1, <3>2, Zenon
    <3>3. CASE y \notin near[k]
      <4>1. PICK x \in near[k] : y \in Nested(x)
        BY <2>3, <3>1, <3>3, Zenon DEF Joins
      <4>2. x \in sees[k]
        BY <1>s, <2>2, <2>3, <3>1, <4>1, Zenon
      <4> QED  BY <4>1, <4>2, Zenon
    <3> QED  BY <3>2, <3>3, Zenon
  <2> QED  BY <2>4, <2>5, Zenon
<1>3. Nat \subseteq T
  <2> HIDE DEF T
  <2> QED  BY <1>1, <1>2, Induction, Zenon
<1>4. m \in 0..m /\ m <= m /\ m + 1 \in 0..(m + 1)
  BY <1>0, SMT
<1>5. e \in sees[0] <=> Meets(m)
  <2> HIDE DEF Meets
  <2> QED  BY <1>0, <1>3, <1>4, Zenon
<1>6. \A x \in near[m] : x \in sees[m] <=> x \in own
  BY <1>s, <1>n, <1>4, Zenon
<1>7. e \in sees[0] <=> \E x \in near[m] : x \in own
  BY <1>5, <1>6, Zenon
<1> QED  BY <1>7, Zenon DEF m

-----------------------------------------------------------------------------
(* The walks of the filter *)

\* The reference is what IsNear describes.
LEMMA WithinIsNear ==
  ASSUME IsHeap, exception \in Objects
  PROVE  \E near : IsNear(near, exception)
                   /\ Within = near[MaxCauseDepth]
<1> DEFINE Step(s) == (s \cup UNION {Nested(x) : x \in s}) \ {Nothing}
           F == [p \in Nat \X SUBSET Errors |-> Step(p[2])]
           start == {exception} \ {Nothing}
           W(u) == [k \in 0..MaxCauseDepth |-> IF k = 0 THEN start ELSE Step(u[k - 1])]
           within == CHOOSE u : u = W(u)
<1>0. MaxCauseDepth \in Nat
  BY MappingAssumption, Zenon
<1>1. ASSUME NEW s \in SUBSET Errors  PROVE Step(s) \in SUBSET Errors
  <2>1. ASSUME NEW y \in Step(s)  PROVE y \in Errors
    <3>1. y # Nothing /\ (y \in s \/ \E x \in s : y \in Nested(x))
      BY <2>1, SMT
    <3>2. \A x \in s : Nested(x) \subseteq Objects
      BY LinksAreObjects, Zenon
    <3> QED  BY <3>1, <3>2, Zenon DEF Objects
  <2> QED  BY <2>1, Zenon
<1>2. start \in SUBSET Errors
  BY Zenon DEF Objects
<1> HIDE DEF start
<1>3. PICK v : Iterates(v, SUBSET Errors, start, F)
  <2>1. IsStep(F, SUBSET Errors)
    <3> HIDE DEF Step
    <3>1. \A p \in Nat \X SUBSET Errors : p[2] \in SUBSET Errors
      BY SMT
    <3> QED  BY <1>1, <3>1, Zenon DEF IsStep
  <2> HIDE DEF F
  <2> QED  BY <1>2, <2>1, Recursion, Zenon
<1>4. /\ v[0] = start
      /\ \A n \in Nat : v[n + 1] = Step(v[n])
  <2> HIDE DEF Step
  <2>1. v \in [Nat -> SUBSET Errors] /\ v[0] = start /\ \A n \in Nat : v[n + 1] = F[<<n, v[n]>>]
    <3> HIDE DEF F
    <3> QED  BY <1>3, Zenon DEF Iterates
  <2>2. ASSUME NEW n \in Nat  PROVE v[n + 1] = Step(v[n])
    <3>1. <<n, v[n]>> \in Nat \X SUBSET Errors
      BY <2>1, Zenon
    <3>2. F[<<n, v[n]>>] = Step(v[n])
      BY <3>1, Zenon
    <3> HIDE DEF F
    <3> QED  BY <2>1, <3>2, Zenon
  <2> QED  BY <2>1, <2>2, Zenon
<1>5. within = W(within)
  <2> HIDE DEF Step
  <2> DEFINE w == [k \in 0..MaxCauseDepth |-> v[k]]
  <2>1. ASSUME NEW k \in 0..MaxCauseDepth
        PROVE  v[k] = IF k = 0 THEN start ELSE Step(w[k - 1])
    <3>1. CASE k = 0
      BY <1>4, <3>1, Zenon
    <3>2. CASE k # 0
      <4>1. k - 1 \in Nat /\ k - 1 \in 0..MaxCauseDepth /\ (k - 1) + 1 = k
        BY <1>0, <3>2, SMT
      <4>2. w[k - 1] = v[k - 1]
        BY <4>1, Zenon
      <4>3. v[(k - 1) + 1] = Step(v[k - 1])
        BY <1>4, <4>1, Zenon
      <4> HIDE DEF w
      <4> QED  BY <3>2, <4>1, <4>2, <4>3, Zenon
    <3> QED  BY <3>1, <3>2, Zenon
  <2>2. w = W(w)
    BY <2>1, Zenon
  <2> HIDE DEF w, W
  <2> QED  BY <2>2, Zenon
<1>6. Within = within[MaxCauseDepth]
  BY Zenon DEF Within, start
<1>7. within[0] = start
  <2>1. 0 \in 0..MaxCauseDepth
    BY <1>0, SMT
  <2> HIDE DEF within, Step
  <2> QED  BY <1>5, <2>1, Zenon
<1>8. \A k \in 0..MaxCauseDepth : k # 0 => within[k] = Step(within[k - 1])
  <2> HIDE DEF within, Step
  <2> QED  BY <1>5, Zenon
<1> HIDE DEF within
<1>9. ASSUME NEW s, NEW y  PROVE y \in Step(s) <=> Joins(y, s)
  BY SMT DEF Joins
<1> HIDE DEF Step
<1>10. IsNear(within, exception)
  <2>1. \A k \in 0..MaxCauseDepth : k # 0 => \A y : y \in within[k] <=> Joins(y, within[k - 1])
    BY <1>8, <1>9, Zenon
  <2> QED  BY <1>7, <2>1, Zenon DEF IsNear, start
<1> QED  BY <1>6, <1>10, Zenon

\* What collectErrorCodes and collectErrorMessages find.
LEMMA CollectSees ==
  ASSUME IsHeap, NEW T, NEW own \in [Errors -> SUBSET T], NEW what, NEW e \in Objects
  PROVE  \E sees : /\ IsSeen(sees, {x \in Errors : what \in own[x]})
                   /\ what \in Collect(own, e) <=> e \in sees[0]
<1> DEFINE m == MaxCauseDepth
           S == [Objects -> SUBSET T]
           Below(v, x) == own[x] \cup UNION {v[y] : y \in Nested(x)}
           Row(v) == [x \in Objects |-> IF x = Nothing THEN {} ELSE Below(v, x)]
           F == [v \in S |-> Row(v)]
           a == [x \in Objects |-> {}]
           C(u) == [d \in 0..(m + 1) |->
                      [x \in Objects |-> IF BeyondDepth(d) \/ x = Nothing THEN {}
                                         ELSE Below(u[d + 1], x)]]
           collected == CHOOSE u : u = C(u)
<1>0. m \in Nat /\ Nothing \notin Errors
  BY MappingAssumption, Zenon
<1>m. /\ \A d \in 0..m : ~BeyondDepth(d) /\ d \in 0..(m + 1) /\ d + 1 \in 0..(m + 1)
      /\ BeyondDepth(m + 1) /\ m + 1 \in 0..(m + 1)
      /\ \A d \in 0..(m + 1) : d = m + 1 \/ d \in 0..m
  BY <1>0, SMT DEF BeyondDepth
<1>1. a \in S
  BY Zenon
<1>2. F \in [S -> S]
  <2>1. ASSUME NEW v \in S, NEW x \in Errors, NEW c \in Below(v, x)  PROVE c \in T
    <3>1. c \in own[x] \/ \E y \in Nested(x) : c \in v[y]
      BY <2>1, SMT
    <3>2. Nested(x) \subseteq Objects
      BY LinksAreObjects, Zenon
    <3>3. \A y \in Objects : v[y] \subseteq T
      BY Zenon
    <3>4. own[x] \subseteq T
      BY Zenon
    <3> QED  BY <3>1, <3>2, <3>3, <3>4, Zenon
  <2>2. \A v \in S, x \in Errors : Below(v, x) \subseteq T
    BY <2>1, Zenon
  <2> HIDE DEF Below
  <2>3. ASSUME NEW v \in S  PROVE Row(v) \in S
    <3>1. ASSUME NEW x \in Objects
          PROVE  (IF x = Nothing THEN {} ELSE Below(v, x)) \in SUBSET T
      BY <2>2, Zenon DEF Objects
    <3> QED  BY <3>1, Zenon
  <2> HIDE DEF Row, S
  <2> QED  BY <2>3, Zenon
<1> HIDE DEF Below
<1>3. PICK g : Descends(g, S, m, a, F)
  <2> HIDE DEF S, a, F, m
  <2> QED  BY <1>0, <1>1, <1>2, Descent, Zenon
<1>4. collected = C(collected)
  <2>1. ASSUME NEW d \in 0..(m + 1)
        PROVE  g[d] = [x \in Objects |-> IF BeyondDepth(d) \/ x = Nothing THEN {}
                                         ELSE Below(g[d + 1], x)]
    <3>1. CASE d = m + 1
      <4>1. g[d] = a
        BY <1>3, <3>1, Zenon DEF Descends
      <4> QED  BY <1>m, <3>1, <4>1, Zenon
    <3>2. CASE d \in 0..m
      <4> HIDE DEF S
      <4>1. g[d + 1] \in S /\ g[d] = F[g[d + 1]]
        <5> HIDE DEF F, a, m
        <5> QED  BY <1>m, <1>3, <3>2, Zenon DEF Descends
      <4>2. g[d] = Row(g[d + 1])
        BY <4>1, Zenon
      <4> QED  BY <1>m, <3>2, <4>2, Zenon
    <3> QED  BY <1>m, <3>1, <3>2, Zenon
  <2>2. g = [d \in 0..(m + 1) |-> g[d]]
    <3> HIDE DEF S, a, F, m
    <3> QED  BY <1>3, Zenon DEF Descends
  <2>3. g = C(g)
    BY <2>1, <2>2, Zenon
  <2> HIDE DEF C
  <2> QED  BY <2>3, Zenon
<1>5. Collect(own, e) = collected[0][e]
  BY Zenon DEF Collect, Objects, Below
<1>6. ASSUME NEW d \in 0..m, NEW x \in Errors
      PROVE  collected[d][x] = Below(collected[d + 1], x)
  <2> HIDE DEF collected
  <2>1. collected[d] = [y \in Objects |-> IF BeyondDepth(d) \/ y = Nothing THEN {}
                                          ELSE Below(collected[d + 1], y)]
    BY <1>m, <1>4, Zenon
  <2>2. x \in Objects /\ x # Nothing
    BY <1>0, Zenon DEF Objects
  <2> QED  BY <1>m, <2>1, <2>2, Zenon
<1>7. \A y \in Objects : collected[m + 1][y] = {}
  <2> HIDE DEF collected
  <2>1. collected[m + 1] = [y \in Objects |-> IF BeyondDepth(m + 1) \/ y = Nothing THEN {}
                                          ELSE Below(collected[(m + 1) + 1], y)]
    BY <1>m, <1>4, Zenon
  <2> QED  BY <1>m, <2>1, Zenon
<1>8. \A d \in 0..(m + 1) : collected[d][Nothing] = {}
  <2> HIDE DEF collected
  <2>1. ASSUME NEW d \in 0..(m + 1)  PROVE collected[d][Nothing] = {}
    <3>1. collected[d] = [y \in Objects |-> IF BeyondDepth(d) \/ y = Nothing THEN {}
                                            ELSE Below(collected[d + 1], y)]
      BY <1>4, Zenon
    <3>2. Nothing \in Objects
      BY Zenon DEF Objects
    <3> QED  BY <3>1, <3>2, Zenon
  <2> QED  BY <2>1, Zenon
<1> HIDE DEF collected
<1> DEFINE sees == [d \in 0..(m + 1) |-> {x \in Errors : what \in collected[d][x]}]
           found == {x \in Errors : what \in own[x]}
<1>9. \A d \in 0..(m + 1), y \in Objects : y \in sees[d] <=> what \in collected[d][y]
  BY <1>8, Zenon DEF Objects
<1>10. sees \in [0..(m + 1) -> SUBSET Errors]
  BY Zenon
<1>11. sees[m + 1] = {}
  <2>1. \A x \in Errors : collected[m + 1][x] = {}
    BY <1>7, Zenon DEF Objects
  <2> QED  BY <1>m, <2>1, Zenon
<1>12. ASSUME NEW d \in 0..m, NEW x \in Errors
       PROVE  x \in sees[d] <=> x \in found \/ \E y \in Nested(x) : y \in sees[d + 1]
  <2>1. x \in sees[d] <=> what \in Below(collected[d + 1], x)
    <3> HIDE DEF sees
    <3> QED  BY <1>m, <1>6, <1>9, Zenon DEF Objects
  <2>2. what \in Below(collected[d + 1], x)
          <=> what \in own[x] \/ \E y \in Nested(x) : what \in collected[d + 1][y]
    BY SMT DEF Below
  <2>3. Nested(x) \subseteq Objects
    BY LinksAreObjects, Zenon
  <2>4. \A y \in Nested(x) : y \in sees[d + 1] <=> what \in collected[d + 1][y]
    <3> HIDE DEF sees
    <3> QED  BY <1>m, <1>9, <2>3, Zenon
  <2>5. x \in found <=> what \in own[x]
    BY Zenon
  <2> HIDE DEF sees, found
  <2> QED  BY <2>1, <2>2, <2>4, <2>5, Zenon
<1> HIDE DEF sees
<1>13. IsSeen(sees, found)
  <2> HIDE DEF found
  <2> QED  BY <1>10, <1>11, <1>12, Zenon DEF IsSeen
<1>14. what \in Collect(own, e) <=> e \in sees[0]
  <2>1. 0 \in 0..(m + 1)
    BY <1>0, SMT
  <2> QED  BY <1>5, <1>9, <2>1, Zenon
<1> QED  BY <1>13, <1>14, Zenon

\* The loop over the nested errors finds a code when one of them has one.
LEMMA FirstFoundFacts ==
  ASSUME NEW n \in Nat, NEW codes \in [1..n -> Codes]
  PROVE  /\ FirstFound(codes) \in Codes
         /\ FirstFound(codes) = "none" <=> \A i \in 1..n : codes[i] = "none"
<1>1. DOMAIN codes = 1..n
  BY Zenon
<1>2. CASE \A i \in 1..n : codes[i] = "none"
  BY <1>1, <1>2, Zenon DEF FirstFound, Codes
<1>3. CASE ~\A i \in 1..n : codes[i] = "none"
  <2> DEFINE T == {i \in 1..n : codes[i] # "none"}
             IsFirst(i) == codes[i] # "none" /\ \A j \in 1..(i - 1) : codes[j] = "none"
             first == CHOOSE i \in 1..n : IsFirst(i)
  <2>1. PICK i \in T : \A j \in T : i <= j
    <3>1. T # {}
      BY <1>3, Zenon
    <3>2. T \subseteq Nat
      BY SMT
    <3> HIDE DEF T
    <3> QED  BY <3>1, <3>2, LeastNatural, Zenon
  <2>2. i \in 1..n /\ IsFirst(i)
    <3>1. \A j \in 1..(i - 1) : j \in 1..n /\ ~(i <= j)
      BY <2>1, SMT
    <3> QED  BY <2>1, <3>1, Zenon
  <2>3. first \in 1..n /\ codes[first] # "none"
    BY <2>2, Zenon
  <2>4. FirstFound(codes) = codes[first]
    BY <1>1, <1>3, Zenon DEF FirstFound
  <2> HIDE DEF first
  <2> QED  BY <1>3, <2>3, <2>4, Zenon
<1> QED  BY <1>2, <1>3, Zenon

\* findCauseCode stops at the first code, and still finds one whenever a walk that
\* collects them all would.
LEMMA CauseCodeSees ==
  ASSUME IsHeap, NEW e \in Objects
  PROVE  \E sees : /\ IsSeen(sees, {x \in Errors : heap[x].code \in SafeCodes})
                   /\ findCauseCode(e) # "none" <=> e \in sees[0]
<1> DEFINE m == MaxCauseDepth
           S == [Objects -> Codes]
           Seen(v, x) == [i \in DOMAIN Links(x) |-> v[Links(x)[i]]]
           Below(v, x) == IF heap[x].code \in SafeCodes THEN heap[x].code
                          ELSE FirstFound(Seen(v, x))
           Row(v) == [x \in Objects |-> IF x = Nothing THEN "none" ELSE Below(v, x)]
           F == [v \in S |-> Row(v)]
           a == [x \in Objects |-> "none"]
           C(u) == [d \in 0..(m + 1) |->
                      [x \in Objects |-> IF BeyondDepth(d) \/ x = Nothing THEN "none"
                                         ELSE Below(u[d + 1], x)]]
           found == CHOOSE u : u = C(u)
<1>0. m \in Nat /\ Nothing \notin Errors
  BY MappingAssumption, Zenon
<1>m. /\ \A d \in 0..m : ~BeyondDepth(d) /\ d \in 0..(m + 1) /\ d + 1 \in 0..(m + 1)
      /\ BeyondDepth(m + 1) /\ m + 1 \in 0..(m + 1)
      /\ \A d \in 0..(m + 1) : d = m + 1 \/ d \in 0..m
  BY <1>0, SMT DEF BeyondDepth
<1>1. a \in S
  BY Zenon DEF Codes
<1>b. ASSUME NEW v \in S, NEW x \in Errors
      PROVE  /\ Below(v, x) \in Codes
             /\ Below(v, x) # "none"
                  <=> heap[x].code \in SafeCodes \/ \E y \in Nested(x) : v[y] # "none"
  <2>1. /\ DOMAIN Links(x) = 1..Len(Links(x)) /\ Len(Links(x)) \in Nat
        /\ heap[x].code \in Codes
        /\ \A i \in DOMAIN Links(x) : Links(x)[i] \in Objects
    BY LinksAreObjects, Zenon DEF Nested
  <2>2. PICK n \in Nat : n = Len(Links(x))
    BY <2>1, Zenon
  <2>3. Seen(v, x) \in [1..n -> Codes]
    BY <2>1, <2>2, Zenon
  <2>4. /\ FirstFound(Seen(v, x)) \in Codes
        /\ FirstFound(Seen(v, x)) = "none" <=> \A i \in 1..n : Seen(v, x)[i] = "none"
    <3> HIDE DEF Seen
    <3> QED  BY <2>3, FirstFoundFacts, Zenon
  <2>5. (\A i \in 1..n : Seen(v, x)[i] = "none") <=> \A y \in Nested(x) : v[y] = "none"
    <3>1. \A i \in 1..n : Seen(v, x)[i] = v[Links(x)[i]]
      BY <2>1, <2>2, Zenon
    <3> HIDE DEF Seen
    <3> QED  BY <2>1, <2>2, <3>1, Zenon DEF Nested
  <2>6. "none" \notin SafeCodes
    BY Zenon DEF SafeCodes
  <2> HIDE DEF Seen
  <2> QED  BY <2>1, <2>4, <2>5, <2>6, Zenon
<1>2. F \in [S -> S]
  <2> HIDE DEF Below
  <2>1. ASSUME NEW v \in S  PROVE Row(v) \in S
    <3>1. "none" \in Codes
      BY Zenon DEF Codes
    <3>2. ASSUME NEW x \in Objects
          PROVE  (IF x = Nothing THEN "none" ELSE Below(v, x)) \in Codes
      BY <1>b, <3>1, Zenon DEF Objects
    <3> QED  BY <3>2, Zenon
  <2> HIDE DEF Row, S
  <2> QED  BY <2>1, Zenon
<1> HIDE DEF Below
<1>3. PICK g : Descends(g, S, m, a, F)
  <2> HIDE DEF S, a, F, m
  <2> QED  BY <1>0, <1>1, <1>2, Descent, Zenon
<1>4. found = C(found)
  <2>1. ASSUME NEW d \in 0..(m + 1)
        PROVE  g[d] = [x \in Objects |-> IF BeyondDepth(d) \/ x = Nothing THEN "none"
                                         ELSE Below(g[d + 1], x)]
    <3>1. CASE d = m + 1
      <4>1. g[d] = a
        BY <1>3, <3>1, Zenon DEF Descends
      <4> QED  BY <1>m, <3>1, <4>1, Zenon
    <3>2. CASE d \in 0..m
      <4> HIDE DEF S
      <4>1. g[d + 1] \in S /\ g[d] = F[g[d + 1]]
        <5> HIDE DEF F, a, m
        <5> QED  BY <1>m, <1>3, <3>2, Zenon DEF Descends
      <4>2. g[d] = Row(g[d + 1])
        BY <4>1, Zenon
      <4> QED  BY <1>m, <3>2, <4>2, Zenon
    <3> QED  BY <1>m, <3>1, <3>2, Zenon
  <2>2. g = [d \in 0..(m + 1) |-> g[d]]
    <3> HIDE DEF S, a, F, m
    <3> QED  BY <1>3, Zenon DEF Descends
  <2>3. g = C(g)
    BY <2>1, <2>2, Zenon
  <2> HIDE DEF C
  <2> QED  BY <2>3, Zenon
<1>5. findCauseCode(e) = found[0][e]
  BY Zenon DEF findCauseCode, Objects, Below
<1> HIDE DEF found
<1>6. \A d \in 0..(m + 1) : found[d] \in S
  <2> DEFINE U == {k \in Nat : k <= m + 1 => found[(m + 1) - k] \in S}
  <2>0. \A d \in 0..(m + 1) :
          found[d] = [x \in Objects |-> IF BeyondDepth(d) \/ x = Nothing THEN "none"
                                         ELSE Below(found[d + 1], x)]
    BY <1>4, Zenon
  <2>1. 0 \in U
    <3>1. 0 \in Nat /\ (m + 1) - 0 = m + 1
      BY <1>0, SMT
    <3>2. found[m + 1] = a
      BY <1>m, <2>0, Zenon
    <3> HIDE DEF a, S
    <3> QED  BY <1>1, <3>1, <3>2, Zenon
  <2>2. ASSUME NEW k \in Nat, k \in U  PROVE k + 1 \in U
    <3>0. k + 1 \in Nat
      BY SMT
    <3>1. SUFFICES ASSUME k + 1 <= m + 1  PROVE found[(m + 1) - (k + 1)] \in S
      BY <3>0, Zenon
    <3>2. PICK d \in 0..m : d = (m + 1) - (k + 1)
      BY <1>0, <3>1, SMT
    <3>3. k <= m + 1 /\ (m + 1) - k = d + 1
      BY <1>0, <3>1, <3>2, SMT
    <3>4. found[d + 1] \in S
      <4> HIDE DEF S
      <4> QED  BY <2>2, <3>3, Zenon
    <3>5. found[d] = Row(found[d + 1])
      BY <1>m, <2>0, Zenon
    <3>6. Row(found[d + 1]) \in S
      <4> HIDE DEF Row, S
      <4>1. F[found[d + 1]] = Row(found[d + 1])
        BY <3>4, Zenon
      <4> HIDE DEF F
      <4> QED  BY <1>2, <3>4, <4>1, Zenon
    <3> HIDE DEF Row, S
    <3> QED  BY <3>2, <3>5, <3>6, Zenon
  <2>3. Nat \subseteq U
    <3> HIDE DEF U
    <3> QED  BY <2>1, <2>2, Induction, Zenon
  <2>4. ASSUME NEW d \in 0..(m + 1)  PROVE found[d] \in S
    <3>1. PICK k \in Nat : k = (m + 1) - d
      BY <1>0, SMT
    <3>2. k <= m + 1 /\ (m + 1) - k = d
      BY <1>0, <3>1, SMT
    <3> HIDE DEF S
    <3> QED  BY <2>3, <3>2, Zenon
  <2> QED  BY <2>4, Zenon
<1>7. ASSUME NEW d \in 0..m, NEW x \in Errors
      PROVE  found[d][x] = Below(found[d + 1], x)
  <2>1. found[d] = [y \in Objects |-> IF BeyondDepth(d) \/ y = Nothing THEN "none"
                                      ELSE Below(found[d + 1], y)]
    BY <1>m, <1>4, Zenon
  <2>2. x \in Objects /\ x # Nothing
    BY <1>0, Zenon DEF Objects
  <2> QED  BY <1>m, <2>1, <2>2, Zenon
<1>8. ASSUME NEW d \in 0..(m + 1), NEW y \in Objects, d = m + 1 \/ y = Nothing
      PROVE  found[d][y] = "none"
  <2>1. found[d] = [x \in Objects |-> IF BeyondDepth(d) \/ x = Nothing THEN "none"
                                      ELSE Below(found[d + 1], x)]
    BY <1>4, Zenon
  <2> QED  BY <1>m, <1>8, <2>1, Zenon
<1> DEFINE sees == [d \in 0..(m + 1) |-> {x \in Errors : found[d][x] # "none"}]
           own == {x \in Errors : heap[x].code \in SafeCodes}
<1>9. \A d \in 0..(m + 1), y \in Objects : y \in sees[d] <=> found[d][y] # "none"
  BY <1>8, Zenon DEF Objects
<1>10. sees \in [0..(m + 1) -> SUBSET Errors]
  BY Zenon
<1>11. sees[m + 1] = {}
  <2>1. \A x \in Errors : found[m + 1][x] = "none"
    BY <1>m, <1>8, Zenon DEF Objects
  <2> QED  BY <1>m, <2>1, Zenon
<1>12. ASSUME NEW d \in 0..m, NEW x \in Errors
       PROVE  x \in sees[d] <=> x \in own \/ \E y \in Nested(x) : y \in sees[d + 1]
  <2>1. x \in sees[d] <=> Below(found[d + 1], x) # "none"
    <3> HIDE DEF sees
    <3> QED  BY <1>m, <1>7, <1>9, Zenon DEF Objects
  <2>2. found[d + 1] \in S
    <3> HIDE DEF S
    <3> QED  BY <1>m, <1>6, Zenon
  <2>3. Below(found[d + 1], x) # "none"
          <=> heap[x].code \in SafeCodes \/ \E y \in Nested(x) : found[d + 1][y] # "none"
    <3> HIDE DEF S
    <3> QED  BY <1>b, <2>2, Zenon
  <2>4. Nested(x) \subseteq Objects
    BY LinksAreObjects, Zenon
  <2>5. \A y \in Nested(x) : y \in sees[d + 1] <=> found[d + 1][y] # "none"
    <3> HIDE DEF sees
    <3> QED  BY <1>m, <1>9, <2>4, Zenon
  <2>6. x \in own <=> heap[x].code \in SafeCodes
    BY Zenon
  <2> HIDE DEF sees, own
  <2> QED  BY <2>1, <2>3, <2>5, <2>6, Zenon
<1> HIDE DEF sees
<1>13. IsSeen(sees, own)
  <2> HIDE DEF own
  <2> QED  BY <1>10, <1>11, <1>12, Zenon DEF IsSeen
<1>14. findCauseCode(e) # "none" <=> e \in sees[0]
  <2>1. 0 \in 0..(m + 1)
    BY <1>0, SMT
  <2> QED  BY <1>5, <1>9, <2>1, Zenon
<1> QED  BY <1>13, <1>14, Zenon

-----------------------------------------------------------------------------
(* The answer and the log *)

\* What the walks say about the errors within reach.
LEMMA WalksAreExact ==
  ASSUME IsHeap, exception \in Objects
  PROVE  /\ isDatabaseUnavailableError(exception)
              <=> Has("outage") \/ \E x \in Within : heap[x].message = "outage"
         /\ findPostgresDataExceptionCode(exception) <=> Has("data")
         /\ findCauseCode(exception) = "none" <=> \A x \in Within : heap[x].code \notin SafeCodes
<1>1. PICK near : IsNear(near, exception) /\ Within = near[MaxCauseDepth]
  BY WithinIsNear, Zenon
<1>2. Within \subseteq Errors
  <2>1. MaxCauseDepth \in 0..MaxCauseDepth
    BY MappingAssumption, SMT
  <2> QED  BY <1>1, <2>1, NearAreErrors, Zenon
<1>3. OwnCodes \in [Errors -> SUBSET Codes] /\ OwnMessages \in [Errors -> SUBSET Messages]
  <2>1. \A x \in Errors : heap[x].code \in Codes /\ heap[x].message \in Messages
    BY LinksAreObjects, Zenon
  <2> QED  BY <2>1, Zenon DEF OwnCodes, OwnMessages
<1>4. ASSUME NEW what, what # "none"  PROVE what \in Collect(OwnCodes, exception) <=> Has(what)
  <2>1. PICK sees : /\ IsSeen(sees, {x \in Errors : what \in OwnCodes[x]})
                    /\ what \in Collect(OwnCodes, exception) <=> exception \in sees[0]
    BY <1>3, CollectSees, Zenon
  <2>2. what \in Collect(OwnCodes, exception)
          <=> \E x \in Within : x \in {y \in Errors : what \in OwnCodes[y]}
    BY <1>1, <2>1, WalkSeesWithin, Zenon
  <2>3. \A x \in Errors : what \in OwnCodes[x] <=> heap[x].code = what
    BY <1>4, Zenon DEF OwnCodes
  <2> QED  BY <1>2, <2>2, <2>3, Zenon DEF Has
<1>5. "outage" \in Collect(OwnMessages, exception) <=> \E x \in Within : heap[x].message = "outage"
  <2>1. PICK sees : /\ IsSeen(sees, {x \in Errors : "outage" \in OwnMessages[x]})
                    /\ "outage" \in Collect(OwnMessages, exception) <=> exception \in sees[0]
    BY <1>3, CollectSees, Zenon
  <2>2. "outage" \in Collect(OwnMessages, exception)
          <=> \E x \in Within : x \in {y \in Errors : "outage" \in OwnMessages[y]}
    BY <1>1, <2>1, WalkSeesWithin, Zenon
  <2>3. \A x \in Errors : "outage" \in OwnMessages[x] <=> heap[x].message = "outage"
    BY Zenon DEF OwnMessages
  <2> QED  BY <1>2, <2>2, <2>3, Zenon
<1>6. findCauseCode(exception) # "none" <=> \E x \in Within : heap[x].code \in SafeCodes
  <2>1. PICK sees : /\ IsSeen(sees, {x \in Errors : heap[x].code \in SafeCodes})
                    /\ findCauseCode(exception) # "none" <=> exception \in sees[0]
    BY CauseCodeSees, Zenon
  <2>2. findCauseCode(exception) # "none"
          <=> \E x \in Within : x \in {y \in Errors : heap[y].code \in SafeCodes}
    BY <1>1, <2>1, WalkSeesWithin, Zenon
  <2> QED  BY <1>2, <2>2, Zenon
<1> QED  BY <1>4, <1>5, <1>6, Zenon
          DEF isDatabaseUnavailableError, findPostgresDataExceptionCode

\* The classification of an answer and the log that goes with it, as the induction
\* needs them: on an error graph of the instance.
ErrorInv ==
  /\ IsHeap /\ exception \in Objects
  /\ OutagesAndDataErrors /\ CauseIsNamed

\* The reference looks at nothing but the error.
LEMMA ReferenceKept ==
  ASSUME heap' = heap, exception' = exception
  PROVE  /\ Within' = Within
         /\ \A what : Has(what)' = Has(what)
         /\ IsHttp' = IsHttp
<1>1. Within' = Within
  BY SMT DEF Within, Nested, Links
<1>2. \A what : Has(what)' = Has(what)
  BY <1>1, Zenon DEF Has
<1>3. IsHttp' = IsHttp
  BY Zenon DEF IsHttp
<1> QED  BY <1>1, <1>2, <1>3, Zenon

\* Some error within reach tells of an outage of the database.
Outage == Has("outage") \/ \E e \in Within : heap[e].message = "outage"

\* The answer a to an error that is no HttpException.
IsRight(a) ==
  /\ a.error = "SERVICE_UNAVAILABLE" <=> Outage
  /\ Has("data") /\ ~Outage => a.status = 400
  /\ ~Outage /\ ~Has("data") /\ exception # Nothing /\ heap[exception].status = 0 =>
       a.status = 500

\* Such an error gets the right answer.
LEMMA AnswerIsRight ==
  ASSUME IsHeap, exception \in Objects, ~IsHttp, NEW a, a = resolve(exception)
  PROVE  IsRight(a)
<1>1. /\ isDatabaseUnavailableError(exception) <=> Outage
      /\ findPostgresDataExceptionCode(exception) <=> Has("data")
  BY WalksAreExact, Zenon DEF Outage
<1>2. ASSUME NEW status
      PROVE  /\ envelopeForStatus(status).status = status
             /\ envelopeForStatus(status).error # "SERVICE_UNAVAILABLE"
  <2>1. envelopeForStatus(status).status = status
    BY Zenon DEF envelopeForStatus
  <2>2. envelopeForStatus(status).error # "SERVICE_UNAVAILABLE"
    BY Zenon DEF envelopeForStatus
  <2> QED  BY <2>1, <2>2, Zenon
<1>3. ~(exception # Nothing /\ heap[exception].http = "application")
      /\ ~(exception # Nothing /\ heap[exception].http = "framework")
  BY Zenon DEF IsHttp
<1>4. CASE Outage
  <2>1. a = [status |-> 503, error |-> "SERVICE_UNAVAILABLE", text |-> "fixed"]
    BY <1>1, <1>3, <1>4, Zenon DEF resolve
  <2>2. a.error = "SERVICE_UNAVAILABLE"
    BY <2>1, SMT
  <2> QED  BY <1>4, <2>2, Zenon DEF IsRight
<1>5. CASE ~Outage /\ Has("data")
  <2>1. a = envelopeForStatus(400)
    BY <1>1, <1>3, <1>5, Zenon DEF resolve
  <2>2. /\ envelopeForStatus(400).status = 400
        /\ envelopeForStatus(400).error # "SERVICE_UNAVAILABLE"
    BY <1>2, Zenon
  <2>3. a.status = 400 /\ a.error # "SERVICE_UNAVAILABLE"
    BY <2>1, <2>2, Zenon
  <2> QED  BY <1>5, <2>3, Zenon DEF IsRight
<1>6. CASE ~Outage /\ ~Has("data")
  <2>1. a = IF extractHttpErrorStatus(exception) THEN envelopeForStatus(heap[exception].status)
            ELSE envelopeForStatus(500)
    BY <1>1, <1>3, <1>6, Zenon DEF resolve
  <2>2. a.error # "SERVICE_UNAVAILABLE"
    <3>1. PICK status : a = envelopeForStatus(status)
      BY <2>1, Zenon
    <3> QED  BY <1>2, <3>1, Zenon
  <2>3. ASSUME heap[exception].status = 0  PROVE a.status = 500
    <3>1. 0 \notin 400..599
      BY SMT
    <3>2. ~extractHttpErrorStatus(exception)
      BY <2>3, <3>1, Zenon DEF extractHttpErrorStatus
    <3>3. a = envelopeForStatus(500)
      BY <2>1, <3>2, Zenon
    <3>4. envelopeForStatus(500).status = 500
      BY <1>2, Zenon
    <3> QED  BY <3>3, <3>4, Zenon
  <2> QED  BY <1>6, <2>2, <2>3, Zenon DEF IsRight
<1> QED  BY <1>4, <1>5, <1>6, Zenon

\* The property says that the answer is right.
LEMMA RightAnswer ==
  ASSUME heap' = heap, exception' = exception, NEW a, a = answer',
         a # NoAnswer /\ ~IsHttp => IsRight(a)
  PROVE  OutagesAndDataErrors'
<1>1. Within' = Within /\ IsHttp' = IsHttp /\ \A what : Has(what)' = Has(what)
  BY ReferenceKept, Zenon
<1>2. Outage' <=> Outage
  <2>1. (\E e \in Within : heap[e].message = "outage")'
          <=> \E e \in Within : heap[e].message = "outage"
    BY <1>1, Zenon
  <2>2. Has("outage")' <=> Has("outage")
    BY <1>1, Zenon
  <2> QED  BY <2>1, <2>2, Zenon DEF Outage
<1>3. Has("data")' <=> Has("data")
  BY <1>1, Zenon
<1>4. ASSUME a # NoAnswer, ~IsHttp
      PROVE  /\ a.error = "SERVICE_UNAVAILABLE" <=> Outage'
             /\ Has("data")' /\ ~Outage' => a.status = 400
             /\ ~Outage' /\ ~Has("data")' /\ exception' # Nothing /\ heap'[exception'].status = 0
                  => a.status = 500
  BY <1>2, <1>3, <1>4, Zenon DEF IsRight
<1> QED  BY <1>1, <1>4, Zenon DEF OutagesAndDataErrors, Outage

\* What the log line of an error says about its cause.
LEMMA LineIsRight ==
  ASSUME IsHeap, exception \in Objects, NEW a, NEW line \in Lines(exception, a)
  PROVE  line.causeCode = "none" <=> \A e \in Within : heap[e].code \notin SafeCodes
<1>1. \/ line.causeCode = findCauseCode(exception)
      \/ findPostgresDataExceptionCode(exception) /\ line.causeCode = "data"
  <2>1. CASE a.status >= 500
    <3>1. line = [event |-> "http_request_failed",
                  errorCode |-> toSafeErrorCode(exception, a.error),
                  causeCode |-> findCauseCode(exception)]
      BY <2>1, Zenon DEF Lines
    <3> QED  BY <3>1, Zenon
  <2>2. CASE ~(a.status >= 500)
    <3>1. /\ findPostgresDataExceptionCode(exception)
          /\ line = [event |-> "http_request_data_exception",
                     errorCode |-> "DATABASE_DATA_EXCEPTION", causeCode |-> "data"]
      BY <2>2, Zenon DEF Lines
    <3> QED  BY <3>1, Zenon
  <2> QED  BY <2>1, <2>2, Zenon
<1>2. CASE line.causeCode = findCauseCode(exception)
  BY <1>2, WalksAreExact, Zenon
<1>3. CASE findPostgresDataExceptionCode(exception) /\ line.causeCode = "data"
  <2>1. "data" \in SafeCodes
    BY Zenon DEF SafeCodes, Codes
  <2>2. PICK e \in Within : heap[e].code = "data"
    BY <1>3, WalksAreExact, Zenon DEF Has
  <2>3. line.causeCode # "none"
    BY <1>3, Zenon
  <2> QED  BY <2>1, <2>2, <2>3, Zenon
<1> QED  BY <1>1, <1>2, <1>3, Zenon

\* Every catch keeps it.
LEMMA ErrorInvHolds == ErrorSpec => []ErrorInv
<1>1. ErrorInit => ErrorInv
  BY Zenon DEF ErrorInit, ErrorInv, IsHeap, Objects, OutagesAndDataErrors, CauseIsNamed
<1>2. ASSUME ErrorInv, [Catch]_errorVars  PROVE ErrorInv'
  <2>1. heap' = heap /\ exception' = exception
    BY <1>2, Zenon DEF Catch, errorVars
  <2>2. IsHeap /\ exception \in Objects /\ IsHeap' /\ exception' \in Objects
    BY <1>2, <2>1, Zenon DEF ErrorInv, IsHeap
  <2>3. Within' = Within /\ IsHttp' = IsHttp /\ \A what : Has(what)' = Has(what)
    BY <2>1, ReferenceKept, Zenon
  <2>4. OutagesAndDataErrors'
    <3>1. PICK a : a = answer'
      BY Zenon
    <3>2. CASE Catch
      <4>1. a = resolve(exception)
        BY <3>1, <3>2, Zenon DEF Catch
      <4>2. ~IsHttp => IsRight(a)
        BY <2>2, <4>1, AnswerIsRight, Zenon
      <4> QED  BY <2>1, <3>1, <4>2, RightAnswer, Zenon
    <3>3. CASE UNCHANGED errorVars
      <4>1. a = answer /\ OutagesAndDataErrors
        BY <1>2, <3>1, <3>3, Zenon DEF ErrorInv, errorVars
      <4>2. a # NoAnswer /\ ~IsHttp => IsRight(a)
        BY <4>1, Zenon DEF OutagesAndDataErrors, IsRight, Outage
      <4> QED  BY <2>1, <3>1, <4>2, RightAnswer, Zenon
    <3> QED  BY <1>2, <3>2, <3>3, Zenon
  <2>5. CauseIsNamed'
    <3>1. CASE Catch
      <4>1. log' = Lines(exception, answer')
        BY <3>1, Zenon DEF Catch
      <4> QED  BY <2>1, <2>2, <2>3, <4>1, LineIsRight, Zenon DEF CauseIsNamed
    <3>2. CASE UNCHANGED errorVars
      BY <1>2, <2>1, <2>3, <3>2, Zenon DEF ErrorInv, CauseIsNamed, errorVars
    <3> QED  BY <1>2, <3>1, <3>2, Zenon
  <2> QED  BY <2>2, <2>4, <2>5, Zenon DEF ErrorInv
<1> QED  BY <1>1, <1>2, PTL DEF ErrorSpec

\* The filter answers 503 exactly when an outage of the database is found within
\* the depth of the walk, and a data error without one with 400, whatever the
\* graph of causes is.
THEOREM ErrorsAreClassified == ErrorSpec => []OutagesAndDataErrors
<1>1. ErrorInv => OutagesAndDataErrors
  BY Zenon DEF ErrorInv
<1> QED  BY <1>1, ErrorInvHolds, PTL

\* The log lines of the filter name a cause exactly when an error within the
\* depth has a code that may be named, in graphs with cycles too.
THEOREM CausesAreNamed == ErrorSpec => []CauseIsNamed
<1>1. ErrorInv => CauseIsNamed
  BY Zenon DEF ErrorInv
<1> QED  BY <1>1, ErrorInvHolds, PTL
=============================================================================
