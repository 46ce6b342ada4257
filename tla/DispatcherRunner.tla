--------------------------- MODULE DispatcherRunner ---------------------------
(***************************************************************************)
(* OutboxDispatcherRunnerService: two interval timers that start dispatch  *)
(* batches and reconciliations, the cooldown after failed batches, and the *)
(* shutdown that waits for what is in flight.  A timer may fire at any     *)
(* moment while it is set; time is counted in units of                     *)
(* RUNNER_BACKOFF_BASE_MS.                                                 *)
(***************************************************************************)
EXTENDS Naturals

CONSTANTS
  MaxCooldown,  \* RUNNER_BACKOFF_MAX_MS (30 in the code)
  MaxFailures   \* consecutiveFailures is counted up to here: see the assumption

\* From MaxFailures on one more failure no longer changes the cooldown.  The
\* last conjunct is plain arithmetic that the provers do not know.
RunnerAssumption ==
  /\ MaxCooldown \in Nat \ {0}
  /\ MaxFailures \in Nat \ {0}
  /\ 2^(MaxFailures - 1) >= MaxCooldown
  /\ \A n \in 1..MaxFailures : 2^(n - 1) \in Nat

VARIABLES
  timers,      \* timer and reconcileTimer are set
  inFlight,    \* inFlightDispatch # null
  batches,     \* calls of dispatchBatch that have not settled
  inFlightRec, \* inFlightReconcile # null
  reconciles,  \* calls of reconcileStalePublishedEvents that have not settled
  failures,    \* consecutiveFailures
  cooldown,    \* cooldownUntilMs - Date.now(), not below 0
  elapsed,     \* time since the last failed batch, up to MaxCooldown
  shutdown     \* onApplicationShutdown: "no", "waiting" or "done"

vars == <<timers, inFlight, batches, inFlightRec, reconciles, failures,
          cooldown, elapsed, shutdown>>

\* onApplicationBootstrap: without OUTBOX_DISPATCH_ENABLED no timer is set.
Init ==
  /\ timers \in BOOLEAN
  /\ inFlight = FALSE
  /\ batches = 0
  /\ inFlightRec = FALSE
  /\ reconciles = 0
  /\ failures = 0
  /\ cooldown = 0
  /\ elapsed = MaxCooldown
  /\ shutdown = "no"

Least(a, b) == IF a <= b THEN a ELSE b

-----------------------------------------------------------------------------
(* Dispatch *)

DispatchOnce ==
  /\ timers
  /\ ~inFlight
  /\ cooldown = 0
  /\ inFlight' = TRUE
  /\ batches' = batches + 1
  /\ UNCHANGED <<timers, inFlightRec, reconciles, failures, cooldown, elapsed, shutdown>>

DispatchSucceeds ==
  /\ batches > 0
  /\ batches' = batches - 1
  /\ inFlight' = FALSE
  /\ failures' = 0
  /\ cooldown' = 0
  /\ UNCHANGED <<timers, inFlightRec, reconciles, elapsed, shutdown>>

calculateCooldown(n) == Least(2^(n - 1), MaxCooldown)

DispatchFails ==
  /\ batches > 0
  /\ batches' = batches - 1
  /\ inFlight' = FALSE
  /\ failures' = Least(failures + 1, MaxFailures)
  /\ cooldown' = calculateCooldown(failures')
  /\ elapsed' = 0
  /\ UNCHANGED <<timers, inFlightRec, reconciles, shutdown>>

Tick ==
  /\ cooldown > 0 \/ elapsed < MaxCooldown
  /\ cooldown' = IF cooldown > 0 THEN cooldown - 1 ELSE 0
  /\ elapsed' = Least(elapsed + 1, MaxCooldown)
  /\ UNCHANGED <<timers, inFlight, batches, inFlightRec, reconciles, failures, shutdown>>

-----------------------------------------------------------------------------
(* Reconciliation *)

ReconcileOnce ==
  /\ timers
  /\ ~inFlightRec
  /\ inFlightRec' = TRUE
  /\ reconciles' = reconciles + 1
  /\ UNCHANGED <<timers, inFlight, batches, failures, cooldown, elapsed, shutdown>>

\* Success and failure end alike: a failure is only logged.
ReconcileEnds ==
  /\ reconciles > 0
  /\ reconciles' = reconciles - 1
  /\ inFlightRec' = FALSE
  /\ UNCHANGED <<timers, inFlight, batches, failures, cooldown, elapsed, shutdown>>

-----------------------------------------------------------------------------
(* Shutdown *)

\* onApplicationShutdown, up to its await.
Shutdown ==
  /\ shutdown = "no"
  /\ shutdown' = "waiting"
  /\ timers' = FALSE
  /\ UNCHANGED <<inFlight, batches, inFlightRec, reconciles, failures, cooldown, elapsed>>

\* Promise.all resolves.
ShutdownDone ==
  /\ shutdown = "waiting"
  /\ ~inFlight
  /\ ~inFlightRec
  /\ shutdown' = "done"
  /\ UNCHANGED <<timers, inFlight, batches, inFlightRec, reconciles, failures,
                 cooldown, elapsed>>

Next ==
  \/ DispatchOnce \/ DispatchSucceeds \/ DispatchFails \/ Tick
  \/ ReconcileOnce \/ ReconcileEnds
  \/ Shutdown \/ ShutdownDone

Spec == Init /\ [][Next]_vars

-----------------------------------------------------------------------------
(* Properties *)

\* The state is well formed, and the two guards say what is really running: at
\* most one batch and one reconciliation at a time.
TypeOK ==
  /\ timers \in BOOLEAN
  /\ failures \in 0..MaxFailures
  /\ cooldown \in 0..MaxCooldown
  /\ elapsed \in 0..MaxCooldown
  /\ shutdown \in {"no", "waiting", "done"}
  /\ inFlight \in BOOLEAN /\ batches = IF inFlight THEN 1 ELSE 0
  /\ inFlightRec \in BOOLEAN /\ reconciles = IF inFlightRec THEN 1 ELSE 0

\* After the n-th failure in a row the next batch starts no sooner than the
\* cooldown for n, however the timer, the batches and reconciliations interleave.
BackoffIsKept ==
  [][batches' > batches /\ failures > 0 => elapsed >= calculateCooldown(failures)]_vars

\* When onApplicationShutdown has returned nothing runs and nothing starts again,
\* so the database connection can be closed.
QuietAfterShutdown ==
  shutdown = "done" => batches = 0 /\ reconciles = 0 /\ ~timers
=============================================================================
