----------------------------- MODULE LogThrottle -----------------------------
(***************************************************************************)
(* LogThrottle and the outage bookkeeping around it: 'error' events of one *)
(* Redis outage are collapsed into one line per error code and interval,   *)
(* and the recovery line reports what was suppressed.  The BullMQ worker   *)
(* and the queue holder use it in the same way (the holder's flag is       *)
(* poisonedSinceLastPublish, and a successful publish is its "ready").     *)
(*                                                                         *)
(* The throttle reads Date.now, which an operator or NTP may set back or   *)
(* forward at any time.                                                    *)
(***************************************************************************)
EXTENDS Integers

CONSTANTS
  Keys,      \* error codes
  Interval,  \* intervalMs
  MaxTime,   \* bound on the time that passes
  MaxSteps,  \* bound on the times the clock is set
  MaxErrors  \* bound on the errors per code

ThrottleAssumption ==
  /\ Interval \in Nat
  /\ MaxTime \in Nat /\ MaxSteps \in Nat /\ MaxErrors \in Nat

Never == -1

VARIABLES
  lastEmittedAt,     \* Never: the key is not in the map
  suppressedCounts,
  degraded,          \* errors since the last recovery
  clock,             \* Date.now
  time,              \* time that has really passed
  steps,             \* times the clock was set
  seen,              \* history: errors per code
  lines,             \* history: lines per code
  reported,          \* history: repeats reported as suppressedCount per code
  failing,           \* history: codes with an error since the last recovery
  announced,         \* history: codes with a line since the last recovery
  lineTime,          \* history: time of the last line per code
  shift              \* history: what the clock was set forward since that line
                     \* (negative: set back)

throttleVars == <<lastEmittedAt, suppressedCounts, degraded>>
historyVars == <<seen, lines, reported, failing, announced, lineTime, shift>>

vars == <<throttleVars, clock, time, steps, historyVars>>

Init ==
  /\ lastEmittedAt = [k \in Keys |-> Never]
  /\ suppressedCounts = [k \in Keys |-> 0]
  /\ degraded = FALSE
  /\ clock = MaxTime
  /\ time = 0
  /\ steps = 0
  /\ seen = [k \in Keys |-> 0]
  /\ lines = [k \in Keys |-> 0]
  /\ reported = [k \in Keys |-> 0]
  /\ failing = {}
  /\ announced = {}
  /\ lineTime = [k \in Keys |-> 0]
  /\ shift = [k \in Keys |-> 0]

\* The condition of shouldEmit.
Suppress(k) == lastEmittedAt[k] # Never /\ clock - lastEmittedAt[k] < Interval

\* The handler logs a line with the count of shouldEmit.
EmitLine(k) ==
  /\ lastEmittedAt' = [lastEmittedAt EXCEPT ![k] = clock]
  /\ suppressedCounts' = [suppressedCounts EXCEPT ![k] = 0]
  /\ lines' = [lines EXCEPT ![k] = @ + 1]
  /\ reported' = [reported EXCEPT ![k] = @ + suppressedCounts[k]]
  /\ announced' = announced \cup {k}
  /\ lineTime' = [lineTime EXCEPT ![k] = time]
  /\ shift' = [shift EXCEPT ![k] = 0]

CountRepeat(k) ==
  /\ suppressedCounts' = [suppressedCounts EXCEPT ![k] = @ + 1]
  /\ UNCHANGED <<lastEmittedAt, lines, reported, announced, lineTime, shift>>

\* handleWorkerError and markPoisoned.
HandleError(k) ==
  /\ seen[k] < MaxErrors
  /\ degraded' = TRUE
  /\ IF Suppress(k) THEN CountRepeat(k) ELSE EmitLine(k)
  /\ seen' = [seen EXCEPT ![k] = @ + 1]
  /\ failing' = failing \cup {k}
  /\ UNCHANGED <<clock, time, steps>>

\* reset: forgets every key; the caller reports the sum of the counts.
Reset ==
  /\ lastEmittedAt' = [k \in Keys |-> Never]
  /\ suppressedCounts' = [k \in Keys |-> 0]

\* handleWorkerReady and markPublishSucceeded: nothing without an outage.
HandleReady ==
  /\ degraded
  /\ degraded' = FALSE
  /\ Reset
  /\ reported' = [k \in Keys |-> reported[k] + suppressedCounts[k]]
  /\ failing' = {}
  /\ announced' = {}
  /\ UNCHANGED <<clock, time, steps, seen, lines, lineTime, shift>>

TimePasses ==
  /\ time < MaxTime
  /\ time' = time + 1
  /\ clock' = clock + 1
  /\ UNCHANGED <<throttleVars, steps, historyVars>>

\* The clock is set back or forward.
ClockSet ==
  /\ steps < MaxSteps
  /\ steps' = steps + 1
  /\ \E d \in (-MaxTime)..MaxTime :
       /\ clock + d >= 0
       /\ clock' = clock + d
       /\ shift' = [k \in Keys |-> shift[k] + d]
  /\ UNCHANGED <<throttleVars, time, seen, lines, reported, failing, announced, lineTime>>

Next ==
  \/ \E k \in Keys : HandleError(k)
  \/ HandleReady \/ TimePasses \/ ClockSet

Spec == Init /\ [][Next]_vars

-----------------------------------------------------------------------------
(* Properties *)

\* The state is well formed: every counter has a value, also after a reset.
TypeOK ==
  /\ lastEmittedAt \in [Keys -> Nat \cup {Never}]
  /\ suppressedCounts \in [Keys -> Nat]
  /\ degraded \in BOOLEAN
  /\ clock \in Nat
  /\ time \in 0..MaxTime
  /\ steps \in 0..MaxSteps
  /\ seen \in [Keys -> 0..MaxErrors]
  /\ lines \in [Keys -> Nat]
  /\ reported \in [Keys -> Nat]
  /\ failing \in SUBSET Keys
  /\ announced \in SUBSET Keys
  /\ lineTime \in [Keys -> 0..MaxTime]
  /\ shift \in [Keys -> Int]

\* No error goes uncounted: over any number of outages and recoveries every one
\* has its own line, was reported in a suppressedCount, or still waits in the
\* counters; between outages nothing waits.
EveryErrorAccounted ==
  \A k \in Keys :
    /\ seen[k] = lines[k] + reported[k] + suppressedCounts[k]
    /\ ~degraded => suppressedCounts[k] = 0

\* "The first occurrence of a key is always emitted", in every outage anew: an
\* error code seen since the last recovery line has its own line, so there is
\* never a recovery line without the line of what it recovers from.
FirstIsEmitted ==
  /\ announced = failing
  /\ degraded <=> failing # {}

\* Time that has really passed since the last line of a code, as the clock shows
\* it after all that was done to it since.
SinceLine(k) == time - lineTime[k] + shift[k]

\* What the throttle can rely on: a key is in the map exactly when it has a line
\* since the last reset, and then the clock has moved on since that line by the
\* time that has passed and by what it was set.
ClockFollowsTime ==
  \A k \in Keys :
    /\ k \in announced <=> lastEmittedAt[k] # Never
    /\ k \in announced => clock - lastEmittedAt[k] = SinceLine(k)

\* "One emission per key per interval", counted in time that has really passed:
\* a repeated error gets a line exactly when the interval since the last line is
\* over.  The interval is cut short only by what the clock was set forward since
\* then, and drawn out only by what it was set back.
OnePerInterval ==
  [][\A k \in Keys :
       seen'[k] > seen[k] /\ k \in announced
         => (lines'[k] > lines[k] <=> SinceLine(k) >= Interval)]_vars
=============================================================================
