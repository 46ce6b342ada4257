---------------------------- MODULE PaymentLedger ----------------------------
(***************************************************************************)
(* What the worker promises, with no workers, locks or transactions: every *)
(* open webhook event is decided once, in one step, by the rules applied   *)
(* to the committed tables of that very moment.                            *)
(*                                                                         *)
(* The one decision that may rest on an older state is                     *)
(* UNKNOWN_PAYMENT_INTENT: a row that does not exist cannot be locked, so  *)
(* the intent may be created between the lookup and the commit.  missing   *)
(* holds the events whose lookup has found no intent.                      *)
(***************************************************************************)
EXTENDS PaymentData

VARIABLES events, payloads, intents, missing

vars == <<events, payloads, intents, missing>>

Init ==
  /\ payloads \in [Events -> Payloads]
  /\ events \in [Events -> InitialEvents]
  /\ intents \in {t \in [Intents -> InitialIntents] : MigratedHashes(t)}
  /\ missing = {}

IntentOf(e) == payloads[e].paymentIntentId

HashOf(e) == normalizeTxHash(payloads[e].txHash)

\* The payload is complete and names an existing intent.
Applicable(e) ==
  /\ PayloadFailure(payloads[e]) = "null"
  /\ IntentOf(e) \in Intents
  /\ intents[IntentOf(e)].status # "ABSENT"

Verdict(e) == IntentVerdict(payloads[e], IntentOf(e), intents[IntentOf(e)])

OtherHolders(e) == HoldersIn(intents, HashOf(e)) \ {IntentOf(e)}

\* The decision of an open event; a pending lookup result is consumed or moot.
Decide(e, row) ==
  /\ Open(events[e])
  /\ events' = [events EXCEPT ![e] = row]
  /\ missing' = missing \ {e}
  /\ UNCHANGED payloads

RejectPayload(e) ==
  /\ PayloadFailure(payloads[e]) # "null"
  /\ Decide(e, Failed(PayloadFailure(payloads[e])))
  /\ UNCHANGED intents

LookUpMissing(e) ==
  /\ Open(events[e])
  /\ PayloadFailure(payloads[e]) = "null"
  /\ ~Applicable(e)
  /\ missing' = missing \cup {e}
  /\ UNCHANGED <<events, payloads, intents>>

ForgetMissing(e) ==
  /\ e \in missing
  /\ missing' = missing \ {e}
  /\ UNCHANGED <<events, payloads, intents>>

RejectUnknown(e) ==
  /\ e \in missing
  /\ Decide(e, Failed("UNKNOWN_PAYMENT_INTENT"))
  /\ UNCHANGED intents

\* The named intent alone decides: wrong terms, already paid, or closed.
Settle(e) ==
  /\ Applicable(e)
  /\ Verdict(e) # Undecided
  /\ Decide(e, Verdict(e))
  /\ UNCHANGED intents

RejectReusedHash(e) ==
  /\ Applicable(e)
  /\ Verdict(e) = Undecided
  /\ OtherHolders(e) # {}
  /\ Decide(e, Failed("CONFIRMED_TX_HASH_CONFLICT"))
  /\ UNCHANGED intents

Confirm(e) ==
  /\ Applicable(e)
  /\ Verdict(e) = Undecided
  /\ OtherHolders(e) = {}
  /\ Decide(e, Processed)
  /\ intents' = [intents EXCEPT ![IntentOf(e)] =
                  [status |-> "CONFIRMED", confirmedTxHash |-> HashOf(e)]]

Queue(e) ==
  /\ events[e].status = "RECEIVED"
  /\ events' = [events EXCEPT ![e].status = "QUEUED"]
  /\ UNCHANGED <<payloads, intents, missing>>

Create(p) ==
  /\ intents[p].status = "ABSENT"
  /\ intents' = [intents EXCEPT ![p].status = "CREATED"]
  /\ UNCHANGED <<events, payloads, missing>>

Next ==
  \/ \E e \in Events :
       \/ RejectPayload(e) \/ LookUpMissing(e) \/ ForgetMissing(e)
       \/ RejectUnknown(e) \/ Settle(e) \/ RejectReusedHash(e)
       \/ Confirm(e) \/ Queue(e)
  \/ \E p \in Intents : Create(p)

Spec == Init /\ [][Next]_vars
=============================================================================
