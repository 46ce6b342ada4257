---------------------------- MODULE MCWebhookInbox ----------------------------
(* An instance of WebhookInbox for TLC. *)
EXTENDS WebhookInbox

\* Two events, two nonces, two bodies; one body also with a legacy spelling of
\* its hash or with none, and requests that fail one check or two.
MCIncoming ==
  LET sound == [eventId : EventIds, nonce : Nonces, defects : {{}},
                payload : {[body |-> "a", txHash |-> "canonical"],
                           [body |-> "a", txHash |-> "legacy"],
                           [body |-> "b", txHash |-> "null"]}]
      first == [eventId |-> "ev1", nonce |-> "n1",
                payload |-> [body |-> "a", txHash |-> "canonical"], defects |-> {}]
  IN sound \cup {[first EXCEPT !.defects = d] :
                   d \in {{"headers"}, {"secret", "dto"}, {"signature", "dto"}, {"dto"}}}

\* An empty inbox, or one with an event stored before hashes were normalized.
MCStoredBefore ==
  {{}, {[eventId |-> "ev1", nonce |-> "n1",
         payload |-> [body |-> "a", txHash |-> "legacy"]]}}
=============================================================================
