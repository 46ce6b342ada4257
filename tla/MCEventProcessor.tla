--------------------------- MODULE MCEventProcessor ---------------------------
(* Instances of EventProcessor for TLC. *)
EXTENDS EventProcessor, TLC

CONSTANTS p1, p2, h1, h2

Spelled(id, spelling) == [id |-> id, spelling |-> spelling]

\* Both intents cost 1, stored by numeric(36, 18) with 18 fraction digits.
MCTerms == [p \in Intents |-> [amount |-> [value |-> 1, scale |-> 18], asset |-> "USDC"]]

\* A well formed payload; "1.00" is the amount the terms store with 18 digits.
Confirmation(p, hash) ==
  [type |-> "transaction.confirmed", paymentIntentId |-> p, txHash |-> hash,
   amount |-> [value |-> 1, scale |-> 2], asset |-> "USDC"]

\* Two intents, two hashes, one of them also in a legacy spelling.
RacePayloads ==
  {Confirmation(p1, Spelled(h1, "canonical")),
   Confirmation(p2, Spelled(h1, "legacy")),
   Confirmation(p1, Spelled(h2, "canonical")),
   Confirmation(p2, Spelled(h2, "canonical"))}

\* Every way a payload can be rejected, and one that pays.
RulePayloads ==
  LET good == Confirmation(p1, Spelled(h1, "legacy")) IN
  {good,
   Confirmation(p2, Spelled(h1, "canonical")),
   [good EXCEPT !.type = "other"],
   [good EXCEPT !.txHash = NoTxHash],
   [good EXCEPT !.paymentIntentId = NoIntent],
   [good EXCEPT !.amount.value = 2],
   [good EXCEPT !.asset = "ETH"]}

Row(status, hash) == [status |-> status, confirmedTxHash |-> hash]

RaceIntents ==
  {Row("CREATED", NoTxHash), Row("CONFIRMED", Spelled(h1, "canonical")),
   Row("CONFIRMED", Spelled(h2, "canonical"))}

\* PROCESSING and FAILED are left out: no code writes them, and processJob
\* treats them like CREATED and EXPIRED.
RuleIntents ==
  {Row(s, NoTxHash) : s \in {"ABSENT", "CREATED", "EXPIRED"}}
    \cup {Row("CONFIRMED", Spelled(h1, s)) : s \in {"canonical", "legacy"}}

Symmetry == Permutations(Events) \cup Permutations(Workers)
=============================================================================
