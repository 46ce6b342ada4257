------------------------------ MODULE MCApiPool ------------------------------
(***************************************************************************)
(* ApiPool for TLC: a pool of two and four requests, so that the pool can  *)
(* be full of transactions blocked on one entry while others wait in line. *)
(***************************************************************************)
EXTENDS ApiPool

CONSTANTS k1, k2

\* Creations and webhooks with one entry, a webhook with two, and reads.
MCIncoming ==
  {[kind |-> "transaction", entries |-> e] : e \in {{k1}, {k2}, {k1, k2}}}
    \cup {[kind |-> "read", entries |-> {}]}

=============================================================================
