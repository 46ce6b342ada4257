-------------------------- MODULE MCOutboxDispatcher --------------------------
(* Instances of OutboxDispatcher for TLC. *)
EXTENDS OutboxDispatcher, TLC

Symmetry == Permutations(Nodes)
=============================================================================
