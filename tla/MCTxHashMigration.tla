-------------------------- MODULE MCTxHashMigration --------------------------
(* Instance of TxHashMigration for TLC. *)
EXTENDS TxHashMigration

\* One hash in three spellings, and one in a spelling that is canonical.
MCSpellings == {"0xab", "0xAB", " 0xAb", "base58"}

MCCanonical == [s \in MCSpellings |-> IF s = "base58" THEN s ELSE "0xab"]
=============================================================================
