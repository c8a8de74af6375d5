---------------------------- MODULE MCFederation ----------------------------
(* The Federation contract of one chain, with small sets for TLC. *)
EXTENDS Federation, TLC

CONSTANTS event,       \* a transfer accepted under its true chain ids
          misread,     \* the same event reported with other chain ids
          legacy       \* the id both had under contract v3

MCLegacyOf(tx) == legacy

Symmetry == Permutations(Addresses) \cup Permutations(Txs)
=============================================================================
