-------------------------- MODULE MCMultiSigWallet --------------------------
(* Constants of MultiSigWallet for TLC. *)
EXTENDS MultiSigWallet, TLC

Symmetry == Permutations(Addresses)

AllCalls == Calls
=============================================================================
