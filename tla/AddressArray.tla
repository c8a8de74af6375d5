---------------------------- MODULE AddressArray ----------------------------
(***************************************************************************)
(* Arrays of addresses without duplicates, kept beside a mapping of the    *)
(* same addresses, as the members of Federation.sol and the owners of      *)
(* MultiSigWallet.sol are.                                                 *)
(***************************************************************************)
EXTENDS Integers, Sequences, FiniteSets, Functions

(* Mutant: the loop stops one element early. *)
SwapTooFew(s, a) ==
    [i \in 1..(Len(s) - 1) |-> IF s[i] = a /\ i < Len(s) - 1 THEN s[Len(s)] ELSE s[i]]

(* The array without a: its last element takes the place of the first a.    *)
SwapAndPop(s, a) ==
    [i \in 1..(Len(s) - 1) |->
        IF s[i] = a /\ \A j \in 1..(i - 1) : s[j] # a THEN s[Len(s)] ELSE s[i]]
=============================================================================
