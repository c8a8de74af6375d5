---------------------------- MODULE MCFederator ----------------------------
(* A federator that watches a medium and a large transfer.                   *)
EXTENDS Federator, TLC

CONSTANTS minor, major

(* All tokens have 18 decimals. *)
MCAmount == minor :> 10 @@ major :> 100
MCUnit == [e \in Events |-> 1]

(* The token of the large transfer has 16 decimals. *)
MCAmountOf16 == minor :> 10 @@ major :> 1
MCUnitOf16 == minor :> 1 @@ major :> 100
=============================================================================
