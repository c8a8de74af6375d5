------------------------- MODULE MCFederatorService -------------------------
(* The process with NFTs, or without. *)
EXTENDS FederatorService
=============================================================================
