--------------------------- MODULE MCFederatorNFT ---------------------------
(* The federator of NFTs on the testnet of RSK. *)
EXTENDS FederatorNFT

CONSTANTS first, second
=============================================================================
