----------------------------- MODULE MCNFTBridge -----------------------------
(* Two chains, "main" and "side", and an ERC721 contract on "main". *)
EXTENDS NFTBridge, TLC

CONSTANTS tok

MCContract == [nft \in Nfts |-> tok]
MCHome == tok :> "main"

Symmetry == Permutations(TxHashes) \cup Permutations(Blocks) \cup Permutations(Nfts)
=============================================================================
