--------------------------- MODULE MCTokenBridge ---------------------------
(* Three federators, one of them misled; a token crosses from main to side  *)
(* and back, each time with two blocks that may hold the transaction.       *)
EXTENDS TokenBridge, TLC

CONSTANTS t, there, back, f1, f2, f3

MCHome == t :> "main"
MCDecimals == t :> 17
MCFederators == <<f1, f2, f3>>

Crossing(amount, origin, dest, tx) ==
    [tok: {t}, amount: {amount}, origin: {origin}, dest: {dest},
     block: Blocks, tx: {tx}, log: {1}]

MCEvents == Crossing(25, "main", "side", there) \cup Crossing(90, "side", "main", back)

Symmetry == Permutations(Blocks)
=============================================================================
