------------------------------ MODULE MCBridge ------------------------------
(* Two bridged chains and one token with 17 decimals, which lives on "main" *)
(* and has a granularity of 10 on "side".                                   *)
EXTENDS Bridge, TLC

CONSTANTS t

MCHome == t :> "main"
MCDecimals == t :> 17

(* Crossing 25 from main and 95 back, with a fee of 0 or 9.99%. *)
Crossing(amounts, origin, dest, logs) ==
    [tok: {t}, amount: amounts, origin: {origin}, dest: {dest},
     block: Blocks, tx: TxHashes, log: logs]

MCEvents == Crossing({25, 23}, "main", "side", {1, 2})
            \cup Crossing({90, 80}, "side", "main", {1, 2})

(* Anybody changes the mark of the token on the side chain. *)
Marking == \E value \in BOOLEAN : SetKnownTokenByChain("side", "main", t, value)

MCSpec == Init /\ [][CalmNext \/ Marking]_bridgeVars

(* Three chains: side tokens of "side" go on to "third" and come home from  *)
(* there.  Every transaction has its direction.                             *)
CONSTANTS x1, x2, x3, x4

MCTour == {[e EXCEPT !.tx = x] : <<e, x>> \in
    Crossing({25}, "main", "side", {1}) \X {x1}
    \cup Crossing({90}, "side", "third", {1}) \X {x2}
    \cup Crossing({25}, "main", "third", {1}) \X {x3}
    \cup Crossing({85}, "third", "main", {1}) \X {x4}
    \cup Crossing({25}, "third", "side", {1}) \X {x4}}

(* On the tour the home chain is administered in every way, and marks       *)
(* change there and on the side chain.                                       *)
TourInit == Init /\ feePercentage = [c \in Chains |-> 0]

TourNext == CalmNext \/ Administer("main") \/ SetKnownToken("main") \/ Marking

TourSpec == TourInit /\ [][TourNext]_bridgeVars

Symmetry == Permutations(TxHashes) \cup Permutations(Blocks)
=============================================================================
