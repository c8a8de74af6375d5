------------------------------ MODULE GasPrice ------------------------------
(***************************************************************************)
(* The price and the limit that TransactionSender gives a transaction.  On *)
(* RSK the last block names the least price.  Elsewhere the node names a   *)
(* price, and on the main net of Ethereum Etherscan names two more: one to *)
(* propose and a fast one.  The code computes in floating point; here the  *)
(* products are exact and rounded as there.                                *)
(***************************************************************************)
EXTENDS Integers

CONSTANT Gwei     \* in the unit of the prices

ASSUME GasPriceConstants == Gwei \in Nat \ {0}

ETH_MAIN_NET_CHAIN_ID == 1
IsRsk(chain) == chain \in {30, 31}

GetRskGasPrice(minimum) == IF minimum <= 1 THEN 1 ELSE (103 * minimum + 50) \div 100

(* One and a half of the node's price. *)
UseGasPrice(node) == IF node <= 1 THEN 1 ELSE (3 * node + 1) \div 2

(* A margin of 1.3 %. *)
Plus(fast) == (1013 * fast + 999) \div 1000

FastIsBest(node, fast) == fast >= node /\ UseGasPrice(node) >= fast

(* The proposed price would leave useGasPrice stuck, and is not way high. *)
ProposedIsNeeded(node, propose) ==
    /\ propose >= node /\ propose >= UseGasPrice(node)
    /\ propose < 5 * UseGasPrice(node)

(* A node that was restarted names too low a price. *)
NodeIsLow(node) == UseGasPrice(node) <= 25 * Gwei

GetEthGasPrice(chain, node, propose, fast) ==
    IF chain # ETH_MAIN_NET_CHAIN_ID THEN UseGasPrice(node)
    ELSE IF FastIsBest(node, fast) \/ NodeIsLow(node) THEN Plus(fast)
    ELSE IF ~ProposedIsNeeded(node, propose) THEN UseGasPrice(node)
    ELSE IF fast < 5 * UseGasPrice(node) THEN Plus(fast)
    ELSE propose + 5 * Gwei

GetGasPrice(chain, node, propose, fast) ==
    IF IsRsk(chain) THEN GetRskGasPrice(node)
                    ELSE GetEthGasPrice(chain, node, propose, fast)

ESTIMATED_GAS == 250000

(* createRawTransaction adds the limit, which has a least value. *)
GetGasLimit(estimated) == IF estimated < ESTIMATED_GAS THEN ESTIMATED_GAS ELSE estimated

=============================================================================
