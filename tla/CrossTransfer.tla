---------------------------- MODULE CrossTransfer ----------------------------
(***************************************************************************)
(* What the token bridge promises about one crossing: it is sent to one    *)
(* other chain, accepted there once, and claimed there once.               *)
(***************************************************************************)
CONSTANTS
    Crossings,    \* every call of crossTokens that may happen
    Chains

VARIABLE stage    \* stage[x]: where crossing x stands and on which chain

Stage(at, c) == [at |-> at, chains |-> {c}]

Init == stage = [x \in Crossings |-> [at |-> "none", chains |-> {}]]

Send(x, c) ==
    /\ stage[x].at = "none"
    /\ stage' = [stage EXCEPT ![x] = Stage("sent", c)]

Accept(x, c) ==
    /\ stage[x] = Stage("sent", c)
    /\ stage' = [stage EXCEPT ![x] = Stage("accepted", c)]

Claim(x, c) ==
    /\ stage[x] = Stage("accepted", c)
    /\ stage' = [stage EXCEPT ![x] = Stage("claimed", c)]

Next == \E x \in Crossings, c \in Chains :
            Send(x, c) \/ Accept(x, c) \/ Claim(x, c)

Spec == Init /\ [][Next]_stage
=============================================================================
