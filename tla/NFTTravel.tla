------------------------------ MODULE NFTTravel ------------------------------
(***************************************************************************)
(* What the NFT bridges promise: every token is in one place.  It is with  *)
(* a user of one of the two chains, as the original or as its side token,  *)
(* or on its way to the other chain.                                       *)
(***************************************************************************)
CONSTANTS
    Nfts,
    Chains,      \* two chains
    Home         \* Home[nft]: the chain of the original

VARIABLE place   \* place[nft]: the chain it is on or goes to, and whether it is there

There(c) == [chain |-> c, arrived |-> TRUE]
OnTheWay(c) == [chain |-> c, arrived |-> FALSE]

Init == place = [nft \in Nfts |-> There(Home[nft])]

Depart(nft, c, dest) ==
    /\ place[nft] = There(c)
    /\ dest # c
    /\ place' = [place EXCEPT ![nft] = OnTheWay(dest)]

Arrive(nft, c) ==
    /\ place[nft] = OnTheWay(c)
    /\ place' = [place EXCEPT ![nft] = There(c)]

Next == \E nft \in Nfts, c \in Chains :
            Arrive(nft, c) \/ \E dest \in Chains : Depart(nft, c, dest)

Spec == Init /\ [][Next]_place
=============================================================================
