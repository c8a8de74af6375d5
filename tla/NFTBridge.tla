------------------------------ MODULE NFTBridge ------------------------------
(***************************************************************************)
(* The NFTBridge contracts (bridge/contracts/nftbridge/NFTBridge.sol) of   *)
(* two chains.  A user crosses an NFT: the bridge of its chain keeps it,   *)
(* or burns it if it is a side token, and logs a Cross event.  The         *)
(* federation of the other chain calls acceptTransfer there and somebody   *)
(* claims the token, which is handed out or minted.                        *)
(*                                                                         *)
(* Neither the Cross event nor the data hash names a chain: there are two  *)
(* chains, and addresses of tokens differ between them.  The federations   *)
(* are ideal, as in module Bridge.  The users of a chain are not told      *)
(* apart.                                                                  *)
(***************************************************************************)
EXTENDS Integers, FiniteSets

CONSTANTS
    Chains,       \* the two chains
    Tokens,       \* original ERC721 contracts
    Nfts,         \* tokens of these contracts
    Contract,     \* Contract[nft]
    Home,         \* Home[tok]: the chain of the original contract
    TxHashes,     \* hashes of user transactions
    Blocks,       \* hashes of the blocks that may hold a transaction
    MaxLogs,      \* Cross events in a transaction (bounds the model)
    Values,       \* ether sent with receiveTokensTo
    FixedFees,    \* values of fixedFee the owner sets
    NoTransfer    \* an empty slot of transactionDataHashes

Events == [nft: Nfts, origin: Chains, block: Blocks, tx: TxHashes, log: 1..MaxLogs]

ASSUME NFTBridgeConstants ==
    /\ \E c, d \in Chains : c # d /\ Chains = {c, d}
    /\ Contract \in [Nfts -> Tokens]
    /\ Home \in [Tokens -> Chains]
    /\ Values \subseteq Nat
    /\ FixedFees \subseteq Nat
    /\ MaxLogs \in Nat
    /\ NoTransfer \notin Events

Original(tok) == [kind |-> "original", tok |-> tok]
SideToken(tok) == [kind |-> "side", tok |-> tok]
Addresses == [kind: {"original", "side"}, tok: Tokens]

VARIABLES
    paused,       \* paused[c]
    isUpgrading,  \* isUpgrading[c]
    fixedFee,     \* fixedFee[c]
    crossed,      \* crossed[c]: addresses with isAddressFromCrossedOriginalToken
    sideTokens,   \* sideTokens[c]: originals that have a side token on c
    accepted,     \* accepted[c][tx]: the accepted transfer, or NoTransfer
    claimed,      \* claimed[c]: data hashes of claimed transfers
    events,       \* events[c]: the Cross events on chain c
    withUsers,    \* the originals users hold; the bridge of their home has the others
    minted,       \* minted[c]: the NFTs that exist as side tokens on c
    ether         \* ether[c]: the ether the bridge of c holds

adminVars == <<paused, isUpgrading, fixedFee>>
nftVars   == <<paused, isUpgrading, fixedFee, crossed, sideTokens, accepted,
               claimed, events, withUsers, minted, ether>>

Init ==
    /\ paused = [c \in Chains |-> FALSE]
    /\ isUpgrading = [c \in Chains |-> FALSE]
    /\ fixedFee \in [Chains -> FixedFees]
    /\ crossed = [c \in Chains |-> {}]
    /\ sideTokens = [c \in Chains |-> {}]
    /\ accepted = [c \in Chains |-> [tx \in TxHashes |-> NoTransfer]]
    /\ claimed = [c \in Chains |-> {}]
    /\ events = [c \in Chains |-> {}]
    /\ withUsers = Nfts
    /\ minted = [c \in Chains |-> {}]
    /\ ether = [c \in Chains |-> 0]

-----------------------------------------------------------------------------
(* getTransactionDataHash: the hashed fields, without the chains. *)
DataHash(e) == [nft |-> e.nft, block |-> e.block, tx |-> e.tx, log |-> e.log]

AllEvents == UNION {events[c] : c \in Chains}

(* The events of a transaction appear together, in one block. *)
LogsEvent(nft, c, tx, block) ==
    LET sameTx == {f \in AllEvents : f.tx = tx}
        log    == Cardinality(sameTx) + 1
    IN  /\ log <= MaxLogs
        /\ \A f \in sameTx : f.origin = c /\ f.block = block
        /\ \A d \in Chains : accepted[d][tx] = NoTransfer
        /\ events' = [events EXCEPT ![c] = @ \cup
              {[nft |-> nft, origin |-> c, block |-> block, tx |-> tx, log |-> log]}]

(* Mutant: the side token that crosses back is kept, not burned. *)
BurnNothing(nft, c) ==
    /\ nft \in minted[c]
    /\ crossed' = [crossed EXCEPT ![c] = @ \cup {SideToken(Contract[nft])}]
    /\ UNCHANGED <<withUsers, minted>>

(* crossTokens: an original stays with the bridge, a side token is burned.  *)
(* Both addresses are marked.                                               *)
LeaveHome(nft, c) ==
    /\ Home[Contract[nft]] = c
    /\ nft \in withUsers
    /\ withUsers' = withUsers \ {nft}
    /\ crossed' = [crossed EXCEPT ![c] = @ \cup {Original(Contract[nft])}]
    /\ UNCHANGED minted

Burn(nft, c) ==
    /\ nft \in minted[c]
    /\ minted' = [minted EXCEPT ![c] = @ \ {nft}]
    /\ crossed' = [crossed EXCEPT ![c] = @ \cup {SideToken(Contract[nft])}]
    /\ UNCHANGED withUsers

(* Mutant: the fee is forwarded whatever was sent. *)
PayFeeUnchecked(c, value) == ether' = [ether EXCEPT ![c] = @ + value - fixedFee[c]]

(* The fee goes to the federation and the rest back to the sender; without  *)
(* a fee the function returns before the refund.                            *)
PayFee(c, value) ==
    /\ value >= fixedFee[c]
    /\ ether' = [ether EXCEPT ![c] = IF fixedFee[c] = 0 THEN @ + value ELSE @]

ReceiveTokensTo(c, nft, value, tx, block) ==
    /\ ~isUpgrading[c]
    /\ ~paused[c]
    /\ LeaveHome(nft, c) \/ Burn(nft, c)
    /\ LogsEvent(nft, c, tx, block)
    /\ PayFee(c, value)
    /\ UNCHANGED <<adminVars, sideTokens, accepted, claimed>>

(* Mutant: the slot of the transaction may be taken. *)
CanAcceptAgain(c, e) ==
    /\ ~paused[c]
    /\ Original(Contract[e.nft]) \in crossed[c] \/ Contract[e.nft] \in sideTokens[c]
    /\ DataHash(e) \notin claimed[c]

CanAccept(c, e) ==
    /\ ~paused[c]
    /\ Original(Contract[e.nft]) \in crossed[c] \/ Contract[e.nft] \in sideTokens[c]
    /\ accepted[c][e.tx] = NoTransfer
    /\ DataHash(e) \notin claimed[c]

AcceptTransfer(c, e) ==
    /\ CanAccept(c, e)
    /\ accepted' = [accepted EXCEPT ![c][e.tx] = e]
    /\ UNCHANGED <<adminVars, crossed, sideTokens, claimed, events, withUsers,
                   minted, ether>>

(* Mutant: claimed transfers are not told from the others. *)
CanClaimAgain(c, tx) == accepted[c][tx] # NoTransfer

CanClaim(c, tx) ==
    /\ accepted[c][tx] # NoTransfer
    /\ DataHash(accepted[c][tx]) \notin claimed[c]

(* The bridge hands out what it keeps of a contract that crossed from here. *)
HandOut(nft, c) ==
    /\ Original(Contract[nft]) \in crossed[c]
    /\ Home[Contract[nft]] = c /\ nft \notin withUsers
    /\ withUsers' = withUsers \cup {nft}
    /\ UNCHANGED minted

(* Otherwise it mints; minting what exists reverts. *)
Mint(nft, c) ==
    /\ Original(Contract[nft]) \notin crossed[c]
    /\ Contract[nft] \in sideTokens[c]
    /\ nft \notin minted[c]
    /\ minted' = [minted EXCEPT ![c] = @ \cup {nft}]
    /\ UNCHANGED withUsers

(* claim and claimFallback, which differ in the receiver. *)
Claim(c, tx) ==
    LET e == accepted[c][tx]
    IN  /\ CanClaim(c, tx)
        /\ claimed' = [claimed EXCEPT ![c] = @ \cup {DataHash(e)}]
        /\ HandOut(e.nft, c) \/ Mint(e.nft, c)
        /\ UNCHANGED <<adminVars, crossed, sideTokens, accepted, events, ether>>

-----------------------------------------------------------------------------
(* Administration *)

CreateSideNFTToken(c, tok) ==
    /\ tok \notin sideTokens[c]
    /\ sideTokens' = [sideTokens EXCEPT ![c] = @ \cup {tok}]
    /\ UNCHANGED <<adminVars, crossed, accepted, claimed, events, withUsers, minted, ether>>

SetPaused(c) ==
    /\ paused' = [paused EXCEPT ![c] = ~@]
    /\ UNCHANGED <<isUpgrading, fixedFee, crossed, sideTokens, accepted, claimed,
                   events, withUsers, minted, ether>>

SetUpgrading(c) ==
    /\ isUpgrading' = [isUpgrading EXCEPT ![c] = ~@]
    /\ UNCHANGED <<paused, fixedFee, crossed, sideTokens, accepted, claimed,
                   events, withUsers, minted, ether>>

SetFixedFee(c, fee) ==
    /\ fixedFee' = [fixedFee EXCEPT ![c] = fee]
    /\ UNCHANGED <<paused, isUpgrading, crossed, sideTokens, accepted, claimed,
                   events, withUsers, minted, ether>>

(* The chain moves a transaction to another block. *)
Reorganise(c, tx, block) ==
    /\ \E e \in events[c] : e.tx = tx /\ e.block # block
    /\ events' = [events EXCEPT ![c] =
                     {IF e.tx = tx THEN [e EXCEPT !.block = block] ELSE e : e \in @}]
    /\ UNCHANGED <<adminVars, crossed, sideTokens, accepted, claimed, withUsers,
                   minted, ether>>

-----------------------------------------------------------------------------
Cross(c) ==
    \E nft \in Nfts, value \in Values, tx \in TxHashes, block \in Blocks :
        ReceiveTokensTo(c, nft, value, tx, block)

(* What the other chain logged, under its present or an earlier block. *)
Relay(c) ==
    \E d \in Chains \ {c}, block \in Blocks :
        \E e \in events[d] : AcceptTransfer(c, [e EXCEPT !.block = block])

(* The owner represents only tokens of the other chain. *)
NewSideToken(c) == \E tok \in {t \in Tokens : Home[t] # c} : CreateSideNFTToken(c, tok)

Administer(c) ==
    \/ SetPaused(c)
    \/ SetUpgrading(c)
    \/ \E fee \in FixedFees : SetFixedFee(c, fee)

Next ==
    \E c \in Chains :
        \/ Cross(c)
        \/ Relay(c)
        \/ NewSideToken(c)
        \/ Administer(c)
        \/ \E tx \in TxHashes : Claim(c, tx)
        \/ \E tx \in TxHashes, block \in Blocks : Reorganise(c, tx, block)

Spec == Init /\ [][Next]_nftVars

-----------------------------------------------------------------------------
TypeOK ==
    /\ paused \in [Chains -> BOOLEAN]
    /\ isUpgrading \in [Chains -> BOOLEAN]
    /\ fixedFee \in [Chains -> FixedFees]
    /\ crossed \in [Chains -> SUBSET Addresses]
    /\ sideTokens \in [Chains -> SUBSET Tokens]
    /\ accepted \in [Chains -> [TxHashes -> Events \cup {NoTransfer}]]
    /\ claimed \in [Chains -> SUBSET {DataHash(e) : e \in Events}]
    /\ events \in [Chains -> SUBSET Events]
    /\ withUsers \in SUBSET Nfts
    /\ minted \in [Chains -> SUBSET Nfts]
    /\ ether \in [Chains -> Nat]

(* A crossing is known by its transaction and its place in it. *)
SameCrossing(e, h) == e.tx = h.tx /\ e.log = h.log

IsClaimed(e) == \E c \in Chains : \E h \in claimed[c] : SameCrossing(e, h)

InFlight(nft) == {e \in AllEvents : e.nft = nft /\ ~IsClaimed(e)}

MintedOn(nft) == {c \in Chains : nft \in minted[c]}

(* Every NFT exists once: with a user at home, as a side token, or in a     *)
(* crossing nobody claimed yet, through any number of crossings back and    *)
(* forth, repeated reports, reorganised blocks and pauses.                  *)
OneHolder ==
    \A nft \in Nfts :
        Cardinality(InFlight(nft)) + Cardinality(MintedOn(nft))
            + (IF nft \in withUsers THEN 1 ELSE 0) = 1

(* Whoever claims a crossing may do so: what it needs is there.  Nothing    *)
(* that happens on the two chains makes an accepted transfer unclaimable.   *)
AcceptedCanBeClaimed ==
    \A c \in Chains, tx \in TxHashes :
        CanClaim(c, tx) =>
            LET nft == accepted[c][tx].nft
            IN  IF Original(Contract[nft]) \in crossed[c]
                THEN Home[Contract[nft]] = c /\ nft \notin withUsers
                ELSE Contract[nft] \in sideTokens[c] /\ nft \notin minted[c]

-----------------------------------------------------------------------------
(* The bridges implement the travels of NFTTravel. *)
Other(c) == CHOOSE d \in Chains : d # c

PlaceOf(nft) ==
    IF nft \in withUsers THEN [chain |-> Home[Contract[nft]], arrived |-> TRUE]
    ELSE IF MintedOn(nft) # {}
    THEN [chain |-> CHOOSE c \in MintedOn(nft) : TRUE, arrived |-> TRUE]
    ELSE [chain |-> Other((CHOOSE e \in InFlight(nft) : TRUE).origin), arrived |-> FALSE]

Travel == INSTANCE NFTTravel
              WITH Home <- [nft \in Nfts |-> Home[Contract[nft]]],
                   place <- [nft \in Nfts |-> PlaceOf(nft)]

(* The refinement: a token leaves the chain it is on and arrives at the     *)
(* other one, once.                                                         *)
ImplementsNFTTravel == Travel!Spec
=============================================================================
