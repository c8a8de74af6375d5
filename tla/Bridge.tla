------------------------------- MODULE Bridge -------------------------------
(***************************************************************************)
(* The Bridge contracts (bridge/contracts/Bridge/Bridge.sol) of all chains.*)
(* A user crosses a token: the bridge of its chain keeps the tokens (or    *)
(* burns them, if they are a side token) and logs a Cross event.  The      *)
(* federation of the other chain calls acceptTransfer there, and anybody   *)
(* then claims the transfer, which releases the kept tokens or mints side  *)
(* tokens.                                                                 *)
(*                                                                         *)
(* The federations are ideal here: they report exactly the events that are *)
(* on the other chain, in any order, as often as they like and to every    *)
(* other chain.  Module TokenBridge replaces them by federators that vote. *)
(* The holders of a token are not told apart: of a token only what a       *)
(* bridge keeps and what circulates is recorded.                           *)
(***************************************************************************)
EXTENDS Integers, FiniteSets, Functions

CONSTANTS
    Chains,       \* chain ids
    Tokens,       \* original tokens; their addresses differ between chains
    Home,         \* Home[tok]: the chain an original token lives on
    Decimals,     \* Decimals[tok] \in 0..18
    TxHashes,     \* hashes of user transactions
    Blocks,       \* hashes of the blocks that may hold a transaction
    Events,       \* the Cross events that may be logged (bounds the model)
    Amounts,      \* amounts users cross
    RelayerFees,  \* fees a receiver grants to who claims for it
    Fees,         \* values of feePercentage the owner sets
    NoTransfer    \* an empty slot of transactionsDataHashes

ASSUME BridgeConstants ==
    /\ IsFiniteSet(Chains)
    /\ Home \in [Tokens -> Chains]
    /\ Decimals \in [Tokens -> 0..18]
    /\ Amounts \subseteq Nat \ {0}
    /\ RelayerFees \subseteq Nat
    /\ Fees \subseteq 0..999        \* below feePercentageDivider / 10
    /\ Events \subseteq [tok: Tokens, amount: Nat, origin: Chains, dest: Chains,
                         block: Blocks, tx: TxHashes, log: Nat]
    /\ NoTransfer \notin Events

(* What uint256(10)**(18 - decimals) is, which the provers do not know.     *)
ASSUME PowersAreNumbers ==
    \A tok \in Tokens : 10^(18 - Decimals[tok]) \in Nat \ {0}

feePercentageDivider == 10000

(* The side token that createSideToken deploys on chain c for token tok of  *)
(* chain origin.                                                            *)
SideTokens == [chain: Chains, origin: Chains, tok: Tokens]
Side(c, origin, tok) == [chain |-> c, origin |-> origin, tok |-> tok]

VARIABLES
    paused,       \* paused[c]
    isUpgrading,  \* isUpgrading[c]
    feePercentage,\* feePercentage[c], in units of 1 / feePercentageDivider
    known,        \* known[c]: pairs <<chain, token>> of knownTokenByChain
    sideTokens,   \* sideTokens[c]: the side tokens that exist on chain c
    accepted,     \* accepted[c][tx]: the accepted transfer, or NoTransfer
    claimed,      \* claimed[c]: data hashes of the claimed transfers
    events,       \* events[c]: the Cross events on chain c
    locked,       \* locked[tok]: what the bridge of Home[tok] keeps of tok
    supply        \* supply[s]: the side tokens s in circulation

adminVars  == <<paused, isUpgrading, feePercentage>>
acceptVars == <<accepted, claimed>>
ledger     == <<locked, supply>>
bridgeVars == <<paused, isUpgrading, feePercentage, known, sideTokens,
                accepted, claimed, events, locked, supply>>

Init ==
    /\ paused = [c \in Chains |-> FALSE]
    /\ isUpgrading = [c \in Chains |-> FALSE]
    /\ feePercentage \in [Chains -> Fees]
    /\ known = [c \in Chains |-> {}]
    /\ sideTokens = [c \in Chains |-> {}]
    /\ accepted = [c \in Chains |-> [tx \in TxHashes |-> NoTransfer]]
    /\ claimed = [c \in Chains |-> {}]
    /\ events = [c \in Chains |-> {}]
    /\ locked = [tok \in Tokens |-> 0]
    /\ supply = [s \in SideTokens |-> 0]

-----------------------------------------------------------------------------
(* decimalsToGranularity.  A token of its home chain has its own decimals,  *)
(* a side token has 18, and the owner gives createSideToken the decimals    *)
(* that the token has on the chain of origin.                               *)
Granularity(origin, tok) ==
    IF origin = Home[tok] THEN 10^(18 - Decimals[tok]) ELSE 1

(* getTransactionDataHash: the token and the sender are not hashed. *)
DataHash(e) == [origin |-> e.origin, dest |-> e.dest, amount |-> e.amount,
                block |-> e.block, tx |-> e.tx, log |-> e.log]

KnownToken(c, origin, tok) == <<origin, tok>> \in known[c]
HasSideToken(c, origin, tok) == Side(c, origin, tok) \in sideTokens[c]

AllEvents == UNION {events[c] : c \in Chains}

(* The event that a call of crossTokens logs.  It is either the first of    *)
(* its transaction, or one more of a transaction nobody has seen yet: the   *)
(* events of a transaction appear together.                                 *)
LogsEvent(e) ==
    /\ e \in Events
    /\ LET sameTx == {f \in AllEvents : f.tx = e.tx}
       IN  /\ e.log = Cardinality(sameTx) + 1
           /\ \A f \in sameTx : f.origin = e.origin /\ f.block = e.block
           /\ \A c \in Chains : accepted[c][e.tx] = NoTransfer
    /\ events' = [events EXCEPT ![e.origin] = @ \cup {e}]

-----------------------------------------------------------------------------
(* Crossing: receiveTokensTo, depositTo and tokensReceived call crossTokens *)

MayCross(c, dest) == ~isUpgrading[c] /\ ~paused[c] /\ dest # c

AfterFee(c, amount) ==
    amount - (amount * feePercentage[c]) \div feePercentageDivider

(* An original token: the bridge keeps the amount, the fee goes to the      *)
(* owner.                                                                   *)
CrossOriginal(c, tok, amount, dest, tx, block) ==
    /\ MayCross(c, dest)
    /\ Home[tok] = c
    /\ known' = [known EXCEPT ![c] = @ \cup {<<dest, tok>>}]
    /\ locked' = [locked EXCEPT ![tok] = @ + AfterFee(c, amount)]
    /\ \E log \in {1, 2} :
          LogsEvent([tok |-> tok, amount |-> AfterFee(c, amount), origin |-> c,
                     dest |-> dest, block |-> block, tx |-> tx, log |-> log])
    /\ UNCHANGED <<adminVars, sideTokens, acceptVars, supply>>

(* Mutant: the balance is not checked. *)
BurnsUnchecked(c, s, amount) == s \in sideTokens[c]

(* The holders have the amount. *)
MayBurn(c, s, amount) == s \in sideTokens[c] /\ amount <= supply[s]

(* A side token: a multiple of the granularity is burned and the remainder  *)
(* is added to the fee.  The event names the original token.                *)
CrossSide(c, s, amount, dest, tx, block) ==
    LET remainder == AfterFee(c, amount) % Granularity(s.origin, s.tok)
        burned    == AfterFee(c, amount) - remainder
    IN  /\ MayCross(c, dest)
        /\ MayBurn(c, s, amount)
        /\ known' = [known EXCEPT ![c] = @ \cup {<<dest, s>>}]
        /\ supply' = [supply EXCEPT ![s] = @ - burned]
        /\ \E log \in {1, 2} :
              LogsEvent([tok |-> s.tok, amount |-> burned, origin |-> c,
                         dest |-> dest, block |-> block, tx |-> tx, log |-> log])
        /\ UNCHANGED <<adminVars, sideTokens, acceptVars, locked>>

-----------------------------------------------------------------------------
(* Accepting *)

(* Mutant: a second transfer of the transaction takes the slot. *)
CanAcceptAgain(c, e) ==
    /\ ~paused[c]
    /\ KnownToken(c, e.origin, e.tok) \/ HasSideToken(c, e.origin, e.tok)
    /\ e.amount > 0
    /\ DataHash(e) \notin claimed[c]

CanAccept(c, e) ==
    /\ ~paused[c]
    /\ KnownToken(c, e.origin, e.tok) \/ HasSideToken(c, e.origin, e.tok)
    /\ e.amount > 0
    /\ accepted[c][e.tx] = NoTransfer
    /\ DataHash(e) \notin claimed[c]

(* acceptTransfer, called by the federation of chain c. *)
AcceptTransfer(c, e) ==
    /\ CanAccept(c, e)
    /\ accepted' = [accepted EXCEPT ![c][e.tx] = e]
    /\ UNCHANGED <<adminVars, known, sideTokens, claimed, events, ledger>>

-----------------------------------------------------------------------------
(* Claiming: claim, claimFallback and claimGasless call _claim *)

(* Mutant: the destination is not checked. *)
CanClaimAnywhere(c, tx) ==
    /\ accepted[c][tx] # NoTransfer
    /\ DataHash(accepted[c][tx]) \notin claimed[c]

(* The hash is recomputed with this chain's id as destination. *)
CanClaim(c, tx) ==
    /\ accepted[c][tx] # NoTransfer
    /\ accepted[c][tx].dest = c
    /\ DataHash(accepted[c][tx]) \notin claimed[c]

(* Mutant: the relayer's fee comes on top. *)
PaidOnTop(formatted, relayerFee) == formatted + relayerFee

(* The receiver and the relayer share the amount. *)
Paid(formatted, relayerFee) == (formatted - relayerFee) + relayerFee

(* Mutant: rounded up. *)
RoundedUp(e) == (e.amount + 10^(18 - Decimals[e.tok]) - 1) \div 10^(18 - Decimals[e.tok])

(* An amount in the units of the original token. *)
InOwnUnits(e) == e.amount \div 10^(18 - Decimals[e.tok])

(* _claimCrossBackToToken: the bridge pays the original token it keeps. *)
ClaimOriginal(c, tx, relayerFee) ==
    LET e         == accepted[c][tx]
        formatted == InOwnUnits(e)
    IN  /\ CanClaim(c, tx)
        /\ KnownToken(c, e.origin, e.tok)
        /\ Home[e.tok] = c              \* elsewhere there is no such contract
        /\ relayerFee <= formatted
        /\ formatted <= locked[e.tok]
        /\ claimed' = [claimed EXCEPT ![c] = @ \cup {DataHash(e)}]
        /\ locked' = [locked EXCEPT ![e.tok] = @ - Paid(formatted, relayerFee)]
        /\ UNCHANGED <<adminVars, known, sideTokens, accepted, events, supply>>

(* _claimCrossToSideToken: side tokens are minted, for the receiver and for *)
(* the relayer.                                                             *)
ClaimSide(c, tx, relayerFee) ==
    LET e         == accepted[c][tx]
        s         == Side(c, e.origin, e.tok)
        formatted == e.amount * Granularity(e.origin, e.tok)
    IN  /\ CanClaim(c, tx)
        /\ ~KnownToken(c, e.origin, e.tok)
        /\ HasSideToken(c, e.origin, e.tok)
        /\ relayerFee <= formatted
        /\ claimed' = [claimed EXCEPT ![c] = @ \cup {DataHash(e)}]
        /\ supply' = [supply EXCEPT ![s] = @ + Paid(formatted, relayerFee)]
        /\ UNCHANGED <<adminVars, known, sideTokens, accepted, events, locked>>

-----------------------------------------------------------------------------
(* Administration *)

CreateSideToken(c, origin, tok) ==
    /\ ~HasSideToken(c, origin, tok)
    /\ sideTokens' = [sideTokens EXCEPT ![c] = @ \cup {Side(c, origin, tok)}]
    /\ UNCHANGED <<adminVars, known, acceptVars, events, ledger>>

(* The contract does not ask who calls this one. *)
SetKnownTokenByChain(c, origin, tok, value) ==
    /\ known' = [known EXCEPT ![c] = IF value THEN @ \cup {<<origin, tok>>}
                                     ELSE @ \ {<<origin, tok>>}]
    /\ UNCHANGED <<adminVars, sideTokens, acceptVars, events, ledger>>

SetPaused(c) ==
    /\ paused' = [paused EXCEPT ![c] = ~@]
    /\ UNCHANGED <<isUpgrading, feePercentage, known, sideTokens, acceptVars,
                   events, ledger>>

SetUpgrading(c) ==
    /\ isUpgrading' = [isUpgrading EXCEPT ![c] = ~@]
    /\ UNCHANGED <<paused, feePercentage, known, sideTokens, acceptVars,
                   events, ledger>>

SetFeePercentage(c, percentage) ==
    /\ feePercentage' = [feePercentage EXCEPT ![c] = percentage]
    /\ UNCHANGED <<paused, isUpgrading, known, sideTokens, acceptVars, events,
                   ledger>>

-----------------------------------------------------------------------------
(* The chain replaces the block of a transaction: its effects are the same, *)
(* but its events carry another block hash.                                 *)
Reorganise(c, tx, block) ==
    /\ \E e \in events[c] : e.tx = tx /\ e.block # block
    /\ events' = [events EXCEPT ![c] =
                     {IF e.tx = tx THEN [e EXCEPT !.block = block] ELSE e : e \in @}]
    /\ events'[c] \subseteq Events
    /\ UNCHANGED <<adminVars, known, sideTokens, acceptVars, ledger>>

-----------------------------------------------------------------------------
Cross(c) ==
    \E amount \in Amounts, dest \in Chains, tx \in TxHashes, block \in Blocks :
        \/ \E tok \in Tokens : CrossOriginal(c, tok, amount, dest, tx, block)
        \/ \E s \in sideTokens[c] : CrossSide(c, s, amount, dest, tx, block)

Claim(c) ==
    \E tx \in TxHashes, fee \in RelayerFees :
        ClaimOriginal(c, tx, fee) \/ ClaimSide(c, tx, fee)

(* Anybody sets the mark of a token. *)
SetKnownToken(c) ==
    \E origin \in Chains, tok \in Tokens, value \in BOOLEAN :
        SetKnownTokenByChain(c, origin, tok, value)

(* The owner never represents a token on its own home chain. *)
NewSideToken(c) ==
    \E origin \in Chains \ {c}, tok \in {k \in Tokens : Home[k] # c} :
        CreateSideToken(c, origin, tok)

Administer(c) ==
    \/ NewSideToken(c)
    \/ SetPaused(c)
    \/ SetUpgrading(c)
    \/ \E percentage \in Fees : SetFeePercentage(c, percentage)

(* An ideal federation reports what the other chains logged; if the event's *)
(* transaction was moved to another block, it may report the old block.     *)
IsGenuine(e) == \E f \in AllEvents : e = [f EXCEPT !.block = e.block]

Relay(c) == \E e \in Events :
                IsGenuine(e) /\ e.origin # c /\ AcceptTransfer(c, e)

Reorganisation(c) == \E tx \in TxHashes, block \in Blocks : Reorganise(c, tx, block)

Next == \E c \in Chains :
            \/ Cross(c) \/ Claim(c) \/ SetKnownToken(c)
            \/ Relay(c) \/ Administer(c) \/ Reorganisation(c)

Spec == Init /\ [][Next]_bridgeVars

(* The bridges while their owners do no more than create side tokens, and   *)
(* nobody sets a mark by hand.                                               *)
CalmNext == \E c \in Chains :
    \/ Cross(c) \/ Relay(c) \/ Claim(c) \/ Reorganisation(c)
    \/ NewSideToken(c)

-----------------------------------------------------------------------------
(* Properties *)

TypeOK ==
    /\ paused \in [Chains -> BOOLEAN]
    /\ isUpgrading \in [Chains -> BOOLEAN]
    /\ feePercentage \in [Chains -> Fees]
    /\ known \in [Chains -> SUBSET (Chains \X (Tokens \cup SideTokens))]
    /\ sideTokens \in [Chains -> SUBSET SideTokens]
    /\ accepted \in [Chains -> [TxHashes -> Events \cup {NoTransfer}]]
    /\ claimed \in [Chains -> SUBSET {DataHash(e) : e \in Events}]
    /\ events \in [Chains -> SUBSET Events]
    /\ locked \in [Tokens -> Nat]
    /\ supply \in [SideTokens -> Nat]

(* A crossing is identified by its transaction and the place of its event   *)
(* in it: these survive a reorganisation.                                   *)
SameCrossing(e, f) == e.tx = f.tx /\ e.log = f.log

IsClaimed(e) == \E c \in Chains : \E h \in claimed[c] : SameCrossing(e, h)

(* Amounts in units of a token with 18 decimals. *)
InUnits(e) == e.amount * Granularity(e.origin, e.tok)

Circulating(tok) ==
    SumFunctionOnSet(supply, {s \in SideTokens : s.tok = tok})

Unclaimed(tok) == {e \in AllEvents : e.tok = tok /\ ~IsClaimed(e)}

InFlight(tok) == SumFunctionOnSet([e \in Events |-> InUnits(e)], Unclaimed(tok))

(* Every side token in circulation, and every crossing nobody claimed yet,  *)
(* is backed by original tokens the home bridge keeps, to the last unit:    *)
(* whatever fees, granularities, pauses, reorganisations, repeated reports  *)
(* and interleavings of the chains come between.  With more than two chains *)
(* a token may go on to a third one and come home from there in units finer *)
(* than its own: what is paid out is then rounded down, never up.           *)
Backed ==
    \A tok \in Tokens :
        LET kept == locked[tok] * Granularity(Home[tok], tok)
            owed == Circulating(tok) + InFlight(tok)
        IN  kept >= owed /\ (Cardinality(Chains) = 2 => kept = owed)

(* No crossing is claimed twice, under two block hashes, or on a chain it   *)
(* was not sent to.                                                         *)
ClaimedOnceAtDestination ==
    \A c \in Chains : \A h \in claimed[c] :
        /\ \E e \in AllEvents :
              SameCrossing(e, h) /\ e.dest = c /\ e.origin = h.origin
                                 /\ e.amount = h.amount
        /\ \A d \in Chains : \A g \in claimed[d] :
              SameCrossing(g, h) => g = h /\ d = c

-----------------------------------------------------------------------------
(* The bridges implement the life of a crossing that CrossTransfer          *)
(* promises.                                                                *)
Crossings == TxHashes \X {1, 2}

IsOf(id, e) == e.tx = id[1] /\ e.log = id[2]

(* The chains a crossing was sent to, is accepted on, and is claimed on. *)
SentTo(id) == {e.dest : e \in {f \in AllEvents : IsOf(id, f)}}

AcceptedOn(id) ==
    {c \in Chains : /\ accepted[c][id[1]] # NoTransfer
                    /\ accepted[c][id[1]].dest = c
                    /\ IsOf(id, accepted[c][id[1]])}

ClaimedOn(id) == {c \in Chains : \E h \in claimed[c] : IsOf(id, h)}

StageOf(id) ==
    IF ClaimedOn(id) # {} THEN [at |-> "claimed", chains |-> ClaimedOn(id)]
    ELSE IF AcceptedOn(id) # {} THEN [at |-> "accepted", chains |-> AcceptedOn(id)]
    ELSE IF SentTo(id) # {} THEN [at |-> "sent", chains |-> SentTo(id)]
    ELSE [at |-> "none", chains |-> {}]

Promise == INSTANCE CrossTransfer
               WITH stage <- [id \in Crossings |-> StageOf(id)]

(* The refinement: every step of the bridges is a step of CrossTransfer. *)
ImplementsCrossTransfer == Promise!Spec
=============================================================================
