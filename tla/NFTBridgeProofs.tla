--------------------------- MODULE NFTBridgeProofs ---------------------------
(***************************************************************************)
(* Theorems about NFTBridge, for any two chains, any contracts, tokens and *)
(* transactions: an NFT is always in one place, and it travels as          *)
(* NFTTravel says.                                                         *)
(***************************************************************************)
EXTENDS NFTBridge, FiniteSetTheorems, TLAPS

SameTx(tx) == {e \in AllEvents : e.tx = tx}

(* The events of a transaction are on one chain, each known by its place.   *)
EventsInv ==
    /\ \A c \in Chains : \A e \in events[c] : e.origin = c
    /\ \A e, f \in AllEvents : SameCrossing(e, f) => e = f
    /\ \A tx \in TxHashes :
          /\ IsFiniteSet(SameTx(tx))
          /\ \A e, f \in SameTx(tx) : e.origin = f.origin
          /\ \A e \in SameTx(tx) : e.log <= Cardinality(SameTx(tx))

(* e is f, possibly as it was reported under another block.                 *)
VersionOf(e, f) == e = [f EXCEPT !.block = e.block]

(* A slot holds what the other chain logged in its transaction, of a        *)
(* contract this chain knows; what was claimed stays in its slot.           *)
SlotsInv ==
    \A c \in Chains :
        /\ \A tx \in TxHashes :
              LET e == accepted[c][tx]
              IN  e # NoTransfer =>
                     /\ e.tx = tx /\ e.origin # c
                     /\ \E f \in AllEvents : VersionOf(e, f)
                     /\ \/ Original(Contract[e.nft]) \in crossed[c]
                        \/ Contract[e.nft] \in sideTokens[c]
        /\ \A h \in claimed[c] :
              /\ h.tx \in TxHashes
              /\ accepted[c][h.tx] # NoTransfer
              /\ h = DataHash(accepted[c][h.tx])

(* An original is marked only by the bridge that keeps it.                  *)
HomesInv ==
    \A c \in Chains, tok \in Tokens : Original(tok) \in crossed[c] => Home[tok] = c

OnePlace(nft) ==
    \/ nft \in withUsers /\ MintedOn(nft) = {} /\ InFlight(nft) = {}
    \/ nft \notin withUsers /\ InFlight(nft) = {} /\ \E c \in Chains : MintedOn(nft) = {c}
    \/ nft \notin withUsers /\ MintedOn(nft) = {} /\ \E e \in InFlight(nft) : InFlight(nft) = {e}

Inv ==
    /\ TypeOK
    /\ EventsInv
    /\ SlotsInv
    /\ HomesInv
    /\ \A nft \in Nfts : OnePlace(nft)
-----------------------------------------------------------------------------
(* The sides of the two chains                                              *)

(* What is not one chain is the other one.                                  *)
LEMMA TwoChains ==
    ASSUME NEW a \in Chains, NEW c \in Chains, a # c
    PROVE  Other(a) = c /\ \A d \in Chains : d # a => d = c
BY NFTBridgeConstants DEF Other

LEMMA EventFields ==
    ASSUME NEW e \in Events
    PROVE  /\ e.nft \in Nfts /\ e.origin \in Chains /\ e.block \in Blocks
           /\ e.tx \in TxHashes /\ e.log \in 1..MaxLogs /\ e.log \in Nat
           /\ Contract[e.nft] \in Tokens /\ Home[Contract[e.nft]] \in Chains
BY NFTBridgeConstants DEF Events

LEMMA AllAreEvents ==
    ASSUME TypeOK
    PROVE  AllEvents \subseteq Events
BY DEF TypeOK, AllEvents

(* A version is the same crossing of the same token from the same chain.    *)
LEMMA VersionsAgree ==
    ASSUME NEW e, NEW f \in Events, VersionOf(e, f)
    PROVE  /\ SameCrossing(e, f) /\ e.nft = f.nft /\ e.origin = f.origin
BY DEF VersionOf, SameCrossing, Events

(* All that is claimed of a transaction is what its slot holds.             *)
LEMMA ClaimedIsInSlot ==
    ASSUME Inv, NEW c \in Chains, NEW tx \in TxHashes, CanClaim(c, tx)
    PROVE  \E f \in AllEvents :
               /\ SameCrossing(f, accepted[c][tx]) /\ VersionOf(accepted[c][tx], f)
               /\ f.nft = accepted[c][tx].nft /\ f.origin = accepted[c][tx].origin
               /\ f.origin \in Chains /\ f.origin # c
               /\ f \in InFlight(f.nft)
<1>1. PICK e : e = accepted[c][tx]
  OBVIOUS
<1>2. e # NoTransfer /\ e.tx = tx /\ e.origin # c /\ DataHash(e) \notin claimed[c]
  BY <1>1 DEF CanClaim, Inv, SlotsInv
<1>3. PICK f \in AllEvents : VersionOf(e, f)
  BY <1>1, <1>2 DEF Inv, SlotsInv
<1>4. f \in Events /\ SameCrossing(e, f) /\ e.nft = f.nft /\ e.origin = f.origin
  BY <1>3, AllAreEvents, VersionsAgree DEF Inv
<1>5. f.origin \in Chains /\ f.tx = tx
  BY <1>2, <1>4, EventFields DEF SameCrossing
<1>6. ASSUME NEW d \in Chains, NEW h \in claimed[d], SameCrossing(f, h)
      PROVE  FALSE
  <2>1. h.tx = tx /\ accepted[d][tx] # NoTransfer /\ h = DataHash(accepted[d][tx])
    BY <1>5, <1>6 DEF SameCrossing, Inv, SlotsInv
  <2>2. PICK g \in AllEvents : VersionOf(accepted[d][tx], g)
    BY <2>1 DEF Inv, SlotsInv
  <2>3. g \in Events /\ g.tx = tx /\ g.origin # d
    BY <2>1, <2>2, AllAreEvents, VersionsAgree DEF SameCrossing, Inv, SlotsInv
  <2>4. g.origin = f.origin
    BY <1>5, <2>3 DEF SameTx, Inv, EventsInv
  <2>5. d = c
    BY <1>2, <1>4, <1>5, <2>3, <2>4, TwoChains
  <2> QED
    BY <1>1, <1>2, <2>1, <2>5, <1>6
<1>7. f \in InFlight(f.nft)
  BY <1>6 DEF InFlight, IsClaimed
<1> QED
  BY <1>1, <1>2, <1>3, <1>4, <1>5, <1>7 DEF SameCrossing
-----------------------------------------------------------------------------
(* A crossing                                                               *)

(* What was not claimed of the crossings of all chains is in flight.        *)
LEMMA FlightsFollowEvents ==
    ASSUME claimed' = claimed, NEW e, AllEvents' = AllEvents \cup {e}, ~IsClaimed(e)
    PROVE  /\ InFlight(e.nft)' = InFlight(e.nft) \cup {e}
           /\ \A n : n # e.nft => InFlight(n)' = InFlight(n)
BY DEF InFlight, IsClaimed

(* The event of a crossing is a new one, the last of its transaction, and   *)
(* nothing of its transaction was claimed.                                  *)
LEMMA CrossLogs ==
    ASSUME Inv, NEW c \in Chains, NEW nft \in Nfts, NEW tx \in TxHashes, NEW block \in Blocks,
           LogsEvent(nft, c, tx, block)
    PROVE  \E e \in Events :
               /\ e.nft = nft /\ e.origin = c
               /\ AllEvents' = AllEvents \cup {e}
               /\ events' = [events EXCEPT ![c] = @ \cup {e}]
               /\ ~IsClaimed(e)
               /\ EventsInv'
<1> DEFINE n == Cardinality(SameTx(tx))
<1>1. IsFiniteSet(SameTx(tx)) /\ n \in Nat
  BY FS_CardinalityType DEF Inv, EventsInv
<1>2. PICK e : e = [nft |-> nft, origin |-> c, block |-> block, tx |-> tx, log |-> n + 1]
  OBVIOUS
<1>3. /\ n + 1 <= MaxLogs
      /\ \A f \in SameTx(tx) : f.origin = c /\ f.block = block
      /\ \A d \in Chains : accepted[d][tx] = NoTransfer
      /\ events' = [events EXCEPT ![c] = @ \cup {e}]
  BY <1>2 DEF LogsEvent, SameTx
<1>4. e.nft = nft /\ e.origin = c /\ e.tx = tx /\ e.log = n + 1 /\ e \in Events
  BY <1>1, <1>2, <1>3, NFTBridgeConstants DEF Events
<1>5. AllEvents' = AllEvents \cup {e}
  BY <1>3 DEF AllEvents, Inv, TypeOK
<1>6. ~IsClaimed(e)
  BY <1>3, <1>4 DEF IsClaimed, SameCrossing, Inv, SlotsInv
<1>7. \A f \in AllEvents : f \in Events /\ f.log \in Nat /\ f.tx \in TxHashes
  BY AllAreEvents, EventFields DEF Inv
<1>8. \A f \in SameTx(tx) : f.log \in Nat /\ f.log <= n
  BY <1>7 DEF SameTx, Inv, EventsInv
<1>9. SameTx(tx)' = SameTx(tx) \cup {e} /\ e \notin SameTx(tx)
  <2>1. \A f \in SameTx(tx) : f.log # e.log
    BY <1>1, <1>4, <1>8
  <2> QED
    BY <1>4, <1>5, <2>1 DEF SameTx
<1>10. IsFiniteSet(SameTx(tx)') /\ Cardinality(SameTx(tx)') = n + 1
  BY <1>1, <1>9, FS_AddElement
<1>11. \A d \in Chains : \A f \in events'[d] : f.origin = d
  BY <1>3, <1>4 DEF Inv, TypeOK, EventsInv
<1>12. \A f, g \in AllEvents' : SameCrossing(f, g) => f = g
  <2>1. \A f \in AllEvents : ~SameCrossing(f, e) /\ ~SameCrossing(e, f)
    BY <1>1, <1>4, <1>8 DEF SameTx, SameCrossing
  <2> QED
    BY <1>5, <2>1 DEF Inv, EventsInv
<1>13. ASSUME NEW x \in TxHashes
       PROVE  /\ IsFiniteSet(SameTx(x)')
              /\ \A f, g \in SameTx(x)' : f.origin = g.origin
              /\ \A f \in SameTx(x)' : f.log <= Cardinality(SameTx(x)')
  <2>1. CASE x = tx
    <3>1. \A f \in SameTx(tx)' : f.origin = c
      BY <1>3, <1>4, <1>9
    <3>2. \A f \in SameTx(tx)' : f.log <= n + 1
      <4> TAKE f \in SameTx(tx)'
      <4>1. f = e \/ f \in SameTx(tx)
        BY <1>9
      <4> QED
        BY <1>1, <1>4, <1>8, <4>1
    <3> QED
      BY <1>10, <2>1, <3>1, <3>2
  <2>2. CASE x # tx
    <3>1. SameTx(x)' = SameTx(x)
      BY <1>4, <1>5, <2>2 DEF SameTx
    <3> QED
      BY <3>1 DEF Inv, EventsInv
  <2> QED
    BY <2>1, <2>2
<1> QED
  BY <1>3, <1>4, <1>5, <1>6, <1>11, <1>12, <1>13 DEF EventsInv

(* A token that crosses is in flight, and nowhere else.                     *)
LEMMA CrossingLeaves ==
    ASSUME Inv, NEW c \in Chains, NEW nft \in Nfts, NEW value \in Values, NEW tx \in TxHashes,
           NEW block \in Blocks, ReceiveTokensTo(c, nft, value, tx, block)
    PROVE  /\ Inv'
           /\ \E e \in Events : e.origin = c /\ InFlight(nft)' = {e}
           /\ MintedOn(nft)' = {} /\ nft \notin withUsers'
           /\ \A n \in Nfts \ {nft} : /\ InFlight(n)' = InFlight(n)
                                     /\ MintedOn(n)' = MintedOn(n)
                                     /\ (n \in withUsers' <=> n \in withUsers)
           /\ \/ nft \in withUsers /\ Home[Contract[nft]] = c
              \/ nft \notin withUsers /\ MintedOn(nft) = {c}
<1>1. /\ LogsEvent(nft, c, tx, block) /\ PayFee(c, value)
      /\ LeaveHome(nft, c) \/ Burn(nft, c)
      /\ UNCHANGED <<adminVars, sideTokens, accepted, claimed>>
  BY DEF ReceiveTokensTo
<1>2. PICK e \in Events : /\ e.nft = nft /\ e.origin = c
                         /\ AllEvents' = AllEvents \cup {e}
                         /\ events' = [events EXCEPT ![c] = @ \cup {e}]
                         /\ ~IsClaimed(e)
                         /\ EventsInv'
  BY <1>1, CrossLogs
<1>3. InFlight(nft)' = InFlight(nft) \cup {e} /\ \A n : n # nft => InFlight(n)' = InFlight(n)
  BY <1>1, <1>2, FlightsFollowEvents
<1>4. OnePlace(nft) /\ Contract[nft] \in Tokens
  BY NFTBridgeConstants DEF Inv
<1>5. /\ minted' \in [Chains -> SUBSET Nfts] /\ withUsers' \in SUBSET Nfts
      /\ crossed' \in [Chains -> SUBSET Addresses]
      /\ \A d \in Chains : crossed[d] \subseteq crossed'[d]
      /\ \A d \in Chains, tok \in Tokens :
            Original(tok) \in crossed'[d] => Original(tok) \in crossed[d] \/ (d = c /\ Home[tok] = c)
      /\ MintedOn(nft)' = {} /\ nft \notin withUsers' /\ InFlight(nft) = {}
      /\ \A n \in Nfts \ {nft} : MintedOn(n)' = MintedOn(n) /\ (n \in withUsers' <=> n \in withUsers)
      /\ \/ nft \in withUsers /\ Home[Contract[nft]] = c
         \/ nft \notin withUsers /\ MintedOn(nft) = {c}
  <2>1. Original(Contract[nft]) \in Addresses /\ SideToken(Contract[nft]) \in Addresses
    BY <1>4 DEF Original, SideToken, Addresses
  <2>2. \A tok, t : Original(tok) # SideToken(t) /\ (Original(tok) = Original(t) => tok = t)
    BY DEF Original, SideToken
  <2>3. CASE LeaveHome(nft, c)
    <3>1. /\ nft \in withUsers /\ withUsers' = withUsers \ {nft} /\ minted' = minted
          /\ crossed' = [crossed EXCEPT ![c] = @ \cup {Original(Contract[nft])}]
          /\ Home[Contract[nft]] = c
      BY <2>3 DEF LeaveHome
    <3>2. MintedOn(nft) = {} /\ InFlight(nft) = {} /\ \A n : MintedOn(n)' = MintedOn(n)
      BY <1>4, <3>1 DEF OnePlace, MintedOn
    <3> QED
      BY <2>1, <2>2, <3>1, <3>2 DEF Inv, TypeOK
  <2>4. CASE Burn(nft, c)
    <3>1. /\ nft \in minted[c] /\ minted' = [minted EXCEPT ![c] = @ \ {nft}]
          /\ withUsers' = withUsers
          /\ crossed' = [crossed EXCEPT ![c] = @ \cup {SideToken(Contract[nft])}]
      BY <2>4 DEF Burn
    <3>2. c \in MintedOn(nft)
      BY <3>1 DEF MintedOn
    <3>3. MintedOn(nft) = {c} /\ InFlight(nft) = {} /\ nft \notin withUsers
      BY <1>4, <3>2 DEF OnePlace
    <3>4. MintedOn(nft)' = {} /\ \A n \in Nfts \ {nft} : MintedOn(n)' = MintedOn(n)
      BY <3>1, <3>3 DEF MintedOn, Inv, TypeOK
    <3> QED
      BY <2>1, <2>2, <3>1, <3>3, <3>4 DEF Inv, TypeOK
  <2> QED
    BY <1>1, <2>3, <2>4
<1>6. TypeOK'
  <2>1. events' \in [Chains -> SUBSET Events]
    BY <1>2 DEF Inv, TypeOK
  <2>2. ether' \in [Chains -> Nat]
    BY <1>1, NFTBridgeConstants DEF PayFee, Inv, TypeOK
  <2> QED
    BY <1>1, <1>5, <2>1, <2>2 DEF adminVars, Inv, TypeOK
<1>7. SlotsInv'
  <2>1. AllEvents \subseteq AllEvents'
    BY <1>2
  <2> QED
    BY <1>1, <1>5, <2>1 DEF Inv, SlotsInv
<1>8. HomesInv'
  BY <1>5 DEF Inv, HomesInv
<1>9. \A n \in Nfts : OnePlace(n)'
  BY <1>3, <1>5 DEF OnePlace, Inv
<1> QED
  BY <1>2, <1>3, <1>5, <1>6, <1>7, <1>8, <1>9 DEF Inv
-----------------------------------------------------------------------------
(* A claim                                                                  *)

(* The token of a claim was in flight to this chain, and is on it now.      *)
LEMMA ClaimingArrives ==
    ASSUME Inv, NEW c \in Chains, NEW tx \in TxHashes, Claim(c, tx)
    PROVE  /\ Inv'
           /\ \E nft \in Nfts :
                 /\ \E f \in Events : /\ InFlight(nft) = {f}
                                     /\ f.origin \in Chains /\ f.origin # c
                 /\ nft \notin withUsers /\ MintedOn(nft) = {}
                 /\ \/ nft \in withUsers' /\ MintedOn(nft)' = {} /\ Home[Contract[nft]] = c
                    \/ nft \notin withUsers' /\ MintedOn(nft)' = {c}
                 /\ \A n \in Nfts \ {nft} : /\ InFlight(n)' = InFlight(n)
                                           /\ MintedOn(n)' = MintedOn(n)
                                           /\ (n \in withUsers' <=> n \in withUsers)
<1>1. PICK e : e = accepted[c][tx]
  OBVIOUS
<1>2. /\ CanClaim(c, tx)
      /\ claimed' = [claimed EXCEPT ![c] = @ \cup {DataHash(e)}]
      /\ HandOut(e.nft, c) \/ Mint(e.nft, c)
      /\ UNCHANGED <<adminVars, crossed, sideTokens, accepted, events, ether>>
  BY <1>1 DEF Claim
<1>3. PICK f \in AllEvents : /\ SameCrossing(f, e) /\ f.nft = e.nft /\ VersionOf(e, f)
                            /\ f.origin \in Chains /\ f.origin # c
                            /\ f \in InFlight(f.nft)
  BY <1>1, <1>2, ClaimedIsInSlot
<1>4. PICK nft \in Nfts : nft = f.nft
  BY AllAreEvents, EventFields DEF Inv
<1>5. e # NoTransfer /\ e.tx = tx /\ e \in Events
  BY <1>1, <1>2 DEF CanClaim, Inv, SlotsInv, TypeOK
<1>6. nft \notin withUsers /\ MintedOn(nft) = {} /\ InFlight(nft) = {f}
  BY <1>3, <1>4 DEF Inv, OnePlace
<1>7. AllEvents' = AllEvents
  BY <1>2 DEF AllEvents
<1>8. \A g : IsClaimed(g)' <=> IsClaimed(g) \/ SameCrossing(g, e)
  <2>1. \A g : SameCrossing(g, DataHash(e)) <=> SameCrossing(g, e)
    BY DEF SameCrossing, DataHash
  <2>2. claimed'[c] = claimed[c] \cup {DataHash(e)}
        /\ \A d \in Chains : d # c => claimed'[d] = claimed[d]
    BY <1>2 DEF Inv, TypeOK
  <2> QED
    BY <2>1, <2>2 DEF IsClaimed
<1>9. \A g \in AllEvents : SameCrossing(g, e) <=> g = f
  BY <1>3 DEF SameCrossing, Inv, EventsInv
<1>10. InFlight(nft)' = {} /\ \A n \in Nfts \ {nft} : InFlight(n)' = InFlight(n)
  BY <1>4, <1>6, <1>7, <1>8, <1>9 DEF InFlight
<1>11. /\ minted' \in [Chains -> SUBSET Nfts] /\ withUsers' \in SUBSET Nfts
       /\ \A n \in Nfts \ {nft} : MintedOn(n)' = MintedOn(n) /\ (n \in withUsers' <=> n \in withUsers)
       /\ \/ nft \in withUsers' /\ MintedOn(nft)' = {} /\ Home[Contract[nft]] = c
          \/ nft \notin withUsers' /\ MintedOn(nft)' = {c}
  <2>1. CASE HandOut(nft, c)
    BY <1>6, <2>1 DEF HandOut, MintedOn, Inv, TypeOK
  <2>2. CASE Mint(nft, c)
    <3>1. minted' = [minted EXCEPT ![c] = @ \cup {nft}] /\ withUsers' = withUsers
      BY <2>2 DEF Mint
    <3>2. MintedOn(nft)' = MintedOn(nft) \cup {c}
      BY <3>1 DEF MintedOn, Inv, TypeOK
    <3>3. \A n \in Nfts \ {nft} : MintedOn(n)' = MintedOn(n)
      BY <3>1 DEF MintedOn, Inv, TypeOK
    <3> QED
      BY <1>6, <3>1, <3>2, <3>3 DEF Inv, TypeOK
  <2> QED
    BY <1>2, <1>3, <1>4, <2>1, <2>2
<1>12. claimed' \in [Chains -> SUBSET {DataHash(g) : g \in Events}]
  BY <1>2, <1>5 DEF Inv, TypeOK
<1>13. TypeOK'
  BY <1>2, <1>11, <1>12 DEF Inv, TypeOK, adminVars
<1>14. EventsInv'
  <2>1. \A x : SameTx(x)' = SameTx(x)
    BY <1>7 DEF SameTx
  <2> QED
    BY <1>2, <1>7, <2>1 DEF Inv, EventsInv
<1>15. SlotsInv'
  <2>1. ASSUME NEW d \in Chains, NEW h \in claimed'[d]
        PROVE  h.tx \in TxHashes /\ accepted[d][h.tx] # NoTransfer /\ h = DataHash(accepted[d][h.tx])
    <3>1. CASE h \in claimed[d]
      BY <3>1 DEF Inv, SlotsInv
    <3>2. CASE h \notin claimed[d]
      <4>1. d = c /\ h = DataHash(e)
        BY <1>2, <2>1, <3>2 DEF Inv, TypeOK
      <4>2. h.tx = tx
        BY <1>5, <4>1 DEF DataHash
      <4> QED
        BY <1>1, <1>5, <4>1, <4>2
    <3> QED
      BY <3>1, <3>2
  <2> QED
    BY <1>2, <1>7, <2>1 DEF Inv, SlotsInv
<1>16. HomesInv'
  BY <1>2 DEF Inv, HomesInv
<1>17. \A n \in Nfts : OnePlace(n)'
  <2>1. OnePlace(nft)'
    BY <1>10, <1>11 DEF OnePlace
  <2>2. \A n \in Nfts \ {nft} : OnePlace(n)'
    BY <1>10, <1>11 DEF OnePlace, Inv
  <2> QED
    BY <2>1, <2>2
<1>18. f \in Events
  BY AllAreEvents DEF Inv
<1> QED
  BY <1>3, <1>6, <1>10, <1>11, <1>13, <1>14, <1>15, <1>16, <1>17, <1>18 DEF Inv
-----------------------------------------------------------------------------
(* A reorganisation                                                         *)

Move(f, tx, block) == IF f.tx = tx THEN [f EXCEPT !.block = block] ELSE f

(* The events of the transaction get another block, and nothing else.       *)
LEMMA ReorganisationMoves ==
    ASSUME Inv, NEW c \in Chains, NEW tx \in TxHashes, NEW block \in Blocks, Reorganise(c, tx, block)
    PROVE  /\ \A d \in Chains : events'[d] = {Move(f, tx, block) : f \in events[d]}
           /\ AllEvents' = {Move(f, tx, block) : f \in AllEvents}
           /\ events' \in [Chains -> SUBSET Events]
           /\ \A f \in AllEvents : LET g == Move(f, tx, block)
                                   IN  /\ f \in Events /\ g \in Events /\ SameCrossing(g, f)
                                       /\ g.nft = f.nft /\ g.origin = f.origin
                                       /\ \A e : VersionOf(e, f) => VersionOf(e, g)
<1> DEFINE M(f) == Move(f, tx, block)
<1>1. /\ events' = [events EXCEPT ![c] = {M(f) : f \in @}]
      /\ \E e \in events[c] : e.tx = tx
  BY DEF Reorganise, Move
<1>2. \A f \in AllEvents : f \in Events
  BY AllAreEvents DEF Inv
<1>3. \A d \in Chains : \A f \in events[d] : d # c => M(f) = f
  <2> SUFFICES ASSUME NEW d \in Chains, NEW f \in events[d], f.tx = tx PROVE d = c
    BY DEF Move
  <2>1. PICK e \in events[c] : e.tx = tx
    BY <1>1
  <2>2. e \in SameTx(tx) /\ f \in SameTx(tx)
    BY <2>1 DEF SameTx, AllEvents
  <2>3. e.origin = f.origin
    BY <2>2 DEF Inv, EventsInv
  <2> QED
    BY <2>3 DEF Inv, EventsInv
<1>4. \A d \in Chains : events'[d] = {M(f) : f \in events[d]}
  BY <1>1, <1>3 DEF Inv, TypeOK
<1>5. AllEvents' = {M(f) : f \in AllEvents}
  BY <1>4 DEF AllEvents
<1>6. ASSUME NEW f \in AllEvents
      PROVE  /\ M(f) \in Events /\ SameCrossing(M(f), f)
             /\ M(f).nft = f.nft /\ M(f).origin = f.origin
             /\ \A e : VersionOf(e, f) => VersionOf(e, M(f))
  <2>1. f \in Events
    BY <1>2
  <2>2. /\ M(f) \in Events /\ SameCrossing(M(f), f)
        /\ M(f).nft = f.nft /\ M(f).origin = f.origin
    BY <2>1 DEF Move, Events, SameCrossing
  <2>3. \A b : [M(f) EXCEPT !.block = b] = [f EXCEPT !.block = b]
    BY <2>1 DEF Move, Events
  <2> QED
    BY <2>2, <2>3 DEF VersionOf
<1> HIDE DEF M
<1>7. events' \in [Chains -> SUBSET Events]
  <2>1. \A d \in Chains : events'[d] \subseteq Events
    BY <1>4, <1>6 DEF AllEvents
  <2> QED
    BY <1>1, <2>1 DEF Inv, TypeOK
<1> QED
  BY <1>2, <1>4, <1>5, <1>6, <1>7 DEF M

(* It leaves every token where it is.                                       *)
LEMMA ReorganisingStays ==
    ASSUME Inv, NEW c \in Chains, NEW tx \in TxHashes, NEW block \in Blocks, Reorganise(c, tx, block)
    PROVE  /\ Inv'
           /\ \A n \in Nfts : /\ InFlight(n)' = {Move(f, tx, block) : f \in InFlight(n)}
                               /\ MintedOn(n)' = MintedOn(n)
           /\ withUsers' = withUsers
<1> DEFINE M(f) == Move(f, tx, block)
<1>1. /\ \A d \in Chains : events'[d] = {M(f) : f \in events[d]}
      /\ AllEvents' = {M(f) : f \in AllEvents}
      /\ events' \in [Chains -> SUBSET Events]
      /\ \A f \in AllEvents : /\ f \in Events /\ M(f) \in Events /\ SameCrossing(M(f), f)
                               /\ M(f).nft = f.nft /\ M(f).origin = f.origin
                               /\ \A e : VersionOf(e, f) => VersionOf(e, M(f))
  BY ReorganisationMoves
<1>2. UNCHANGED <<adminVars, crossed, sideTokens, accepted, claimed, withUsers, minted, ether>>
  BY DEF Reorganise
<1> HIDE DEF M
<1>3. \A f \in AllEvents : M(f).tx = f.tx /\ M(f).log = f.log /\ (IsClaimed(M(f)) <=> IsClaimed(f))
  BY <1>1 DEF SameCrossing, IsClaimed
<1>4. \A g : IsClaimed(g)' <=> IsClaimed(g)
  BY <1>2 DEF IsClaimed
<1>5. \A n : InFlight(n)' = {M(f) : f \in InFlight(n)}
  BY <1>1, <1>3, <1>4 DEF InFlight
<1>6. \A n : MintedOn(n)' = MintedOn(n)
  BY <1>2 DEF MintedOn
<1>7. TypeOK'
  BY <1>1, <1>2 DEF Inv, TypeOK, adminVars
<1>8. EventsInv'
  <2>1. \A d \in Chains : \A e \in events'[d] : e.origin = d
    <3> SUFFICES ASSUME NEW d \in Chains, NEW f \in events[d] PROVE M(f).origin = d
      BY <1>1
    <3> QED
      BY <1>1 DEF AllEvents, Inv, EventsInv
  <2>2. \A f, g \in AllEvents : SameCrossing(M(f), M(g)) => f = g
    BY <1>3 DEF SameCrossing, Inv, EventsInv
  <2>3. ASSUME NEW x \in TxHashes
        PROVE  /\ IsFiniteSet(SameTx(x)')
               /\ \A e, f \in SameTx(x)' : e.origin = f.origin
               /\ \A e \in SameTx(x)' : e.log <= Cardinality(SameTx(x)')
    <3> DEFINE S == SameTx(x)
               T == {M(f) : f \in S}
               m == [f \in S |-> M(f)]
    <3>1. SameTx(x)' = T
      BY <1>1, <1>3 DEF SameTx
    <3>2. S \subseteq AllEvents
      BY DEF SameTx
    <3>3. m \in Bijection(S, T)
      <4>1. \A e, f \in S : M(e) = M(f) => e = f
        BY <2>2, <3>2 DEF SameCrossing
      <4> QED
        BY <4>1 DEF Bijection, Injection, Surjection, IsInjective
    <3>4. IsFiniteSet(S) /\ \A e, f \in S : e.origin = f.origin /\ e.log <= Cardinality(S)
      BY DEF Inv, EventsInv
    <3>5. IsFiniteSet(T) /\ Cardinality(T) = Cardinality(S)
      BY <3>3, <3>4, FS_Bijection DEF ExistsBijection
    <3>6. \A f \in S : M(f).log = f.log /\ M(f).origin = f.origin
      BY <1>1, <1>3, <3>2
    <3>7. \A e, f \in S : M(e).origin = M(f).origin /\ M(e).log <= Cardinality(T)
      BY <3>4, <3>5, <3>6
    <3>8. \A y \in T : \E f \in S : y = M(f)
      OBVIOUS
    <3> HIDE DEF S, T
    <3>9. \A y, z \in T : y.origin = z.origin /\ y.log <= Cardinality(T)
      BY <3>7, <3>8
    <3> QED
      BY <3>1, <3>5, <3>9
  <2> QED
    BY <1>1, <2>1, <2>2, <2>3 DEF EventsInv
<1>9. SlotsInv'
  <2>1. \A e : (\E f \in AllEvents : VersionOf(e, f)) => \E f \in AllEvents' : VersionOf(e, f)
    BY <1>1
  <2> QED
    BY <1>2, <2>1 DEF Inv, SlotsInv
<1>10. HomesInv'
  BY <1>2 DEF Inv, HomesInv
<1>11. ASSUME NEW n \in Nfts PROVE OnePlace(n)'
  <2>1. OnePlace(n) /\ MintedOn(n)' = MintedOn(n) /\ withUsers' = withUsers
    BY <1>2, <1>6 DEF Inv
  <2>2. CASE InFlight(n) = {}
    <3>1. InFlight(n)' = {}
      BY <1>5, <2>2
    <3> QED
      BY <2>1, <2>2, <3>1 DEF OnePlace
  <2>3. ASSUME NEW e, InFlight(n) = {e} PROVE OnePlace(n)'
    <3>1. InFlight(n)' = {M(e)}
      BY <1>5, <2>3
    <3> QED
      BY <2>1, <2>3, <3>1 DEF OnePlace
  <2> QED
    BY <2>1, <2>2, <2>3 DEF OnePlace
<1> QED
  BY <1>2, <1>5, <1>6, <1>7, <1>8, <1>9, <1>10, <1>11 DEF Inv, M
-----------------------------------------------------------------------------
(* Everything else                                                          *)

(* The invariant and the places do not depend on the administration.        *)
LEMMA OthersStay ==
    ASSUME Inv, UNCHANGED <<events, claimed, withUsers, minted>>,
           TypeOK', SlotsInv', HomesInv'
    PROVE  Inv' /\ UNCHANGED [nft \in Nfts |-> PlaceOf(nft)]
<1>1. AllEvents' = AllEvents
  BY DEF AllEvents
<1>2. \A e : IsClaimed(e)' <=> IsClaimed(e)
  BY DEF IsClaimed
<1>3. \A n : InFlight(n)' = InFlight(n) /\ MintedOn(n)' = MintedOn(n)
  BY <1>1, <1>2 DEF InFlight, MintedOn
<1>4. \A tx : SameTx(tx)' = SameTx(tx)
  BY <1>1 DEF SameTx
<1>5. EventsInv'
  BY <1>1, <1>4 DEF Inv, EventsInv
<1>6. \A n \in Nfts : OnePlace(n)' /\ PlaceOf(n)' = PlaceOf(n)
  BY <1>3 DEF Inv, OnePlace, PlaceOf
<1> QED
  BY <1>5, <1>6 DEF Inv

(* Accepting fills an empty slot.                                           *)
LEMMA AcceptingStays ==
    ASSUME Inv, NEW c \in Chains, Relay(c)
    PROVE  Inv' /\ UNCHANGED [nft \in Nfts |-> PlaceOf(nft)]
<1>1. PICK d \in Chains \ {c}, block \in Blocks :
          \E f \in events[d] : AcceptTransfer(c, [f EXCEPT !.block = block])
  BY DEF Relay
<1>0. PICK f \in events[d] : AcceptTransfer(c, [f EXCEPT !.block = block])
  BY <1>1
<1>2. PICK e : e = [f EXCEPT !.block = block]
  OBVIOUS
<1>3. f \in Events /\ f \in AllEvents /\ f.origin # c
  BY <1>1 DEF AllEvents, Inv, TypeOK, EventsInv
<1>4. e \in Events /\ e.block = block /\ e.origin = f.origin
  BY <1>2, <1>3 DEF Events
<1>5. VersionOf(e, f) /\ e # NoTransfer /\ e.tx \in TxHashes
  BY <1>2, <1>4, NFTBridgeConstants, EventFields DEF VersionOf
<1>6. /\ CanAccept(c, e) /\ accepted' = [accepted EXCEPT ![c][e.tx] = e]
      /\ UNCHANGED <<adminVars, crossed, sideTokens, claimed, events, withUsers, minted, ether>>
  BY <1>0, <1>2 DEF AcceptTransfer
<1>7. TypeOK'
  BY <1>4, <1>6 DEF Inv, TypeOK, adminVars
<1>8. HomesInv'
  BY <1>6 DEF Inv, HomesInv
<1>9. AllEvents' = AllEvents
  BY <1>6 DEF AllEvents
<1>10. accepted'[c][e.tx] = e /\ accepted[c][e.tx] = NoTransfer
       /\ \A b \in Chains, tx \in TxHashes :
             b # c \/ tx # e.tx => accepted'[b][tx] = accepted[b][tx]
  BY <1>5, <1>6 DEF CanAccept, Inv, TypeOK
<1>11. SlotsInv'
  <2>1. ASSUME NEW b \in Chains, NEW tx \in TxHashes, accepted'[b][tx] # NoTransfer
        PROVE  LET g == accepted'[b][tx]
               IN  /\ g.tx = tx /\ g.origin # b
                   /\ \E h \in AllEvents : VersionOf(g, h)
                   /\ \/ Original(Contract[g.nft]) \in crossed[b]
                      \/ Contract[g.nft] \in sideTokens[b]
    <3>1. CASE b = c /\ tx = e.tx
      BY <1>3, <1>4, <1>5, <1>6, <1>10, <3>1 DEF CanAccept
    <3>2. CASE b # c \/ tx # e.tx
      BY <1>10, <2>1, <3>2 DEF Inv, SlotsInv
    <3> QED
      BY <3>1, <3>2
  <2>2. ASSUME NEW b \in Chains, NEW h \in claimed[b]
        PROVE  /\ h.tx \in TxHashes /\ accepted'[b][h.tx] # NoTransfer
               /\ h = DataHash(accepted'[b][h.tx])
    <3>1. /\ h.tx \in TxHashes /\ accepted[b][h.tx] # NoTransfer
          /\ h = DataHash(accepted[b][h.tx])
      BY DEF Inv, SlotsInv
    <3>2. accepted'[b][h.tx] = accepted[b][h.tx]
      BY <1>10, <3>1
    <3> QED
      BY <3>1, <3>2
  <2> QED
    BY <1>6, <1>9, <2>1, <2>2 DEF SlotsInv
<1> QED
  BY <1>6, <1>7, <1>8, <1>11, OthersStay

(* New side tokens and administration only make more transfers possible.    *)
LEMMA AdministeringStays ==
    ASSUME Inv, NEW c \in Chains, NewSideToken(c) \/ Administer(c)
    PROVE  Inv' /\ UNCHANGED [nft \in Nfts |-> PlaceOf(nft)]
<1>1. UNCHANGED <<crossed, accepted, claimed, events, withUsers, minted, ether>>
  BY DEF NewSideToken, CreateSideNFTToken, Administer, SetPaused, SetUpgrading, SetFixedFee
<1>2. AllEvents' = AllEvents
  BY <1>1 DEF AllEvents
<1>3. TypeOK' /\ \A d \in Chains : sideTokens[d] \subseteq sideTokens'[d]
  <2>1. CASE NewSideToken(c)
    BY <1>1, <2>1 DEF NewSideToken, CreateSideNFTToken, adminVars, Inv, TypeOK
  <2>2. CASE Administer(c)
    BY <1>1, <2>2 DEF Administer, SetPaused, SetUpgrading, SetFixedFee, Inv, TypeOK
  <2> QED
    BY <2>1, <2>2
<1>4. SlotsInv' /\ HomesInv'
  BY <1>1, <1>2, <1>3 DEF Inv, SlotsInv, HomesInv
<1> QED
  BY <1>1, <1>3, <1>4, OthersStay
-----------------------------------------------------------------------------
(* The travels                                                              *)

(* Where a token is, from the three places that it can be in.               *)
LEMMA Places ==
    ASSUME NEW n, NEW c
    PROVE  /\ n \in withUsers => PlaceOf(n) = [chain |-> Home[Contract[n]], arrived |-> TRUE]
           /\ n \notin withUsers /\ MintedOn(n) = {c} => PlaceOf(n) = [chain |-> c, arrived |-> TRUE]
           /\ \A e : n \notin withUsers /\ MintedOn(n) = {} /\ InFlight(n) = {e}
                 => PlaceOf(n) = [chain |-> Other(e.origin), arrived |-> FALSE]
BY DEF PlaceOf

(* The place depends on nothing else.                                       *)
LEMMA SamePlace ==
    ASSUME NEW n, InFlight(n)' = InFlight(n), MintedOn(n)' = MintedOn(n),
           n \in withUsers' <=> n \in withUsers
    PROVE  PlaceOf(n)' = PlaceOf(n)
<1>1. CASE n \in withUsers
  BY <1>1 DEF PlaceOf
<1>2. CASE n \notin withUsers
  BY <1>2 DEF PlaceOf
<1> QED
  BY <1>1, <1>2

(* A crossing departs from the chain where the token is.                    *)
LEMMA CrossingDeparts ==
    ASSUME Inv, NEW c \in Chains, Cross(c)
    PROVE  Inv' /\ Travel!Next
<1>1. PICK nft \in Nfts, value \in Values, tx \in TxHashes, block \in Blocks :
          ReceiveTokensTo(c, nft, value, tx, block)
  BY DEF Cross
<1>2. /\ Inv'
      /\ \E e \in Events : e.origin = c /\ InFlight(nft)' = {e}
      /\ MintedOn(nft)' = {} /\ nft \notin withUsers'
      /\ \A n \in Nfts \ {nft} : /\ InFlight(n)' = InFlight(n)
                                /\ MintedOn(n)' = MintedOn(n)
                                /\ (n \in withUsers' <=> n \in withUsers)
      /\ \/ nft \in withUsers /\ Home[Contract[nft]] = c
         \/ nft \notin withUsers /\ MintedOn(nft) = {c}
  BY <1>1, CrossingLeaves
<1>3. PlaceOf(nft) = [chain |-> c, arrived |-> TRUE]
  BY <1>2, Places
<1>4. PlaceOf(nft)' = [chain |-> Other(c), arrived |-> FALSE]
  BY <1>2 DEF PlaceOf
<1>5. ASSUME NEW n \in Nfts \ {nft} PROVE PlaceOf(n)' = PlaceOf(n)
  <2>1. InFlight(n)' = InFlight(n)
    BY <1>2
  <2>2. MintedOn(n)' = MintedOn(n)
    BY <1>2
  <2>3. n \in withUsers' <=> n \in withUsers
    BY <1>2
  <2> QED
    BY <2>1, <2>2, <2>3, SamePlace
<1>6. Other(c) \in Chains /\ Other(c) # c
  BY NFTBridgeConstants DEF Other
<1>7. Travel!Depart(nft, c, Other(c))
  BY <1>3, <1>4, <1>5, <1>6 DEF Travel!Depart, Travel!There, Travel!OnTheWay
<1> QED
  BY <1>2, <1>6, <1>7 DEF Travel!Next

(* A claim arrives at the chain where it is made.                           *)
LEMMA ClaimArrives ==
    ASSUME Inv, NEW c \in Chains, NEW tx \in TxHashes, Claim(c, tx)
    PROVE  Inv' /\ Travel!Next
<1>1. Inv'
  BY ClaimingArrives
<1>2. PICK nft \in Nfts :
          /\ \E f \in Events : /\ InFlight(nft) = {f}
                              /\ f.origin \in Chains /\ f.origin # c
          /\ nft \notin withUsers /\ MintedOn(nft) = {}
          /\ \/ nft \in withUsers' /\ MintedOn(nft)' = {} /\ Home[Contract[nft]] = c
             \/ nft \notin withUsers' /\ MintedOn(nft)' = {c}
          /\ \A n \in Nfts \ {nft} : /\ InFlight(n)' = InFlight(n)
                                    /\ MintedOn(n)' = MintedOn(n)
                                    /\ (n \in withUsers' <=> n \in withUsers)
  BY ClaimingArrives
<1>3. PlaceOf(nft) = [chain |-> c, arrived |-> FALSE]
  BY <1>2, Places, TwoChains
<1>4. PlaceOf(nft)' = [chain |-> c, arrived |-> TRUE]
  BY <1>2 DEF PlaceOf
<1>5. ASSUME NEW n \in Nfts \ {nft} PROVE PlaceOf(n)' = PlaceOf(n)
  <2>1. InFlight(n)' = InFlight(n)
    BY <1>2
  <2>2. MintedOn(n)' = MintedOn(n)
    BY <1>2
  <2>3. n \in withUsers' <=> n \in withUsers
    BY <1>2
  <2> QED
    BY <2>1, <2>2, <2>3, SamePlace
<1>6. Travel!Arrive(nft, c)
  BY <1>3, <1>4, <1>5 DEF Travel!Arrive, Travel!There, Travel!OnTheWay
<1> QED
  BY <1>1, <1>6 DEF Travel!Next

(* A reorganisation moves no token.                                         *)
LEMMA ReorganisationRests ==
    ASSUME Inv, NEW c \in Chains, NEW tx \in TxHashes, NEW block \in Blocks, Reorganise(c, tx, block)
    PROVE  Inv' /\ UNCHANGED [nft \in Nfts |-> PlaceOf(nft)]
<1>1. /\ Inv' /\ withUsers' = withUsers
      /\ \A n \in Nfts : /\ InFlight(n)' = {Move(f, tx, block) : f \in InFlight(n)}
                          /\ MintedOn(n)' = MintedOn(n)
  BY ReorganisingStays
<1>2. ASSUME NEW n \in Nfts PROVE PlaceOf(n)' = PlaceOf(n)
  <2>1. CASE n \in withUsers \/ MintedOn(n) # {}
    BY <1>1, <2>1 DEF PlaceOf
  <2>2. CASE n \notin withUsers /\ MintedOn(n) = {}
    <3>1. PICK e \in InFlight(n) : InFlight(n) = {e}
      BY <2>2 DEF Inv, OnePlace
    <3>2. Move(e, tx, block).origin = e.origin
      BY ReorganisationMoves DEF InFlight
    <3>3. InFlight(n)' = {Move(e, tx, block)}
      BY <1>1, <3>1
    <3> QED
      BY <1>1, <2>2, <3>1, <3>2, <3>3 DEF PlaceOf
  <2> QED
    BY <2>1, <2>2
<1> QED
  BY <1>1, <1>2

(* Every step of the bridges keeps the invariant, and is a step of a        *)
(* travel or none.                                                          *)
LEMMA TravelStep ==
    ASSUME Inv, [Next]_nftVars
    PROVE  Inv' /\ [Travel!Next]_([nft \in Nfts |-> PlaceOf(nft)])
<1>1. ASSUME NEW c \in Chains, Relay(c) \/ NewSideToken(c) \/ Administer(c)
      PROVE  Inv' /\ UNCHANGED [nft \in Nfts |-> PlaceOf(nft)]
  BY <1>1, AcceptingStays, AdministeringStays
<1>2. CASE UNCHANGED nftVars
  BY <1>2, OthersStay DEF nftVars, Inv, TypeOK, SlotsInv, HomesInv, AllEvents
<1> QED
  BY <1>1, <1>2, CrossingDeparts, ClaimArrives, ReorganisationRests DEF Next

(* At first every token is with a user at home.                             *)
LEMMA TravelInit == Init => Inv /\ Travel!Init
<1> SUFFICES ASSUME Init PROVE Inv /\ Travel!Init
  OBVIOUS
<1>1. AllEvents = {} /\ \A n : InFlight(n) = {} /\ MintedOn(n) = {}
  BY DEF Init, AllEvents, InFlight, MintedOn
<1>2. EventsInv
  BY <1>1, FS_EmptySet DEF Init, EventsInv, SameTx
<1>3. TypeOK
  BY NFTBridgeConstants DEF Init, TypeOK
<1>4. \A n \in Nfts : OnePlace(n) /\ PlaceOf(n) = [chain |-> Home[Contract[n]], arrived |-> TRUE]
  BY <1>1 DEF Init, OnePlace, PlaceOf
<1>5. Travel!Init
  BY <1>4 DEF Travel!Init, Travel!There
<1> QED
  BY <1>2, <1>3, <1>4, <1>5 DEF Init, Inv, SlotsInv, HomesInv

(* The invariant of the NFT bridges, which the theorems below follow from.  *)
LEMMA NFTInv == Spec => []Inv
BY TravelInit, TravelStep, PTL DEF Spec

(* The state of both NFT bridges keeps its type; in particular a log never  *)
(* has a number beyond the events of its transaction.                       *)
THEOREM NFTTypes == Spec => []TypeOK
<1>1. Inv => TypeOK
  BY DEF Inv
<1> QED
  BY <1>1, NFTInv, PTL

(* Every NFT exists once, through any number of crossings, repeated reports *)
(* and reorganisations: what NFTBridge.sol keeps and hands out, burns and   *)
(* mints is always the same token.                                          *)
THEOREM OneHolderCorrect == Spec => []OneHolder
<1>1. Inv => OneHolder
  <2> SUFFICES ASSUME Inv, NEW nft \in Nfts
               PROVE  Cardinality(InFlight(nft)) + Cardinality(MintedOn(nft))
                         + (IF nft \in withUsers THEN 1 ELSE 0) = 1
    BY DEF OneHolder
  <2>1. Cardinality({}) = 0 /\ \A x : Cardinality({x}) = 1
    BY FS_EmptySet, FS_Singleton
  <2>2. CASE nft \in withUsers /\ MintedOn(nft) = {} /\ InFlight(nft) = {}
    BY <2>1, <2>2
  <2>3. ASSUME nft \notin withUsers, InFlight(nft) = {}, NEW c \in Chains, MintedOn(nft) = {c}
        PROVE  Cardinality(InFlight(nft)) + Cardinality(MintedOn(nft))
                  + (IF nft \in withUsers THEN 1 ELSE 0) = 1
    <3>1. Cardinality(InFlight(nft)) = 0 /\ Cardinality(MintedOn(nft)) = 1
      BY <2>1, <2>3
    <3> QED
      BY <2>3, <3>1
  <2>4. ASSUME nft \notin withUsers, MintedOn(nft) = {}, NEW e, InFlight(nft) = {e}
        PROVE  Cardinality(InFlight(nft)) + Cardinality(MintedOn(nft))
                  + (IF nft \in withUsers THEN 1 ELSE 0) = 1
    <3>1. Cardinality(InFlight(nft)) = 1 /\ Cardinality(MintedOn(nft)) = 0
      BY <2>1, <2>4
    <3> QED
      BY <2>4, <3>1
  <2> QED
    BY <2>2, <2>3, <2>4 DEF Inv, OnePlace
<1> QED
  BY <1>1, NFTInv, PTL

(* An accepted transfer stays claimable: the original is in the bridge that *)
(* hands it out, or the side token has a contract and no holder.            *)
THEOREM AcceptedCorrect == Spec => []AcceptedCanBeClaimed
<1>1. Inv => AcceptedCanBeClaimed
  <2> SUFFICES ASSUME Inv, NEW c \in Chains, NEW tx \in TxHashes, CanClaim(c, tx)
               PROVE  LET nft == accepted[c][tx].nft
                      IN  IF Original(Contract[nft]) \in crossed[c]
                          THEN Home[Contract[nft]] = c /\ nft \notin withUsers
                          ELSE Contract[nft] \in sideTokens[c] /\ nft \notin minted[c]
    BY DEF AcceptedCanBeClaimed
  <2>1. PICK e : e = accepted[c][tx]
    OBVIOUS
  <2>2. e # NoTransfer /\ e \in Events
    BY <2>1 DEF CanClaim, Inv, TypeOK
  <2>3. Original(Contract[e.nft]) \in crossed[c] \/ Contract[e.nft] \in sideTokens[c]
    BY <2>1, <2>2 DEF Inv, SlotsInv
  <2>4. InFlight(e.nft) # {}
    BY <2>1, ClaimedIsInSlot
  <2>5. e.nft \in Nfts /\ Contract[e.nft] \in Tokens
    BY <2>2, EventFields
  <2>6. e.nft \notin withUsers /\ MintedOn(e.nft) = {}
    BY <2>4, <2>5 DEF Inv, OnePlace
  <2> QED
    BY <2>1, <2>3, <2>5, <2>6 DEF Inv, HomesInv, MintedOn
<1> QED
  BY <1>1, NFTInv, PTL

(* The two NFT bridges implement the travels: a crossing departs, a claim   *)
(* arrives at the other chain, and no other step moves a token.             *)
THEOREM TravelCorrect == Spec => ImplementsNFTTravel
BY TravelInit, TravelStep, NFTInv, PTL DEF Spec, ImplementsNFTTravel, Travel!Spec
=============================================================================
