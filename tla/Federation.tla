----------------------------- MODULE Federation -----------------------------
(***************************************************************************)
(* The Federation contract (bridge/contracts/Federation/Federation.sol),   *)
(* deployed once on every chain.  Its members vote for the transfers they  *)
(* saw on the other chain; the vote that completes a quorum calls          *)
(* acceptTransfer of the bridge on this chain, inside the same             *)
(* transaction.  The owner may add and remove members, change the number   *)
(* of required votes and point the contract to another bridge.             *)
(*                                                                         *)
(* A call that reverts has no effect, so it is a step that does not        *)
(* happen: every require() is a guard.  A call that returns early is a     *)
(* stuttering step.  A transaction id is a keccak hash of the transfer's   *)
(* fields and is modelled by the transfer itself (no collisions).          *)
(***************************************************************************)
EXTENDS AddressArray

CONSTANTS
    Chains,       \* the chains; each has one Federation contract
    Addresses,    \* the accounts that may ever be federators (none is null)
    MaxMembers,   \* MAX_MEMBER_COUNT, 50 in the code
    Txs,          \* multichain transaction ids (getTransactionId)
    LegacyIds,    \* ids of contract v3, that hash no chain ids
    LegacyOf(_),  \* the legacy id of a transfer
    TokenTypes,   \* TokenType.COIN and TokenType.NFT
    Bridges       \* contracts that setBridge and setNFTBridge may name

Ids == Txs \cup LegacyIds

ASSUME FedConstants ==
    /\ MaxMembers \in Nat \ {0}
    /\ Txs \cap LegacyIds = {}
    /\ \A tx \in Txs : LegacyOf(tx) \in LegacyIds
    /\ IsFiniteSet(Addresses)

VARIABLES
    members,      \* the array of members of each chain's federation
    isMember,     \* the addresses mapped to true by isMember
    required,     \* the votes needed, besides a majority
    votes,        \* votes[c][id]: the addresses with votes[id][address] = true
    processed,    \* the ids mapped to true by processed
    bridge,       \* bridge[c][t]: the contract that accepts transfers of type t
    delivered     \* history: the bridges whose acceptTransfer(tx) succeeded

govVars  == <<members, isMember, required, bridge>>
voteVars == <<votes, processed, delivered>>
fedVars  == <<members, isMember, required, votes, processed, bridge, delivered>>

-----------------------------------------------------------------------------
(* initialize() of a new contract, or the storage an upgrade from v3 keeps: *)
(* members without duplicates, and votes and marks under legacy ids only.   *)
MemberLists ==
    {s \in UNION {[1..n -> Addresses] : n \in 1..MaxMembers} : IsInjective(s)}

Init ==
    /\ members \in [Chains -> MemberLists]
    /\ isMember = [c \in Chains |-> Range(members[c])]
    /\ required \in [Chains -> 1..MaxMembers]
    /\ \A c \in Chains : required[c] <= Len(members[c])
    /\ \E old \in [Chains -> [LegacyIds -> SUBSET Addresses]] :
          votes = [c \in Chains |->
                      [id \in Ids |-> IF id \in LegacyIds THEN old[c][id] ELSE {}]]
    /\ processed \in [Chains -> SUBSET LegacyIds]
    /\ bridge \in [Chains -> [TokenTypes -> Bridges]]
    /\ delivered = [c \in Chains |-> [tx \in Txs |-> <<>>]]

-----------------------------------------------------------------------------
(* Voting *)

(* Mutants for TLC: a check that knows only one of the two ids. *)
IsProcessedLegacyOnly(c, tx) == LegacyOf(tx) \in processed[c]
IsProcessedNewOnly(c, tx) == tx \in processed[c]

IsProcessed(c, tx) == {tx, LegacyOf(tx)} \cap processed[c] # {}

IsVoted(c, tx, m) == m \in votes[c][tx] \cup votes[c][LegacyOf(tx)]

(* Mutant: half of the members is no majority. *)
HalfOfTheVotes(c) == Len(members[c]) \div 2

GetMinimalNumberOfVotes(c) == (Len(members[c]) \div 2) + 1

(* Mutant: one vote too many is required. *)
ValidateTransactionLate(c, tx, v) ==
    LET amountVotes == Cardinality({i \in DOMAIN members[c] :
                           members[c][i] \in v[c][tx] \cup v[c][LegacyOf(tx)]})
    IN  amountVotes >= GetMinimalNumberOfVotes(c) /\ amountVotes > required[c]

(* The members array is scanned by index; a member counts once if it voted  *)
(* under either id.  v is the votes mapping the scan reads.                 *)
ValidateTransaction(c, tx, v) ==
    LET amountVotes == Cardinality({i \in DOMAIN members[c] :
                           members[c][i] \in v[c][tx] \cup v[c][LegacyOf(tx)]})
    IN  /\ amountVotes >= GetMinimalNumberOfVotes(c)
        /\ amountVotes >= required[c]

WithVote(c, m, tx) == [votes EXCEPT ![c][tx] = @ \cup {m}]

(* acceptTransfer of the bridge registered for the type, when it succeeds.  *)
AcceptTransfer(c, tx, type) ==
    /\ processed' = [processed EXCEPT ![c] = @ \cup {tx}]
    /\ delivered' = [delivered EXCEPT ![c][tx] = Append(@, bridge[c][type])]

(* voteTransaction by m.  bridgeAccepts says whether the bridge's           *)
(* acceptTransfer would succeed now; when it would revert, the completing   *)
(* vote reverts with it and is not recorded.                                *)
VoteTransaction(c, m, tx, type, bridgeAccepts) ==
    /\ m \in isMember[c]
    /\ ~IsProcessed(c, tx)
    /\ ~IsVoted(c, tx, m)
    /\ votes' = WithVote(c, m, tx)
    /\ \/ /\ ~ValidateTransaction(c, tx, WithVote(c, m, tx))
          /\ UNCHANGED <<processed, delivered>>
       \/ /\ ValidateTransaction(c, tx, WithVote(c, m, tx))
          /\ bridgeAccepts
          /\ AcceptTransfer(c, tx, type)
    /\ UNCHANGED govVars

-----------------------------------------------------------------------------
(* Governance: calls of the owner *)

(* Mutant: the address may be a member already. *)
AddMemberAgain(c, a) ==
    /\ Len(members[c]) < MaxMembers
    /\ isMember' = [isMember EXCEPT ![c] = @ \cup {a}]
    /\ members' = [members EXCEPT ![c] = Append(@, a)]
    /\ UNCHANGED <<required, bridge, voteVars>>

AddMember(c, a) ==
    /\ a \notin isMember[c]
    /\ Len(members[c]) < MaxMembers
    /\ isMember' = [isMember EXCEPT ![c] = @ \cup {a}]
    /\ members' = [members EXCEPT ![c] = Append(@, a)]
    /\ UNCHANGED <<required, bridge, voteVars>>

RemoveMember(c, a) ==
    /\ a \in isMember[c]
    /\ Len(members[c]) > 1
    /\ Len(members[c]) - 1 >= required[c]
    /\ isMember' = [isMember EXCEPT ![c] = @ \ {a}]
    /\ members' = [members EXCEPT ![c] = SwapAndPop(@, a)]
    /\ UNCHANGED <<required, bridge, voteVars>>

ChangeRequirement(c, n) ==
    /\ n <= Len(members[c])
    /\ n >= 2
    /\ required' = [required EXCEPT ![c] = n]
    /\ UNCHANGED <<members, isMember, bridge, voteVars>>

(* setBridge and setNFTBridge *)
SetBridge(c, type, b) ==
    /\ bridge' = [bridge EXCEPT ![c][type] = b]
    /\ UNCHANGED <<members, isMember, required, voteVars>>

-----------------------------------------------------------------------------
Vote(c) ==
    \E m \in Addresses, tx \in Txs, type \in TokenTypes, ok \in BOOLEAN :
        VoteTransaction(c, m, tx, type, ok)

Govern(c) ==
    \/ \E a \in Addresses : AddMember(c, a)
    \/ \E a \in Addresses : RemoveMember(c, a)
    \/ \E n \in 1..MaxMembers : ChangeRequirement(c, n)
    \/ \E type \in TokenTypes, b \in Bridges : SetBridge(c, type, b)

Next == \E c \in Chains : Vote(c) \/ Govern(c)

Spec == Init /\ [][Next]_fedVars

(* The contract while its owner does nothing. *)
FixedNext == \E c \in Chains : Vote(c)

FixedSpec == Init /\ [][FixedNext]_fedVars

-----------------------------------------------------------------------------
(* Properties *)

(* Every variable holds a value of its Solidity type. *)
TypeOK ==
    /\ members \in [Chains -> Seq(Addresses)]
    /\ isMember \in [Chains -> SUBSET Addresses]
    /\ required \in [Chains -> Nat]
    /\ votes \in [Chains -> [Ids -> SUBSET Addresses]]
    /\ processed \in [Chains -> SUBSET Ids]
    /\ bridge \in [Chains -> [TokenTypes -> Bridges]]
    /\ delivered \in [Chains -> [Txs -> Seq(Bridges)]]

(* The members array and the isMember mapping, kept separately by          *)
(* addMember and removeMember, describe the same set, the array has no      *)
(* duplicate (validateTransaction would count it twice), and enough members *)
(* are left to reach the required number of votes.                          *)
MembersConsistent ==
    \A c \in Chains :
        /\ Range(members[c]) = isMember[c]
        /\ IsInjective(members[c])
        /\ required[c] \in 1..Len(members[c])
        /\ Len(members[c]) <= MaxMembers

(* voteTransaction marks a transfer processed exactly when a bridge         *)
(* accepted it, and no transfer is ever delivered twice, whatever happens   *)
(* to members and bridge in between.                                        *)
DeliveredOnce ==
    \A c \in Chains, tx \in Txs :
        /\ Len(delivered[c][tx]) <= 1
        /\ (tx \in processed[c] <=> delivered[c][tx] # <<>>)

(* A transfer that contract v3 already released is not released again by    *)
(* v4 under its new id.                                                     *)
NoReplayAfterUpgrade ==
    \A c \in Chains, tx \in Txs :
        LegacyOf(tx) \in processed[c] => delivered[c][tx] = <<>>

Voters(c, tx) == (votes[c][tx] \cup votes[c][LegacyOf(tx)]) \cap isMember[c]

EnoughVotes(c, tx) ==
    /\ Cardinality(Voters(c, tx)) >= required[c]
    /\ 2 * Cardinality(Voters(c, tx)) > Cardinality(isMember[c])

(* Whenever a bridge is told to accept a transfer, the required number and  *)
(* a strict majority of the accounts that are members at that moment have   *)
(* voted for it: votes of removed members and repeated votes never count.   *)
QuorumBehindDelivery ==
    [][\A c \in Chains, tx \in Txs :
          delivered'[c][tx] # delivered[c][tx] => EnoughVotes(c, tx)']_fedVars

(* A transfer is stranded when it has the votes but was not processed: only *)
(* a further vote would deliver it, and its voters cannot vote again.       *)
Stranded(c, tx) == EnoughVotes(c, tx) /\ ~IsProcessed(c, tx)

(* Votes alone never strand a transfer: the vote that completes the quorum  *)
(* either delivers or reverts.  Only a governance call can strand one.      *)
OnlyGovernanceStrands ==
    [][\A c \in Chains, tx \in Txs :
          Stranded(c, tx)' /\ UNCHANGED govVars => Stranded(c, tx)]_fedVars

(* While the members stay the same, two readings of one event (same legacy  *)
(* id, different chain ids) are delivered both only if some member voted    *)
(* for both: the quorums of voteTransaction intersect.                      *)
ConflictNeedsDoubleVote ==
    \A c \in Chains : \A tx1, tx2 \in Txs :
        tx1 # tx2 /\ LegacyOf(tx1) = LegacyOf(tx2)
        /\ delivered[c][tx1] # <<>> /\ delivered[c][tx2] # <<>>
        => Voters(c, tx1) \cap Voters(c, tx2) # {}
=============================================================================
