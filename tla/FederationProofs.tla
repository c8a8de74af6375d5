-------------------------- MODULE FederationProofs --------------------------
(* Proofs about the Federation contract, for any chains, accounts and       *)
(* transfers.                                                               *)
EXTENDS Federation, FiniteSetTheorems, TLAPS

(* Replacing the removed address by the last one and popping the array       *)
(* removes exactly that address and keeps the array free of duplicates.      *)
LEMMA SwapAndPopRemoves ==
    ASSUME NEW S, NEW s \in Seq(S), IsInjective(s), NEW a \in Range(s)
    PROVE  /\ SwapAndPop(s, a) \in Seq(S)
           /\ Len(SwapAndPop(s, a)) = Len(s) - 1
           /\ IsInjective(SwapAndPop(s, a))
           /\ Range(SwapAndPop(s, a)) = Range(s) \ {a}
<1>. DEFINE n == Len(s)
            t == SwapAndPop(s, a)
<1>1. PICK k \in 1..n : s[k] = a
  BY DEF Range
<1>2. \A i \in 1..n : s[i] = a <=> i = k
  BY <1>1 DEF IsInjective
<1>3. n \in Nat /\ n >= 1 /\ \A i \in 1..n : s[i] \in S
  BY <1>1
<1>4. \A i \in 1..(n - 1) : t[i] = IF i = k THEN s[n] ELSE s[i]
  <2>. SUFFICES ASSUME NEW i \in 1..(n - 1)
                PROVE  t[i] = IF i = k THEN s[n] ELSE s[i]
    OBVIOUS
  <2>1. t[i] = IF s[i] = a /\ \A j \in 1..(i - 1) : s[j] # a THEN s[n] ELSE s[i]
    BY DEF SwapAndPop
  <2>2. CASE i = k
    <3>1. \A j \in 1..(i - 1) : s[j] # a
      BY <1>2, <1>3, <2>2
    <3>. QED
      BY <1>1, <2>1, <2>2, <3>1
  <2>3. CASE i # k
    BY <1>2, <1>3, <2>1, <2>3
  <2>. QED
    BY <2>2, <2>3
<1>5. DOMAIN t = 1..(n - 1)
  BY DEF SwapAndPop
<1>6. t \in Seq(S) /\ Len(t) = n - 1
  <2>1. t \in [1..(n - 1) -> S]
    BY <1>3, <1>4, <1>5 DEF SwapAndPop
  <2>. QED
    BY <1>3, <1>5, <2>1
<1>7. IsInjective(t)
  BY <1>2, <1>3, <1>4, <1>5 DEF IsInjective
<1>8. Range(t) = Range(s) \ {a}
  <2>1. ASSUME NEW i \in 1..(n - 1)
        PROVE  t[i] \in Range(s) \ {a}
    BY <1>1, <1>2, <1>3, <1>4, <2>1 DEF Range
  <2>2. ASSUME NEW i \in 1..n, i # k
        PROVE  s[i] \in Range(t)
    <3>1. CASE i < n
      <4>1. i \in 1..(n - 1) /\ t[i] = s[i]
        BY <1>3, <1>4, <2>2, <3>1
      <4>. QED
        BY <1>5, <4>1 DEF Range
    <3>2. CASE i = n
      <4>1. k \in 1..(n - 1) /\ t[k] = s[i]
        BY <1>3, <1>4, <2>2, <3>2
      <4>. QED
        BY <1>5, <4>1 DEF Range
    <3>. QED
      BY <1>3, <3>1, <3>2
  <2>. QED
    BY <1>2, <1>5, <2>1, <2>2 DEF Range
<1>. QED
  BY <1>6, <1>7, <1>8

(* Pushing an element adds it to the range of the array.                     *)
LEMMA AppendAdds ==
    ASSUME NEW S, NEW s \in Seq(S), NEW a \in S
    PROVE  Range(Append(s, a)) = Range(s) \cup {a}
<1>. DEFINE t == Append(s, a)
            n == Len(s)
<1>1. n \in Nat /\ DOMAIN s = 1..n
  OBVIOUS
<1>2. DOMAIN t = 1..(n + 1) /\ t[n + 1] = a /\ \A i \in 1..n : t[i] = s[i]
  OBVIOUS
<1>. HIDE DEF t, n
<1>3. ASSUME NEW i \in 1..(n + 1)
      PROVE  t[i] \in Range(s) \cup {a}
  <2>1. CASE i = n + 1
    BY <1>2, <2>1
  <2>2. CASE i \in 1..n
    BY <1>1, <1>2, <2>2 DEF Range
  <2>. QED
    BY <1>1, <2>1, <2>2
<1>4. ASSUME NEW i \in 1..n
      PROVE  s[i] \in Range(t)
  <2>1. i \in 1..(n + 1) /\ t[i] = s[i]
    BY <1>1, <1>2
  <2>. QED
    BY <1>2, <2>1 DEF Range
<1>5. a \in Range(t)
  <2>1. n + 1 \in 1..(n + 1)
    BY <1>1
  <2>. QED
    BY <1>2, <2>1 DEF Range
<1>6. Range(t) \subseteq Range(s) \cup {a}
  BY <1>2, <1>3 DEF Range
<1>7. Range(s) \subseteq Range(t)
  BY <1>1, <1>4 DEF Range
<1>8. Range(t) = Range(s) \cup {a}
  BY <1>5, <1>6, <1>7
<1>. QED
  BY <1>8 DEF t

(* Scanning an array without duplicates by index counts the elements of V.  *)
LEMMA CountByIndex ==
    ASSUME NEW S, NEW s \in Seq(S), IsInjective(s), NEW V
    PROVE  /\ IsFiniteSet(V \cap Range(s))
           /\ Cardinality({i \in DOMAIN s : s[i] \in V})
              = Cardinality(V \cap Range(s))
<1>. DEFINE I == {i \in DOMAIN s : s[i] \in V}
            T == V \cap Range(s)
            f == [i \in I |-> s[i]]
<1>1. IsFiniteSet(I)
  <2>1. DOMAIN s = 1..Len(s) /\ Len(s) \in Nat
    OBVIOUS
  <2>2. IsFiniteSet(1..Len(s))
    BY <2>1, FS_Interval
  <2>3. I \in SUBSET (1..Len(s))
    BY <2>1
  <2>. QED
    BY <2>2, <2>3, FS_Subset
<1>2. f \in Bijection(I, T)
  BY DEF Bijection, Injection, Surjection, IsInjective, Range
<1>3. ExistsBijection(I, T)
  BY <1>2 DEF ExistsBijection
<1>. QED
  BY <1>1, <1>3, FS_Bijection

-----------------------------------------------------------------------------

(* A list of MemberLists is a sequence without duplicates.                  *)
LEMMA MemberListsAreLists ==
    ASSUME NEW s \in MemberLists
    PROVE  /\ s \in Seq(Addresses)
           /\ Len(s) \in 1..MaxMembers
           /\ IsInjective(s)
<1>1. PICK n \in 1..MaxMembers : s \in [1..n -> Addresses]
  BY DEF MemberLists
<1>2. n \in Nat
  BY <1>1, FedConstants
<1>. QED
  BY <1>1, <1>2 DEF MemberLists

-----------------------------------------------------------------------------
(* Membership and types *)

MembersInv == TypeOK /\ MembersConsistent

LEMMA MembersInit == Init => MembersInv
<1>. SUFFICES ASSUME Init PROVE MembersInv
  OBVIOUS
<1>1. TypeOK
  <2>1. members \in [Chains -> Seq(Addresses)]
    BY MemberListsAreLists DEF Init
  <2>2. isMember \in [Chains -> SUBSET Addresses]
    BY <2>1 DEF Init, Range
  <2>3. required \in [Chains -> Nat]
    BY FedConstants DEF Init
  <2>4. votes \in [Chains -> [Ids -> SUBSET Addresses]]
    BY DEF Init
  <2>5. processed \in [Chains -> SUBSET Ids]
    BY DEF Init, Ids
  <2>6. bridge \in [Chains -> [TokenTypes -> Bridges]]
    BY DEF Init
  <2>7. delivered \in [Chains -> [Txs -> Seq(Bridges)]]
    BY DEF Init
  <2>. QED
    BY <2>1, <2>2, <2>3, <2>4, <2>5, <2>6, <2>7 DEF TypeOK
<1>2. MembersConsistent
  <2>. SUFFICES ASSUME NEW c \in Chains
                PROVE  /\ Range(members[c]) = isMember[c]
                       /\ IsInjective(members[c])
                       /\ required[c] \in 1..Len(members[c])
                       /\ Len(members[c]) <= MaxMembers
    BY DEF MembersConsistent
  <2>1. members[c] \in MemberLists
    BY DEF Init
  <2>2. required[c] \in 1..MaxMembers /\ required[c] <= Len(members[c])
    BY DEF Init
  <2>3. Len(members[c]) \in 1..MaxMembers /\ IsInjective(members[c])
    BY <2>1, MemberListsAreLists
  <2>. QED
    BY <2>2, <2>3, FedConstants DEF Init
<1>. QED
  BY <1>1, <1>2 DEF MembersInv

LEMMA TypeStep == TypeOK /\ MembersConsistent /\ [Next]_fedVars => TypeOK'
<1>. SUFFICES ASSUME TypeOK, MembersConsistent, [Next]_fedVars PROVE TypeOK'
  OBVIOUS
<1>. USE DEF TypeOK
<1>1. ASSUME NEW c \in Chains, NEW m \in Addresses, NEW tx \in Txs,
             NEW type \in TokenTypes, NEW ok \in BOOLEAN,
             VoteTransaction(c, m, tx, type, ok)
      PROVE  TypeOK'
  <2>1. votes' \in [Chains -> [Ids -> SUBSET Addresses]]
    BY <1>1 DEF VoteTransaction, WithVote, Ids
  <2>2. processed' \in [Chains -> SUBSET Ids]
    <3>1. CASE UNCHANGED processed
      BY <3>1
    <3>2. CASE AcceptTransfer(c, tx, type)
      BY <3>2 DEF AcceptTransfer, Ids
    <3>. QED
      BY <1>1, <3>1, <3>2 DEF VoteTransaction
  <2>3. delivered' \in [Chains -> [Txs -> Seq(Bridges)]]
    <3>1. CASE UNCHANGED delivered
      BY <3>1
    <3>2. CASE AcceptTransfer(c, tx, type)
      <4>1. Append(delivered[c][tx], bridge[c][type]) \in Seq(Bridges)
        OBVIOUS
      <4>. QED
        BY <3>2, <4>1 DEF AcceptTransfer
    <3>. QED
      BY <1>1, <3>1, <3>2 DEF VoteTransaction
  <2>. QED
    BY <1>1, <2>1, <2>2, <2>3 DEF VoteTransaction, govVars
<1>2. ASSUME NEW c \in Chains, NEW a \in Addresses, AddMember(c, a)
      PROVE  TypeOK'
  BY <1>2 DEF AddMember, voteVars
<1>3. ASSUME NEW c \in Chains, NEW a \in Addresses, RemoveMember(c, a)
      PROVE  TypeOK'
  <2>1. SwapAndPop(members[c], a) \in Seq(Addresses)
    BY <1>3, SwapAndPopRemoves DEF RemoveMember, MembersConsistent
  <2>. QED
    BY <1>3, <2>1 DEF RemoveMember, voteVars
<1>4. ASSUME NEW c \in Chains, NEW n \in 1..MaxMembers, ChangeRequirement(c, n)
      PROVE  TypeOK'
  BY <1>4, FedConstants DEF ChangeRequirement, voteVars
<1>5. ASSUME NEW c \in Chains, NEW type \in TokenTypes, NEW b \in Bridges,
             SetBridge(c, type, b)
      PROVE  TypeOK'
  BY <1>5 DEF SetBridge, voteVars
<1>6. CASE UNCHANGED fedVars
  BY <1>6 DEF fedVars
<1>. QED
  BY <1>1, <1>2, <1>3, <1>4, <1>5, <1>6 DEF Next, Vote, Govern

LEMMA MembersStep ==
    TypeOK /\ MembersConsistent /\ [Next]_fedVars => MembersConsistent'
<1>. SUFFICES ASSUME TypeOK, MembersConsistent, [Next]_fedVars,
                     NEW d \in Chains
              PROVE  (/\ Range(members[d]) = isMember[d]
                      /\ IsInjective(members[d])
                      /\ required[d] \in 1..Len(members[d])
                      /\ Len(members[d]) <= MaxMembers)'
  BY DEF MembersConsistent
<1>. USE DEF TypeOK
<1>0. /\ Range(members[d]) = isMember[d]
      /\ IsInjective(members[d])
      /\ required[d] \in 1..Len(members[d])
      /\ Len(members[d]) <= MaxMembers
  BY DEF MembersConsistent
<1>1. ASSUME NEW a \in Addresses, AddMember(d, a)
      PROVE  (/\ Range(members[d]) = isMember[d]
              /\ IsInjective(members[d])
              /\ required[d] \in 1..Len(members[d])
              /\ Len(members[d]) <= MaxMembers)'
  <2>. DEFINE s == members[d]
              t == Append(s, a)
  <2>1. members'[d] = t /\ isMember'[d] = isMember[d] \cup {a}
    BY <1>1 DEF AddMember
  <2>2. s \in Seq(Addresses) /\ a \notin Range(s)
    BY <1>0, <1>1 DEF AddMember
  <2>3. /\ Len(t) = Len(s) + 1 /\ DOMAIN t = 1..(Len(s) + 1)
        /\ t[Len(s) + 1] = a /\ \A i \in 1..Len(s) : t[i] = s[i]
    BY <2>2
  <2>4. IsInjective(t)
    BY <1>0, <2>2, <2>3 DEF IsInjective, Range
  <2>5. Range(t) = Range(s) \cup {a}
    BY <2>2, AppendAdds
  <2>6. required'[d] = required[d] /\ Len(s) < MaxMembers
    BY <1>1 DEF AddMember, voteVars
  <2>7. required[d] \in 1..Len(t) /\ Len(t) <= MaxMembers
    BY <1>0, <2>2, <2>3, <2>6, FedConstants
  <2>. QED
    BY <1>0, <2>1, <2>4, <2>5, <2>6, <2>7
<1>2. ASSUME NEW a \in Addresses, RemoveMember(d, a)
      PROVE  (/\ Range(members[d]) = isMember[d]
              /\ IsInjective(members[d])
              /\ required[d] \in 1..Len(members[d])
              /\ Len(members[d]) <= MaxMembers)'
  <2>. DEFINE s == members[d]
              t == SwapAndPop(s, a)
  <2>1. members'[d] = t /\ isMember'[d] = isMember[d] \ {a}
    BY <1>2 DEF RemoveMember
  <2>2. /\ t \in Seq(Addresses) /\ Len(t) = Len(s) - 1
        /\ IsInjective(t) /\ Range(t) = Range(s) \ {a}
    BY <1>0, <1>2, SwapAndPopRemoves DEF RemoveMember
  <2>3. required'[d] = required[d] /\ Len(s) - 1 >= required[d]
    BY <1>2 DEF RemoveMember, voteVars
  <2>. QED
    BY <1>0, <2>1, <2>2, <2>3, FedConstants
<1>3. ASSUME NEW n \in 1..MaxMembers, ChangeRequirement(d, n)
      PROVE  (/\ Range(members[d]) = isMember[d]
              /\ IsInjective(members[d])
              /\ required[d] \in 1..Len(members[d])
              /\ Len(members[d]) <= MaxMembers)'
  BY <1>0, <1>3, FedConstants DEF ChangeRequirement, voteVars
<1>4. CASE UNCHANGED <<members[d], isMember[d], required[d]>>
  BY <1>0, <1>4
<1>5. \/ \E a \in Addresses : AddMember(d, a) \/ RemoveMember(d, a)
      \/ \E n \in 1..MaxMembers : ChangeRequirement(d, n)
      \/ UNCHANGED <<members[d], isMember[d], required[d]>>
  <2>1. ASSUME NEW c \in Chains, Vote(c)
        PROVE  UNCHANGED <<members[d], isMember[d], required[d]>>
    BY <2>1 DEF Vote, VoteTransaction, govVars
  <2>2. ASSUME NEW c \in Chains, NEW a \in Addresses,
               AddMember(c, a) \/ RemoveMember(c, a), c # d
        PROVE  UNCHANGED <<members[d], isMember[d], required[d]>>
    BY <2>2 DEF AddMember, RemoveMember
  <2>3. ASSUME NEW c \in Chains, NEW n \in 1..MaxMembers,
               ChangeRequirement(c, n), c # d
        PROVE  UNCHANGED <<members[d], isMember[d], required[d]>>
    BY <2>3 DEF ChangeRequirement
  <2>4. ASSUME NEW c \in Chains, NEW type \in TokenTypes, NEW b \in Bridges,
               SetBridge(c, type, b)
        PROVE  UNCHANGED <<members[d], isMember[d], required[d]>>
    BY <2>4 DEF SetBridge
  <2>5. CASE UNCHANGED fedVars
    BY <2>5 DEF fedVars
  <2>. QED
    BY <2>1, <2>2, <2>3, <2>4, <2>5 DEF Next, Govern
<1>. QED
  BY <1>1, <1>2, <1>3, <1>4, <1>5

(* The members array and the isMember mapping always agree, without          *)
(* duplicates, and leave room for the required number of votes.             *)
THEOREM MembersCorrect == Spec => [](TypeOK /\ MembersConsistent)
<1>1. Init => TypeOK /\ MembersConsistent
  BY MembersInit DEF MembersInv
<1>2. TypeOK /\ MembersConsistent /\ [Next]_fedVars
      => (TypeOK /\ MembersConsistent)'
  BY TypeStep, MembersStep
<1>. QED
  BY <1>1, <1>2, PTL DEF Spec

-----------------------------------------------------------------------------
(* Delivery *)

DeliveryInv == TypeOK /\ DeliveredOnce /\ NoReplayAfterUpgrade

LEMMA DeliveryStep ==
    TypeOK /\ DeliveredOnce /\ NoReplayAfterUpgrade /\ [Next]_fedVars
    => DeliveredOnce' /\ NoReplayAfterUpgrade'
<1>. SUFFICES ASSUME TypeOK, DeliveredOnce, NoReplayAfterUpgrade, [Next]_fedVars
              PROVE  DeliveredOnce' /\ NoReplayAfterUpgrade'
  OBVIOUS
<1>1. ASSUME NEW c \in Chains, NEW tx \in Txs, NEW type \in TokenTypes,
             ~IsProcessed(c, tx), AcceptTransfer(c, tx, type)
      PROVE  DeliveredOnce' /\ NoReplayAfterUpgrade'
  <2>1. delivered[c][tx] = <<>> /\ LegacyOf(tx) \notin processed[c]
    BY <1>1 DEF IsProcessed, DeliveredOnce
  <2>2. /\ delivered'[c][tx] = Append(<<>>, bridge[c][type])
        /\ \A d \in Chains, t \in Txs :
              d # c \/ t # tx => delivered'[d][t] = delivered[d][t]
    BY <1>1, <2>1 DEF AcceptTransfer, TypeOK
  <2>3. /\ processed'[c] = processed[c] \cup {tx}
        /\ \A d \in Chains : d # c => processed'[d] = processed[d]
    BY <1>1 DEF AcceptTransfer, TypeOK
  <2>4. delivered'[c][tx] # <<>> /\ Len(delivered'[c][tx]) <= 1
    BY <2>2 DEF TypeOK
  <2>5. DeliveredOnce'
    <3>. SUFFICES ASSUME NEW d \in Chains, NEW t \in Txs
                  PROVE  /\ Len(delivered'[d][t]) <= 1
                         /\ (t \in processed'[d] <=> delivered'[d][t] # <<>>)
      BY DEF DeliveredOnce
    <3>1. CASE d = c /\ t = tx
      <4>1. Len(delivered'[d][t]) <= 1
        BY <2>4, <3>1, Zenon
      <4>2. t \in processed'[d] /\ delivered'[d][t] # <<>>
        BY <2>3, <2>4, <3>1
      <4>. QED
        BY <4>1, <4>2
    <3>2. CASE d # c \/ t # tx
      <4>1. /\ delivered'[d][t] = delivered[d][t]
            /\ (t \in processed'[d] <=> t \in processed[d])
        BY <2>2, <2>3, <3>2
      <4>. QED
        BY <4>1 DEF DeliveredOnce
    <3>. QED
      BY <3>1, <3>2
  <2>6. \A t \in Txs : LegacyOf(t) # tx
    BY FedConstants
  <2>7. NoReplayAfterUpgrade'
    BY <2>1, <2>2, <2>3, <2>6 DEF NoReplayAfterUpgrade
  <2>. QED
    BY <2>5, <2>7
<1>2. CASE UNCHANGED <<processed, delivered>>
  BY <1>2 DEF DeliveredOnce, NoReplayAfterUpgrade
<1>3. \/ UNCHANGED <<processed, delivered>>
      \/ \E c \in Chains, tx \in Txs, type \in TokenTypes :
            ~IsProcessed(c, tx) /\ AcceptTransfer(c, tx, type)
  BY DEF Next, Vote, Govern, VoteTransaction, AddMember, RemoveMember,
         ChangeRequirement, SetBridge, voteVars, fedVars
<1>. QED
  BY <1>1, <1>2, <1>3

LEMMA DeliveryInit == Init => DeliveredOnce /\ NoReplayAfterUpgrade
<1>. SUFFICES ASSUME Init PROVE DeliveredOnce /\ NoReplayAfterUpgrade
  OBVIOUS
<1>1. \A c \in Chains, tx \in Txs : delivered[c][tx] = <<>> /\ tx \notin processed[c]
  BY FedConstants DEF Init
<1>. QED
  BY <1>1 DEF DeliveredOnce, NoReplayAfterUpgrade

(* Every transfer is delivered at most once, exactly when it is marked       *)
(* processed, and never again after contract v3 processed it.               *)
THEOREM DeliveryCorrect == Spec => [](DeliveredOnce /\ NoReplayAfterUpgrade)
<1>1. Init => DeliveryInv
  BY DeliveryInit, MembersInit DEF DeliveryInv, MembersInv
<1>2. TypeOK /\ MembersConsistent /\ DeliveryInv /\ [Next]_fedVars => DeliveryInv'
  BY DeliveryStep, TypeStep DEF DeliveryInv
<1>3. DeliveryInv => DeliveredOnce /\ NoReplayAfterUpgrade
  BY DEF DeliveryInv
<1>. QED
  BY <1>1, <1>2, <1>3, MembersCorrect, PTL DEF Spec

(* In particular, what contract v3 released under the legacy id is never    *)
(* released again by voteTransaction after the upgrade.                     *)
THEOREM ReplayCorrect == Spec => []NoReplayAfterUpgrade
  BY DeliveryCorrect, PTL

-----------------------------------------------------------------------------
(* Quorums *)

(* validateTransaction counts exactly the current members that voted, and   *)
(* requires a strict majority of them besides the required number.          *)
LEMMA ValidateIsQuorum ==
    ASSUME TypeOK, MembersConsistent, NEW c \in Chains, NEW tx \in Txs, NEW v
    PROVE  LET V == (v[c][tx] \cup v[c][LegacyOf(tx)]) \cap isMember[c]
           IN  ValidateTransaction(c, tx, v)
               <=> /\ Cardinality(V) >= required[c]
                   /\ 2 * Cardinality(V) > Cardinality(isMember[c])
<1>. DEFINE W == v[c][tx] \cup v[c][LegacyOf(tx)]
            s == members[c]
            k == Cardinality({i \in DOMAIN s : s[i] \in W})
<1>1. s \in Seq(Addresses) /\ IsInjective(s) /\ Range(s) = isMember[c]
  BY DEF TypeOK, MembersConsistent
<1>2. /\ IsFiniteSet(W \cap isMember[c])
      /\ k = Cardinality(W \cap isMember[c])
  BY <1>1, CountByIndex
<1>3. Cardinality(isMember[c]) = Len(s)
  <2>1. {i \in DOMAIN s : s[i] \in Range(s)} = 1..Len(s)
    BY <1>1 DEF Range
  <2>2. Cardinality(1..Len(s)) = Len(s)
    BY <1>1, FS_Interval
  <2>3. Cardinality({i \in DOMAIN s : s[i] \in Range(s)})
        = Cardinality(Range(s) \cap Range(s))
    BY <1>1, CountByIndex
  <2>. QED
    BY <1>1, <2>1, <2>2, <2>3
<1>4. k \in Nat /\ Len(s) \in Nat
  BY <1>1, <1>2, FS_CardinalityType
<1>5. k >= (Len(s) \div 2) + 1 <=> 2 * k > Len(s)
  <2>. HIDE DEF k, s
  <2>. QED
    BY <1>4
<1>6. ValidateTransaction(c, tx, v)
      <=> k >= (Len(s) \div 2) + 1 /\ k >= required[c]
  BY DEF ValidateTransaction, GetMinimalNumberOfVotes
<1>. QED
  BY <1>2, <1>3, <1>5, <1>6

LEMMA MembersAreFinite ==
    ASSUME TypeOK, MembersConsistent, NEW c \in Chains
    PROVE  IsFiniteSet(isMember[c])
<1>1. /\ members[c] \in Seq(Addresses)
      /\ IsInjective(members[c])
      /\ Range(members[c]) = isMember[c]
  BY DEF TypeOK, MembersConsistent
<1>2. IsFiniteSet(isMember[c] \cap isMember[c])
  BY <1>1, CountByIndex
<1>. QED
  BY <1>2

(* The vote that validates a transfer leaves it with enough votes, the vote *)
(* that does not leaves it without.                                         *)
LEMMA VoteOutcome ==
    ASSUME TypeOK, MembersConsistent, NEW c \in Chains, NEW m \in Addresses,
           NEW tx \in Txs, votes' = WithVote(c, m, tx), UNCHANGED govVars
    PROVE  ValidateTransaction(c, tx, WithVote(c, m, tx)) <=> EnoughVotes(c, tx)'
<1>1. isMember' = isMember /\ required' = required
  BY DEF govVars
<1>. QED
  BY <1>1, ValidateIsQuorum DEF EnoughVotes, Voters

LEMMA QuorumStep ==
    ASSUME TypeOK, MembersConsistent, [Next]_fedVars, NEW c \in Chains, NEW tx \in Txs,
           delivered'[c][tx] # delivered[c][tx]
    PROVE  EnoughVotes(c, tx)'
<1>1. PICK d \in Chains : Vote(d)
  BY DEF Next, Govern, AddMember, RemoveMember, ChangeRequirement, SetBridge,
         voteVars, fedVars
<1>2. PICK m \in Addresses, t \in Txs, type \in TokenTypes, ok \in BOOLEAN :
         VoteTransaction(d, m, t, type, ok)
  BY <1>1 DEF Vote
<1>3. /\ ValidateTransaction(d, t, WithVote(d, m, t))
      /\ AcceptTransfer(d, t, type)
  BY <1>2 DEF VoteTransaction
<1>4. d = c /\ t = tx
  BY <1>3 DEF AcceptTransfer, TypeOK
<1>. QED
  BY <1>2, <1>3, <1>4, VoteOutcome DEF VoteTransaction

(* Every delivery is backed by the required number and a strict majority of *)
(* the members of that moment.                                              *)
THEOREM QuorumCorrect == Spec => QuorumBehindDelivery
<1>1. TypeOK /\ MembersConsistent /\ [Next]_fedVars
      => [\A c \in Chains, tx \in Txs :
            delivered'[c][tx] # delivered[c][tx] => EnoughVotes(c, tx)']_fedVars
  BY QuorumStep
<1>. QED
  BY <1>1, MembersCorrect, PTL DEF Spec, QuorumBehindDelivery

(* Votes alone never leave a transfer with a quorum and unprocessed.        *)
THEOREM StrandingCorrect == Spec => OnlyGovernanceStrands
<1>1. TypeOK /\ MembersConsistent /\ [Next]_fedVars
      => [\A c \in Chains, tx \in Txs :
            Stranded(c, tx)' /\ UNCHANGED govVars => Stranded(c, tx)]_fedVars
  <2>. SUFFICES ASSUME TypeOK, MembersConsistent, [Next]_fedVars,
                       NEW c \in Chains, NEW tx \in Txs,
                       Stranded(c, tx)', UNCHANGED govVars
                PROVE  Stranded(c, tx)
    OBVIOUS
  <2>1. CASE UNCHANGED voteVars
    BY <2>1 DEF Stranded, EnoughVotes, Voters, IsProcessed, govVars, voteVars
  <2>2. ASSUME NEW d \in Chains, NEW m \in Addresses, NEW t \in Txs,
               NEW type \in TokenTypes, NEW ok \in BOOLEAN,
               VoteTransaction(d, m, t, type, ok)
        PROVE  Stranded(c, tx)
    <3>1. LegacyOf(tx) # t /\ LegacyOf(tx) \in Ids /\ tx \in Ids
      BY FedConstants DEF Ids
    <3>2. processed[c] \subseteq processed'[c]
      BY <2>2 DEF VoteTransaction, AcceptTransfer, TypeOK
    <3>3. CASE c # d \/ t # tx
      <4>1. /\ votes'[c][tx] = votes[c][tx]
            /\ votes'[c][LegacyOf(tx)] = votes[c][LegacyOf(tx)]
        BY <2>2, <3>1, <3>3 DEF VoteTransaction, WithVote, TypeOK
      <4>. QED
        BY <3>2, <4>1 DEF Stranded, EnoughVotes, Voters, IsProcessed, govVars
    <3>4. CASE c = d /\ t = tx
      <4>1. EnoughVotes(d, t)' /\ ~IsProcessed(d, t)'
        BY <3>4 DEF Stranded
      <4>2. AcceptTransfer(d, t, type)
        BY <2>2, <4>1, VoteOutcome DEF VoteTransaction
      <4>3. t \in processed'[d]
        BY <4>2 DEF AcceptTransfer, TypeOK
      <4>. QED
        BY <4>1, <4>3 DEF IsProcessed
    <3>. QED
      BY <3>3, <3>4
  <2>3. UNCHANGED voteVars \/ \E d \in Chains : Vote(d)
    BY DEF Next, Govern, AddMember, RemoveMember, ChangeRequirement, SetBridge,
           voteVars, fedVars
  <2>. QED
    BY <2>1, <2>2, <2>3 DEF Vote
<1>. QED
  BY <1>1, MembersCorrect, PTL DEF Spec, OnlyGovernanceStrands

-----------------------------------------------------------------------------
(* Conflicting readings of an event *)

(* Votes are never taken back: while nobody governs, a quorum stays one.    *)
LEMMA QuorumStays ==
    ASSUME TypeOK, MembersConsistent, [FixedNext]_fedVars, NEW c \in Chains, NEW tx \in Txs,
           EnoughVotes(c, tx)
    PROVE  EnoughVotes(c, tx)'
<1>1. UNCHANGED govVars
  BY DEF FixedNext, Vote, VoteTransaction, fedVars, govVars
<1>2. \A id \in Ids : votes[c][id] \subseteq votes'[c][id]
  <2>1. CASE UNCHANGED fedVars
    BY <2>1 DEF fedVars
  <2>2. ASSUME NEW d \in Chains, NEW m \in Addresses, NEW t \in Txs,
               votes' = WithVote(d, m, t)
        PROVE  \A id \in Ids : votes[c][id] \subseteq votes'[c][id]
    BY <2>2 DEF WithVote, TypeOK
  <2>. QED
    BY <2>1, <2>2 DEF FixedNext, Vote, VoteTransaction
<1>3. tx \in Ids /\ LegacyOf(tx) \in Ids
  BY FedConstants DEF Ids
<1>4. Voters(c, tx) \subseteq Voters(c, tx)'
  BY <1>1, <1>2, <1>3 DEF Voters, govVars
<1>5. Voters(c, tx)' \subseteq isMember[c]
  BY <1>1 DEF Voters, govVars
<1>6. IsFiniteSet(isMember[c])
  BY MembersAreFinite
<1>7. /\ IsFiniteSet(Voters(c, tx)')
      /\ Cardinality(Voters(c, tx)) <= Cardinality(Voters(c, tx)')
  BY <1>4, <1>5, <1>6, FS_Subset
<1>8. /\ Cardinality(Voters(c, tx)) \in Nat
      /\ Cardinality(Voters(c, tx)') \in Nat
      /\ Cardinality(isMember[c]) \in Nat
      /\ required[c] \in Nat
  BY <1>4, <1>6, <1>7, FS_Subset, FS_CardinalityType DEF TypeOK
<1>9. isMember' = isMember /\ required' = required
  BY <1>1 DEF govVars
<1>. QED
  BY <1>7, <1>8, <1>9 DEF EnoughVotes

Decided == \A c \in Chains, tx \in Txs : delivered[c][tx] # <<>> => EnoughVotes(c, tx)

(* Two strict majorities of the same members have a member in common.       *)
LEMMA MajoritiesMeet ==
    ASSUME TypeOK, MembersConsistent, Decided
    PROVE  ConflictNeedsDoubleVote
<1>. SUFFICES ASSUME NEW c \in Chains, NEW tx1 \in Txs, NEW tx2 \in Txs,
                     delivered[c][tx1] # <<>>, delivered[c][tx2] # <<>>
              PROVE  Voters(c, tx1) \cap Voters(c, tx2) # {}
  BY DEF ConflictNeedsDoubleVote
<1>. DEFINE M == isMember[c]
            A == Voters(c, tx1)
            B == Voters(c, tx2)
<1>1. 2 * Cardinality(A) > Cardinality(M) /\ 2 * Cardinality(B) > Cardinality(M)
  BY DEF Decided, EnoughVotes
<1>2. A \subseteq M /\ B \subseteq M
  BY DEF Voters
<1>3. IsFiniteSet(M)
  BY MembersAreFinite
<1>4. Cardinality(A) \in Nat /\ Cardinality(B) \in Nat /\ Cardinality(M) \in Nat
  BY <1>2, <1>3, FS_Subset, FS_CardinalityType
<1>5. Cardinality(A) + Cardinality(B) > Cardinality(M)
  <2>. HIDE DEF A, B, M
  <2>. QED
    BY <1>1, <1>4
<1>. QED
  BY <1>2, <1>3, <1>5, FS_MajoritiesIntersect

(* Without governance, two readings of one event are delivered both only if *)
(* a member voted for both.                                                 *)
THEOREM ConflictCorrect == FixedSpec => []ConflictNeedsDoubleVote
<1>1. Init => TypeOK /\ MembersConsistent /\ Decided
  <2>1. Init => TypeOK /\ MembersConsistent
    BY MembersInit DEF MembersInv
  <2>2. Init => \A c \in Chains, tx \in Txs : delivered[c][tx] = <<>>
    BY DEF Init
  <2>. QED
    BY <2>1, <2>2 DEF Decided
<1>2. [FixedNext]_fedVars => [Next]_fedVars
  BY DEF FixedNext, Next
<1>3. TypeOK /\ MembersConsistent /\ [FixedNext]_fedVars
      => (TypeOK /\ MembersConsistent)'
  BY <1>2, TypeStep, MembersStep
<1>4. TypeOK /\ MembersConsistent /\ Decided /\ [FixedNext]_fedVars => Decided'
  <2>. SUFFICES ASSUME TypeOK, MembersConsistent, Decided, [FixedNext]_fedVars,
                       NEW c \in Chains, NEW tx \in Txs, delivered'[c][tx] # <<>>
                PROVE  EnoughVotes(c, tx)'
    BY DEF Decided
  <2>1. CASE delivered'[c][tx] = delivered[c][tx]
    BY <2>1, QuorumStays DEF Decided
  <2>2. CASE delivered'[c][tx] # delivered[c][tx]
    BY <2>2, <1>2, QuorumStep
  <2>. QED
    BY <2>1, <2>2
<1>. QED
  BY <1>1, <1>3, <1>4, MajoritiesMeet, PTL DEF FixedSpec
=============================================================================
