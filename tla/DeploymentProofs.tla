-------------------------- MODULE DeploymentProofs --------------------------
(***************************************************************************)
(* Theorems about Deployment, for any number of commands, of interruptions *)
(* and of administration scripts; and about MultiSigWallet, to which the   *)
(* deployment hands the contracts over, for every set of accounts, every   *)
(* maximum of owners and any number of transactions.                       *)
(***************************************************************************)
EXTENDS MultiSigWallet, Deployment, SequenceTheorems, FiniteSetTheorems, TLAPS

-----------------------------------------------------------------------------
(* The wallet                                                                *)

(* Replacing the removed address by the last one and popping the array       *)
(* removes exactly that address and keeps the array free of duplicates.      *)
LEMMA SwapAndPopRemoves ==
    ASSUME NEW S, NEW s \in Seq(S), IsInjective(s), NEW a \in Range(s)
    PROVE  /\ SwapAndPop(s, a) \in Seq(S)
           /\ Len(SwapAndPop(s, a)) = Len(s) - 1
           /\ IsInjective(SwapAndPop(s, a))
           /\ Range(SwapAndPop(s, a)) = Range(s) \ {a}
<1>. DEFINE n == Len(s)
            t == SwapAndPop(s, a)
<1>1. PICK k \in 1..n : s[k] = a
  BY DEF Range
<1>2. \A i \in 1..n : s[i] = a <=> i = k
  BY <1>1 DEF IsInjective
<1>3. n \in Nat /\ n >= 1 /\ \A i \in 1..n : s[i] \in S
  BY <1>1
<1>4. \A i \in 1..(n - 1) : t[i] = IF i = k THEN s[n] ELSE s[i]
  <2>. SUFFICES ASSUME NEW i \in 1..(n - 1)
                PROVE  t[i] = IF i = k THEN s[n] ELSE s[i]
    OBVIOUS
  <2>1. t[i] = IF s[i] = a /\ \A j \in 1..(i - 1) : s[j] # a THEN s[n] ELSE s[i]
    BY DEF SwapAndPop
  <2>2. CASE i = k
    <3>1. \A j \in 1..(i - 1) : s[j] # a
      BY <1>2, <1>3, <2>2
    <3>. QED
      BY <1>1, <2>1, <2>2, <3>1
  <2>3. CASE i # k
    BY <1>2, <1>3, <2>1, <2>3
  <2>. QED
    BY <2>2, <2>3
<1>5. DOMAIN t = 1..(n - 1)
  BY DEF SwapAndPop
<1>6. t \in Seq(S) /\ Len(t) = n - 1
  <2>1. t \in [1..(n - 1) -> S]
    BY <1>3, <1>4, <1>5 DEF SwapAndPop
  <2>. QED
    BY <1>3, <1>5, <2>1
<1>7. IsInjective(t)
  BY <1>2, <1>3, <1>4, <1>5 DEF IsInjective
<1>8. Range(t) = Range(s) \ {a}
  <2>1. ASSUME NEW i \in 1..(n - 1)
        PROVE  t[i] \in Range(s) \ {a}
    BY <1>1, <1>2, <1>3, <1>4, <2>1 DEF Range
  <2>2. ASSUME NEW i \in 1..n, i # k
        PROVE  s[i] \in Range(t)
    <3>1. CASE i < n
      <4>1. i \in 1..(n - 1) /\ t[i] = s[i]
        BY <1>3, <1>4, <2>2, <3>1
      <4>. QED
        BY <1>5, <4>1 DEF Range
    <3>2. CASE i = n
      <4>1. k \in 1..(n - 1) /\ t[k] = s[i]
        BY <1>3, <1>4, <2>2, <3>2
      <4>. QED
        BY <1>5, <4>1 DEF Range
    <3>. QED
      BY <1>3, <3>1, <3>2
  <2>. QED
    BY <1>2, <1>5, <2>1, <2>2 DEF Range
<1>. QED
  BY <1>6, <1>7, <1>8

(* Pushing an element adds it to the range of the array.                     *)
LEMMA AppendAdds ==
    ASSUME NEW S, NEW s \in Seq(S), NEW a \in S
    PROVE  Range(Append(s, a)) = Range(s) \cup {a}
<1>. DEFINE t == Append(s, a)
            n == Len(s)
<1>1. n \in Nat /\ DOMAIN s = 1..n
  OBVIOUS
<1>2. DOMAIN t = 1..(n + 1) /\ t[n + 1] = a /\ \A i \in 1..n : t[i] = s[i]
  OBVIOUS
<1>. HIDE DEF t, n
<1>3. ASSUME NEW i \in 1..(n + 1)
      PROVE  t[i] \in Range(s) \cup {a}
  <2>1. CASE i = n + 1
    BY <1>2, <2>1
  <2>2. CASE i \in 1..n
    BY <1>1, <1>2, <2>2 DEF Range
  <2>. QED
    BY <1>1, <2>1, <2>2
<1>4. ASSUME NEW i \in 1..n
      PROVE  s[i] \in Range(t)
  <2>1. i \in 1..(n + 1) /\ t[i] = s[i]
    BY <1>1, <1>2
  <2>. QED
    BY <1>2, <2>1 DEF Range
<1>5. a \in Range(t)
  <2>1. n + 1 \in 1..(n + 1)
    BY <1>1
  <2>. QED
    BY <1>2, <2>1 DEF Range
<1>6. Range(t) \subseteq Range(s) \cup {a}
  BY <1>2, <1>3 DEF Range
<1>7. Range(s) \subseteq Range(t)
  BY <1>1, <1>4 DEF Range
<1>8. Range(t) = Range(s) \cup {a}
  BY <1>5, <1>6, <1>7
<1>. QED
  BY <1>8 DEF t

(* Scanning an array without duplicates by index counts the elements of V.  *)
LEMMA CountByIndex ==
    ASSUME NEW S, NEW s \in Seq(S), IsInjective(s), NEW V
    PROVE  /\ IsFiniteSet(V \cap Range(s))
           /\ Cardinality({i \in DOMAIN s : s[i] \in V})
              = Cardinality(V \cap Range(s))
<1>. DEFINE I == {i \in DOMAIN s : s[i] \in V}
            T == V \cap Range(s)
            f == [i \in I |-> s[i]]
<1>1. IsFiniteSet(I)
  <2>1. DOMAIN s = 1..Len(s) /\ Len(s) \in Nat
    OBVIOUS
  <2>2. IsFiniteSet(1..Len(s))
    BY <2>1, FS_Interval
  <2>3. I \in SUBSET (1..Len(s))
    BY <2>1
  <2>. QED
    BY <2>2, <2>3, FS_Subset
<1>2. f \in Bijection(I, T)
  BY DEF Bijection, Injection, Surjection, IsInjective, Range
<1>3. ExistsBijection(I, T)
  BY <1>2 DEF ExistsBijection
<1>. QED
  BY <1>1, <1>3, FS_Bijection

-----------------------------------------------------------------------------

OwnersInv == TypeOK /\ OwnersConsistent

LEMMA OwnersInit == Init => OwnersInv
<1>. SUFFICES ASSUME Init PROVE OwnersInv
  OBVIOUS
<1>1. PICK n \in 1..MaxOwners : owners \in [1..n -> Addresses]
  BY DEF Init, OwnerLists
<1>2. owners \in Seq(Accounts) /\ IsInjective(owners) /\ Range(owners) \subseteq Accounts
  <2>1. owners \in Seq(Accounts)
    BY <1>1, WalletConstants DEF Accounts
  <2>2. Range(owners) \subseteq Accounts
    BY <1>1 DEF Range, Accounts
  <2>. QED
    BY <2>1, <2>2 DEF Init, OwnerLists
<1>3. transactions \in Seq(Calls) /\ Len(transactions) <= MaxTxs
  BY WalletConstants DEF Init
<1>. QED
  BY <1>2, <1>3 DEF Init, OwnersInv, TypeOK, OwnersConsistent

(* What a call that does not revert does to the owners. *)
LEMMA CallKeepsOwners ==
    ASSUME OwnersInv, NEW call \in Calls, MayCall(call), Call(call)
    PROVE  /\ owners' \in Seq(Accounts)
           /\ isOwner' \in SUBSET Accounts
           /\ required' \in Requirements
           /\ OwnersConsistent'
<1>0. /\ owners \in Seq(Accounts) /\ isOwner \in SUBSET Accounts /\ required \in Requirements
      /\ isOwner = Range(owners) /\ IsInjective(owners)
      /\ ValidRequirement(Len(owners), required)
      /\ Len(owners) \in Nat
  BY DEF OwnersInv, TypeOK, OwnersConsistent
<1>. DEFINE Goal == /\ owners' \in Seq(Accounts)
                    /\ isOwner' \in SUBSET Accounts
                    /\ required' \in Requirements
                    /\ OwnersConsistent'
<1>1. ASSUME NEW o \in Accounts, MayAddOwner(o), AddOwner(o) PROVE Goal
  <2>1. /\ owners' = Append(owners, o) /\ isOwner' = isOwner \cup {o} /\ required' = required
        /\ o \notin Range(owners)
    BY <1>0, <1>1 DEF MayAddOwner, AddOwner
  <2>2. Range(owners') = isOwner'
    BY <1>0, <2>1, AppendAdds
  <2>3. owners' \in Seq(Accounts) /\ Len(owners') = Len(owners) + 1
    BY <1>0, <2>1
  <2>4. IsInjective(owners')
    <3>1. DOMAIN owners' = 1..(Len(owners) + 1) /\ owners'[Len(owners) + 1] = o
      BY <1>0, <2>1
    <3>2. \A i \in 1..Len(owners) : owners'[i] = owners[i] /\ owners[i] # o
      BY <1>0, <2>1 DEF Range
    <3>. QED
      BY <1>0, <3>1, <3>2 DEF IsInjective
  <2>5. ValidRequirement(Len(owners'), required')
    BY <1>1, <2>1, <2>3 DEF MayAddOwner
  <2>. QED
    BY <1>0, <2>1, <2>2, <2>3, <2>4, <2>5 DEF OwnersConsistent
<1>2. ASSUME NEW o \in Accounts, MayRemoveOwner(o), RemoveOwner(o) PROVE Goal
  <2>1. /\ owners' = SwapAndPop(owners, o) /\ isOwner' = isOwner \ {o}
        /\ required' = IF required > Len(owners) - 1 THEN Len(owners) - 1 ELSE required
        /\ o \in Range(owners)
    BY <1>0, <1>2 DEF MayRemoveOwner, RemoveOwner
  <2>2. /\ owners' \in Seq(Accounts) /\ Len(owners') = Len(owners) - 1
        /\ IsInjective(owners') /\ Range(owners') = isOwner'
    BY <1>0, <2>1, SwapAndPopRemoves
  <2>3. required' \in Requirements /\ ValidRequirement(Len(owners'), required')
    <3>1. CASE required > Len(owners) - 1
      BY <1>0, <1>2, <2>1, <2>2, <3>1, WalletConstants
      DEF MayRemoveOwner, ValidRequirement, Requirements
    <3>2. CASE ~(required > Len(owners) - 1)
      BY <1>0, <2>1, <2>2, <3>2, WalletConstants DEF ValidRequirement, Requirements
    <3>. QED
      BY <3>1, <3>2
  <2>. QED
    BY <1>0, <2>1, <2>2, <2>3 DEF OwnersConsistent
<1>3. ASSUME NEW o \in Accounts, NEW new \in Accounts,
             MayReplaceOwner(o, new), ReplaceOwner(o, new)
      PROVE  Goal
  <2>1. /\ owners' = [i \in DOMAIN owners |-> IF owners[i] = o THEN new ELSE owners[i]]
        /\ isOwner' = (isOwner \ {o}) \cup {new} /\ required' = required
        /\ o \in Range(owners) /\ new \notin Range(owners)
    BY <1>0, <1>3 DEF MayReplaceOwner, ReplaceOwner
  <2>2. DOMAIN owners = 1..Len(owners) /\ \A i \in 1..Len(owners) : owners[i] \in Accounts
    BY <1>0
  <2>3. owners' \in Seq(Accounts) /\ Len(owners') = Len(owners)
    <3>1. owners' \in [1..Len(owners) -> Accounts]
      BY <2>1, <2>2
    <3>. QED
      BY <3>1, <1>0
  <2>4. IsInjective(owners')
    BY <1>0, <2>1, <2>2 DEF IsInjective, Range
  <2>5. Range(owners') = isOwner'
    BY <1>0, <2>1, <2>2 DEF IsInjective, Range
  <2>. QED
    BY <1>0, <2>1, <2>3, <2>4, <2>5 DEF OwnersConsistent
<1>4. ASSUME NEW n \in Requirements, ValidRequirement(Len(owners), n), ChangeRequirement(n)
      PROVE  Goal
  BY <1>0, <1>4 DEF ChangeRequirement, OwnersConsistent
<1>5. CASE UNCHANGED ownerVars
  BY <1>0, <1>5 DEF ownerVars, OwnersConsistent
<1>6. CASE call \in [op: {"addOwner", "removeOwner"}, owner: Accounts]
  BY <1>1, <1>2, <1>6 DEF MayCall, Call
<1>7. CASE call \in [op: {"replaceOwner"}, owner: Accounts, newOwner: Accounts]
  BY <1>3, <1>7 DEF MayCall, Call
<1>8. CASE call \in [op: {"changeRequirement"}, required: Requirements]
  BY <1>4, <1>8 DEF MayCall, Call
<1>9. CASE call \in [op: {"external"}]
  BY <1>5, <1>9 DEF MayCall, Call
<1>. QED
  BY <1>6, <1>7, <1>8, <1>9 DEF Calls

LEMMA ExecuteKeepsOwners ==
    ASSUME OwnersInv, NEW call \in Calls, NEW id \in TxIds, NEW conf,
           ExecutedOnce, ExecuteIfConfirmed(id, call, conf) \/ ExecuteCall(id, call)
    PROVE  /\ owners' \in Seq(Accounts)
           /\ isOwner' \in SUBSET Accounts
           /\ required' \in Requirements
           /\ OwnersConsistent'
           /\ executed' \in SUBSET TxIds
           /\ executions' \in [TxIds -> Nat]
<1>1. CASE MayCall(call) /\ Call(call) /\ executed' = executed \cup {id}
           /\ executions' = [executions EXCEPT ![id] = @ + 1]
  BY <1>1, CallKeepsOwners DEF OwnersInv, TypeOK
<1>2. CASE UNCHANGED <<ownerVars, executed, executions>>
  BY <1>2 DEF OwnersInv, TypeOK, OwnersConsistent, ownerVars
<1>. QED
  BY <1>1, <1>2 DEF ExecuteIfConfirmed, ExecuteCall

(* A transaction is executed only while it is not marked. *)
LEMMA ExecuteOnce ==
    ASSUME OwnersInv, ExecutedOnce, NEW call \in Calls, NEW id \in TxIds, NEW conf,
           id \notin executed,
           ExecuteIfConfirmed(id, call, conf) \/ ExecuteCall(id, call)
    PROVE  ExecutedOnce'
<1>1. executions \in [TxIds -> Nat] /\ executed \in SUBSET TxIds
  BY DEF OwnersInv, TypeOK
<1>2. CASE executed' = executed \cup {id} /\ executions' = [executions EXCEPT ![id] = @ + 1]
  BY <1>1, <1>2 DEF ExecutedOnce
<1>3. CASE UNCHANGED <<executed, executions>>
  BY <1>3 DEF ExecutedOnce
<1>. QED
  BY <1>2, <1>3 DEF ExecuteIfConfirmed, ExecuteCall

(* Only submitted transactions are executed; with it the invariant is       *)
(* inductive.                                                               *)
WalletInv ==
    /\ OwnersInv
    /\ ExecutedOnce
    /\ executed \subseteq Submitted

LEMMA WalletStep ==
    WalletInv /\ [Next]_walletVars => WalletInv'
<1>. SUFFICES ASSUME WalletInv, [Next]_walletVars PROVE WalletInv'
  OBVIOUS
<1>0. /\ OwnersInv /\ ExecutedOnce /\ executed \subseteq Submitted
      /\ transactions \in Seq(Calls) /\ Len(transactions) \in Nat /\ Len(transactions) <= MaxTxs
      /\ confirmations \in [TxIds -> SUBSET Addresses]
      /\ Submitted = 1..Len(transactions) /\ MaxTxs \in Nat
  BY WalletConstants DEF WalletInv, OwnersInv, TypeOK, Submitted
<1>1. ASSUME NEW o \in Addresses, NEW call \in Offered, SubmitTransaction(o, call)
      PROVE  WalletInv'
  <2>. DEFINE id == Len(transactions) + 1
  <2>1. /\ call \in Calls /\ id \in TxIds /\ id \notin executed
        /\ ExecuteIfConfirmed(id, call, WithConfirmation(o, id))
        /\ transactions' = Append(transactions, call)
        /\ confirmations' = WithConfirmation(o, id)
    BY <1>0, <1>1, WalletConstants DEF SubmitTransaction, TxIds
  <2>2. transactions' \in Seq(Calls) /\ Len(transactions') = id /\ Submitted' = 1..id
    BY <1>0, <2>1 DEF Submitted
  <2>3. confirmations' \in [TxIds -> SUBSET Addresses]
    BY <1>0, <2>1 DEF WithConfirmation
  <2>4. executed' \subseteq executed \cup {id}
    BY <2>1 DEF ExecuteIfConfirmed, ExecuteCall
  <2>5. executed' \subseteq Submitted' /\ Len(transactions') <= MaxTxs
    BY <1>0, <2>1, <2>2, <2>4 DEF TxIds
  <2>. HIDE DEF id
  <2>6. ExecutedOnce'
    BY <1>0, <2>1, ExecuteOnce
  <2>7. OwnersInv'
    BY <1>0, <2>1, <2>2, <2>3, <2>5, ExecuteKeepsOwners DEF OwnersInv, TypeOK
  <2>. QED
    BY <2>5, <2>6, <2>7 DEF WalletInv
<1>2. ASSUME NEW o \in Addresses, NEW id \in Submitted,
             ConfirmTransaction(o, id) \/ ExecuteTransaction(o, id)
      PROVE  WalletInv'
  <2>1. id \in TxIds /\ transactions[id] \in Calls
    BY <1>0 DEF TxIds
  <2>2. /\ id \notin executed
        /\ \/ ExecuteIfConfirmed(id, transactions[id], WithConfirmation(o, id))
           \/ ExecuteCall(id, transactions[id])
        /\ UNCHANGED transactions
    BY <1>2 DEF ConfirmTransaction, ExecuteTransaction, MayExecute
  <2>3. confirmations' \in [TxIds -> SUBSET Addresses]
    BY <1>0, <1>2, <2>1 DEF ConfirmTransaction, ExecuteTransaction, WithConfirmation
  <2>4. executed' \subseteq executed \cup {id}
    BY <2>2 DEF ExecuteIfConfirmed, ExecuteCall
  <2>5. ExecutedOnce'
    BY <1>0, <2>1, <2>2, ExecuteOnce
  <2>6. OwnersInv'
    BY <1>0, <2>1, <2>2, <2>3, ExecuteKeepsOwners DEF OwnersInv, TypeOK
  <2>. QED
    BY <1>0, <2>2, <2>4, <2>5, <2>6 DEF WalletInv, Submitted
<1>3. ASSUME NEW o \in Addresses, NEW id \in Submitted, RevokeConfirmation(o, id)
      PROVE  WalletInv'
  <2>1. UNCHANGED <<ownerVars, transactions, executed, executions>>
    BY <1>3 DEF RevokeConfirmation
  <2>2. confirmations' \in [TxIds -> SUBSET Addresses]
    BY <1>0, <1>3 DEF RevokeConfirmation, TxIds
  <2>. QED
    BY <1>0, <2>1, <2>2
    DEF WalletInv, OwnersInv, TypeOK, OwnersConsistent, ExecutedOnce, Submitted, ownerVars
<1>4. CASE UNCHANGED walletVars
  BY <1>0, <1>4
  DEF WalletInv, OwnersInv, TypeOK, OwnersConsistent, ExecutedOnce, Submitted, walletVars
<1>. QED
  BY <1>1, <1>2, <1>3, <1>4 DEF Next

LEMMA WalletInit == Init => WalletInv
  BY OwnersInit DEF Init, WalletInv, ExecutedOnce, OwnersInv, TypeOK

(* The owners array and the mapping agree, the requirement can be met, and  *)
(* no transaction is executed twice.                                        *)
THEOREM WalletCorrect == Spec => [](TypeOK /\ OwnersConsistent /\ ExecutedOnce)
<1>1. WalletInv => TypeOK /\ OwnersConsistent /\ ExecutedOnce
  BY DEF WalletInv, OwnersInv
<1>. QED
  BY <1>1, WalletInit, WalletStep, PTL DEF Spec

(* In particular, executeTransaction succeeds once at most for each         *)
(* transaction, whatever failures and retries come before.                  *)
THEOREM ExecutedCorrect == Spec => []ExecutedOnce
  BY WalletCorrect, PTL

-----------------------------------------------------------------------------
(* Confirmations *)

(* Counting positions of the array counts owners. *)
LEMMA ConfirmedByOwners ==
    ASSUME OwnersInv, NEW id \in TxIds, NEW conf
    PROVE  IsConfirmed(id, conf) <=> Cardinality(isOwner \cap conf[id]) >= required
<1>1. owners \in Seq(Accounts) /\ IsInjective(owners) /\ isOwner = Range(owners)
  BY DEF OwnersInv, TypeOK, OwnersConsistent
<1>2. Cardinality({i \in DOMAIN owners : owners[i] \in conf[id]})
      = Cardinality(conf[id] \cap Range(owners))
  BY <1>1, CountByIndex
<1>3. conf[id] \cap Range(owners) = isOwner \cap conf[id]
  BY <1>1
<1>. QED
  BY <1>2, <1>3 DEF IsConfirmed

LEMMA QuorumStep ==
    ASSUME WalletInv, [Next]_walletVars, NEW id \in TxIds, executions'[id] # executions[id]
    PROVE  Cardinality(isOwner \cap confirmations'[id]) >= required
<1>0. /\ OwnersInv /\ executions \in [TxIds -> Nat]
      /\ Submitted = 1..Len(transactions) /\ Len(transactions) \in Nat
      /\ Len(transactions) <= MaxTxs /\ MaxTxs \in Nat
  BY WalletConstants DEF WalletInv, OwnersInv, TypeOK, Submitted
<1>1. ASSUME NEW tx \in TxIds, NEW call, NEW conf, IsConfirmed(tx, conf), conf = confirmations',
             ExecuteCall(tx, call)
      PROVE  Cardinality(isOwner \cap confirmations'[id]) >= required
  <2>1. tx = id
    BY <1>0, <1>1 DEF ExecuteCall
  <2>. QED
    BY <1>0, <1>1, <2>1, ConfirmedByOwners
<1>2. ASSUME NEW o \in Addresses, NEW call \in Offered, SubmitTransaction(o, call)
      PROVE  Cardinality(isOwner \cap confirmations'[id]) >= required
  <2>1. Len(transactions) + 1 \in TxIds
        /\ ExecuteIfConfirmed(Len(transactions) + 1, call, confirmations')
    BY <1>2 DEF SubmitTransaction
  <2>. QED
    BY <1>1, <2>1 DEF ExecuteIfConfirmed
<1>3. ASSUME NEW o \in Addresses, NEW tx \in Submitted, ConfirmTransaction(o, tx)
      PROVE  Cardinality(isOwner \cap confirmations'[id]) >= required
  <2>1. tx \in TxIds /\ ExecuteIfConfirmed(tx, transactions[tx], confirmations')
    BY <1>0, <1>3 DEF ConfirmTransaction, TxIds
  <2>. QED
    BY <1>1, <2>1 DEF ExecuteIfConfirmed
<1>4. ASSUME NEW o \in Addresses, NEW tx \in Submitted, ExecuteTransaction(o, tx)
      PROVE  Cardinality(isOwner \cap confirmations'[id]) >= required
  <2>1. /\ tx \in TxIds /\ IsConfirmed(tx, confirmations') /\ ExecuteCall(tx, transactions[tx])
    BY <1>0, <1>4 DEF ExecuteTransaction, TxIds, IsConfirmed
  <2>. QED
    BY <1>1, <2>1
<1>5. ASSUME NEW o \in Addresses, NEW tx \in Submitted, RevokeConfirmation(o, tx)
      PROVE  FALSE
  BY <1>5 DEF RevokeConfirmation
<1>6. ~UNCHANGED walletVars
  BY DEF walletVars
<1>. QED
  BY <1>2, <1>3, <1>4, <1>5, <1>6 DEF Next

(* A call happens only with the required confirmations of the owners of     *)
(* that moment.                                                             *)
THEOREM QuorumCorrect == Spec => QuorumBehindExecution
<1>. DEFINE Step == \A id \in TxIds : executions'[id] # executions[id] =>
                        Cardinality(isOwner \cap confirmations'[id]) >= required
<1>1. WalletInv /\ [Next]_walletVars => [Step]_walletVars
  BY QuorumStep
<1>. QED
  BY <1>1, WalletInit, WalletStep, PTL DEF Spec, QuorumBehindExecution

(* A confirmed transaction can be executed by one of its confirmers, since  *)
(* at least one confirmation is required.                                   *)
THEOREM ExecutableCorrect == Spec => []ConfirmedCanBeExecuted
<1>1. ASSUME WalletInv, NEW id \in Submitted \ executed, IsConfirmed(id, confirmations)
      PROVE  \E o \in Addresses : MayExecute(o, id)
  <2>1. /\ OwnersInv /\ isOwner = Range(owners) /\ owners \in Seq(Accounts)
        /\ required \in Nat /\ required # 0
        /\ confirmations \in [TxIds -> SUBSET Addresses]
        /\ id \in TxIds
    BY <1>1, WalletConstants
    DEF WalletInv, OwnersInv, TypeOK, OwnersConsistent, ValidRequirement, Requirements,
        Submitted, TxIds
  <2>2. {i \in DOMAIN owners : owners[i] \in confirmations[id]} # {}
    <3>1. SUFFICES ASSUME {i \in DOMAIN owners : owners[i] \in confirmations[id]} = {}
                   PROVE  FALSE
      OBVIOUS
    <3>2. Cardinality({i \in DOMAIN owners : owners[i] \in confirmations[id]}) = 0
      BY <3>1, FS_EmptySet
    <3>3. Cardinality({i \in DOMAIN owners : owners[i] \in confirmations[id]}) >= required
      BY <1>1 DEF IsConfirmed
    <3>. QED
      BY <2>1, <3>2, <3>3
  <2>3. PICK i \in DOMAIN owners : owners[i] \in confirmations[id]
    BY <2>2
  <2>4. owners[i] \in isOwner /\ owners[i] \in Addresses
    BY <2>1, <2>3 DEF Range
  <2>5. MayExecute(owners[i], id)
    BY <1>1, <2>3, <2>4, WalletConstants DEF MayExecute, Owner
  <2>. QED
    BY <2>4, <2>5
<1>2. WalletInv => ConfirmedCanBeExecuted
  BY <1>1 DEF ConfirmedCanBeExecuted
<1>. QED
  BY <1>2, WalletInit, WalletStep, PTL DEF Spec

-----------------------------------------------------------------------------
(* The state of a deployment                                                 *)

(* What the proxies hold; the names are those of tokens and federators.      *)
TokenNames == {"listed", "WRBTC", "WBNB", "MainToken", "sideWBNB", "sideRIF"}
MemberNames == {"deployer", "first", "second", "third", "fourth", "fifth", "old", "new"}
FactoryNames == {"old", "new", "earlier"}

BridgeProxies == [logic : {0, 3, 4}, impl : {0, 3, 4}, federation : Nat, allowTokens : Nat,
                  wrapped : {"none", "named", "WRBTC", "WBNB"}, side : SUBSET TokenNames]
FederationProxies == [bridge : Nat, arg : Int, nft : Nat, members : SUBSET MemberNames,
                      required : Nat]
AllowTokensProxies == [bridge : Nat, owner : {"deployer", "multiSig"}, tokens : SUBSET TokenNames]
NftBridgeProxies == [arg : [federation : Nat, factory : FactoryNames], federation : Nat,
                     factory : FactoryNames, side : SUBSET {"drop"}]

(* The recorded proxy of each kind is the one deployed last.                 *)
ContractsInv ==
    /\ bridges \in Seq(BridgeProxies) /\ feds \in Seq(FederationProxies)
    /\ allows \in Seq(AllowTokensProxies) /\ nfts \in Seq(NftBridgeProxies)
    /\ bridge = Len(bridges) /\ fed = Len(feds) /\ allow = Len(allows) /\ nft = Len(nfts)

(* Proxies name proxies that exist.                                          *)
RefsInv ==
    /\ logic \in {0, 3, 4} /\ newly \in BOOLEAN
    /\ admin \in {"deployer", "multiSig"}
    /\ built \subseteq recorded
    /\ primary \in 0..Len(bridges) /\ nftPrimary \in [{"old", "new"} -> 0..Len(nfts)]
    /\ \A i \in 1..Len(bridges) :
          /\ bridges[i].federation \in 0..Len(feds)
          /\ bridges[i].allowTokens \in 0..Len(allows)
    /\ \A i \in 1..Len(feds) :
          feds[i].bridge \in 1..Len(bridges) /\ feds[i].nft \in 0..Len(nfts)
    /\ \A i \in 1..Len(nfts) : nfts[i].federation \in 1..Len(feds)
    /\ \A i \in 1..Len(allows) : allows[i].bridge \in 1..Len(bridges)

Fresh == network \in {"development", "bscmainnet"}
InService == network \in {"bsctestnet", "rinkeby", "kovan"}
NamedInService == network \in {"rinkeby", "kovan"}

(* Where nothing was deployed before there is one bridge, of version 4; where*)
(* version 3 is in service its factory obeys it; what hardhat.config.js names*)
(* stays as it was; and without a record of Bridge none is made.             *)
ServiceInv ==
    /\ network \in Networks
    /\ Fresh => /\ Len(bridges) <= 1
                /\ \A i \in 1..Len(bridges) : bridges[i].logic = 4
    /\ InService => primary = 1
    /\ NamedInService => feds[1].bridge = 1 /\ allows[1].bridge = 1 /\ allows[1].owner = "multiSig"
    /\ network = "ethmainnet" => "Bridge" \notin recorded
    /\ NamedIsProtected

(* A recorded proxy has an implementation with a record, and a bridge a      *)
(* wallet; kovan has none of its federation.                                 *)
RecordsInv ==
    /\ bridge # 0 => {"MultiSigWallet", "Bridge"} \subseteq recorded
    /\ fed # 0 /\ network # "kovan" => "Federation" \in recorded
    /\ allow # 0 => "AllowTokens" \in recorded

(* What a configuration for the NFTs found is not undone.                    *)
NftInv ==
    /\ config \in [bridge : Nat, fed : Nat, allow : Nat, nft : Nat]
    /\ config.nft <= Len(nfts)
    /\ config.nft # 0 => fed # 0
    /\ config.nft # 0 /\ config.nft = nft /\ fed = 1 =>
          /\ feds[1].nft = nft
          /\ nfts[nft].arg.factory = "new" => nftPrimary["new"] = nft

(* ProxyAdmin stays with the deployer only when its script is interrupted.   *)
AdminInv ==
    /\ halted \subseteq Steps
    /\ "ProxyAdmin" \in recorded /\ admin = "deployer" =>
          \/ At("ProxyAdminOwner") /\ newly
          \/ "ProxyAdminOwner" \in halted

(* The steps of a command before its i-th, and what those D leave behind.    *)
Done(c, i) == {c[j] : j \in 1..(i - 1)}

Recorded == {"MultiSigWallet", "ProxyAdmin", "SideTokenFactory", "Federation", "AllowTokens"}

Reached(D) ==
    /\ "Bridge" \in D => logic = 4 /\ network # "ethmainnet" /\ "Bridge" \in recorded
    /\ ~Named => D \cap Recorded \subseteq recorded
    /\ ~Live => D \cap {"MainToken", "WRBTC"} \subseteq recorded
    /\ "BridgeProxy" \in D => bridge # 0
    /\ "FederationProxy" \in D => fed # 0 /\ feds[fed].bridge = bridge
    /\ "AllowTokensProxy" \in D => allow # 0 /\ allows[allow].bridge = bridge
    /\ "AllowTokensOwner" \in D => allow # 0 /\ allows[allow].owner = "multiSig"
    /\ "SideTokenFactoryToBridge" \in D => (Len(bridges) = 1 => primary = bridge)
    /\ "TransferFederationToBridge" \in D => bridge # 0 /\ bridges[bridge].federation = fed
    /\ "TransferAllowTokensToBridge" \in D => bridge # 0 /\ bridges[bridge].allowTokens = allow
    /\ "SideNFTTokenFactory" \in D => "SideNFTTokenFactory" \in built
    /\ "NftBridgeProxy" \in D => nft # 0
    /\ "NftFactoryToBridge" \in D => nftPrimary["new"] = nft
    /\ "SetNftBridge" \in D => fed # 0 /\ feds[fed].nft = nft

CommandInv ==
    Running =>
        \E c \in Commands : \E i \in 1..Len(c) :
            command = SubSeq(c, i, Len(c)) /\ Reached(Done(c, i))

StateInv == ContractsInv /\ RefsInv /\ ServiceInv /\ RecordsInv /\ NftInv

DeployInv == StateInv /\ AdminInv /\ CommandInv

-----------------------------------------------------------------------------
(* The lists of scripts                                                      *)

LEMMA ListedSteps ==
    /\ \A i \in 1..29 : Default[i] \in Steps
    /\ \A i \in 1..16 : NftOnly[i] \in Steps
    /\ \A i \in 1..2 : Upgrade[i] \in Steps
<1>1. \A i \in 1..29 : Default[i] \in Steps
  <2>1. DOMAIN Default = 1..29
    BY DEF Default
  <2>. QED
    BY <2>1 DEF Steps
<1>2. \A i \in 1..16 : \E j \in 1..29 : NftOnly[i] = Default[j]
  BY DEF Default, NftOnly
<1>3. \A i \in 1..2 : \E j \in 1..29 : Upgrade[i] = Default[j]
  BY DEF Default, Upgrade
<1>. QED
  BY <1>1, <1>2, <1>3

LEMMA Lengths == Len(Default) = 29 /\ Len(NftOnly) = 16 /\ Len(Upgrade) = 2
BY DEF Default, NftOnly, Upgrade

LEMMA CommandsAreLists ==
    ASSUME NEW c \in Commands
    PROVE  c \in Seq(Steps) /\ Len(c) \in Nat \ {0}
<1>1. Default \in [1..29 -> Steps]
  BY ListedSteps DEF Default
<1>2. NftOnly \in [1..16 -> Steps]
  BY ListedSteps DEF NftOnly
<1>3. Upgrade \in [1..2 -> Steps]
  BY ListedSteps DEF Upgrade
<1>4. Default \in Seq(Steps) /\ NftOnly \in Seq(Steps) /\ Upgrade \in Seq(Steps)
  <2>1. ASSUME NEW n \in Nat, NEW list \in [1..n -> Steps]
        PROVE  list \in Seq(Steps)
    OBVIOUS
  <2>2. 29 \in Nat /\ 16 \in Nat /\ 2 \in Nat
    OBVIOUS
  <2>3. Default \in Seq(Steps)
    BY <1>1, <2>1, <2>2, Zenon
  <2>4. NftOnly \in Seq(Steps)
    BY <1>2, <2>1, <2>2, Zenon
  <2>5. Upgrade \in Seq(Steps)
    BY <1>3, <2>1, <2>2, Zenon
  <2>. QED
    BY <2>3, <2>4, <2>5
<1>5. c \in {Default, NftOnly, Upgrade}
  BY DEF Commands
<1>6. Len(c) \in {29, 16, 2}
  BY <1>5, Lengths
<1>7. c \in Seq(Steps)
  BY <1>4, <1>5
<1>8. Len(c) \in Nat \ {0}
  <2>1. \A n \in {29, 16, 2} : n \in Nat \ {0}
    OBVIOUS
  <2>. QED
    BY <1>6, <2>1, Zenon
<1>. QED
  BY <1>7, <1>8

(* From its i-th step on a command is not over, and goes on with the next.   *)
LEMMA Left ==
    ASSUME NEW c \in Commands, NEW i \in 1..Len(c), NEW q, q = SubSeq(c, i, Len(c))
    PROVE  /\ q # <<>> /\ Head(q) = c[i] /\ c[i] \in Steps
           /\ Len(q) = Len(c) - i + 1
           /\ \A k \in 1..Len(q) : q[k] = c[i + k - 1]
           /\ Tail(q) = SubSeq(c, i + 1, Len(c))
           /\ i = Len(c) => Tail(q) = <<>>
<1>1. c \in Seq(Steps) /\ Len(c) \in Nat \ {0}
  BY CommandsAreLists
<1>2. Len(q) = Len(c) - i + 1 /\ \A k \in 1..Len(q) : q[k] = c[i + k - 1]
  <2>1. \A j \in i..Len(c) : c[j] \in Steps
    BY <1>1, ElementOfSeq
  <2>. QED
    BY <1>1, <2>1, SubSeqProperties
<1>3. q # <<>>
  <2>1. Len(q) # 0
    BY <1>1, <1>2
  <2>2. Len(<<>>) = 0
    BY EmptySeq
  <2>. QED
    BY <2>1, <2>2
<1>4. Head(q) = c[i] /\ Tail(q) = SubSeq(c, i + 1, Len(c))
  BY <1>1, HeadTailOfSubSeq
<1>5. i = Len(c) => Tail(q) = <<>>
  BY <1>1, <1>4, SubSeqEmpty
<1>. QED
  BY <1>1, <1>2, <1>3, <1>4, <1>5, ElementOfSeq

(* At its i-th step a command has the steps from there on left.              *)
LEMMA AtStep ==
    ASSUME NEW c \in Commands, NEW i \in 1..Len(c), command = SubSeq(c, i, Len(c))
    PROVE  /\ Running /\ Head(command) = c[i] /\ c[i] \in Steps
           /\ Tail(command) = SubSeq(c, i + 1, Len(c))
           /\ i = Len(c) => Tail(command) = <<>>
BY Left DEF Running

(* Some command has executed the steps D when it comes to step s.            *)
Comes(s, D) == \E c \in Commands : \E i \in 1..Len(c) : c[i] = s /\ D = Done(c, i)

LEMMA Standing ==
    ASSUME CommandInv, NEW s, At(s)
    PROVE  \E D : Comes(s, D) /\ Reached(D)
<1>0. PICK c \in Commands :
           \E i \in 1..Len(c) : command = SubSeq(c, i, Len(c)) /\ Reached(Done(c, i))
  BY DEF CommandInv, At
<1>1. PICK i \in 1..Len(c) : command = SubSeq(c, i, Len(c)) /\ Reached(Done(c, i))
  BY <1>0
<1>2. c[i] = s
  BY <1>1, AtStep DEF At
<1>. QED
  BY <1>1, <1>2 DEF Comes

(* A command goes on when what its steps leave behind still holds.           *)
LEMMA Advances ==
    ASSUME CommandInv, NEW s, At(s), Advance,
           \A D : Comes(s, D) /\ Reached(D) => Reached(D \cup {s})'
    PROVE  CommandInv'
<1>0. PICK c \in Commands :
           \E i \in 1..Len(c) : command = SubSeq(c, i, Len(c)) /\ Reached(Done(c, i))
  BY DEF CommandInv, At
<1>1. PICK i \in 1..Len(c) : command = SubSeq(c, i, Len(c)) /\ Reached(Done(c, i))
  BY <1>0
<1>2. c[i] = s /\ command' = SubSeq(c, i + 1, Len(c)) /\ (i = Len(c) => command' = <<>>)
  BY <1>1, AtStep DEF At, Advance
<1>3. Reached(Done(c, i) \cup {s})'
  BY <1>1, <1>2 DEF Comes
<1>4. Done(c, i) \cup {s} = Done(c, i + 1)
  <2>1. i \in Nat \ {0}
    BY CommandsAreLists
  <2>2. 1..((i + 1) - 1) = 1..(i - 1) \cup {i}
    BY <2>1
  <2>. QED
    BY <1>2, <2>2, Zenon DEF Done
<1>5. CASE i = Len(c)
  BY <1>2, <1>5 DEF CommandInv, Running
<1>6. CASE i # Len(c)
  <2>1. i + 1 \in 1..Len(c)
    BY <1>6, CommandsAreLists
  <2>. QED
    BY <1>2, <1>3, <1>4, <2>1 DEF CommandInv
<1>. QED
  BY <1>5, <1>6

(* What a command has executed, and what it has not, when it comes to s.     *)
Ordered(s, D) ==
    /\ s = "BridgeProxy" =>
         /\ {"Bridge", "MultiSigWallet", "ProxyAdmin", "SideTokenFactory"} \subseteq D
         /\ {"FederationProxy", "AllowTokensProxy", "SideTokenFactoryToBridge",
             "TransferFederationToBridge", "TransferAllowTokensToBridge"} \cap D = {}
    /\ s = "FederationProxy" =>
         /\ {"Bridge", "BridgeProxy", "Federation", "ProxyAdmin", "MultiSigWallet"} \subseteq D
         /\ {"TransferFederationToBridge", "SetNftBridge"} \cap D = {}
    /\ s = "AllowTokensProxy" =>
         /\ {"Bridge", "BridgeProxy", "AllowTokens", "ProxyAdmin"} \subseteq D
         /\ {"AllowTokensOwner", "TransferAllowTokensToBridge"} \cap D = {}
    /\ s = "NftBridgeProxy" =>
         /\ "FederationProxy" \in D
         /\ {"NftFactoryToBridge", "SetNftBridge"} \cap D = {}
    /\ s = "NftFactoryToBridge" => "SideNFTTokenFactory" \in D
    /\ s = "AllowTokens" => "Bridge" \in D
    /\ s \in {"SetTokens", "AllowTokensOwner"} =>
         {"AllowTokens", "AllowTokensProxy", "MultiSigWallet"} \subseteq D
    /\ s = "SideTokenFactoryToBridge" => {"BridgeProxy", "SideTokenFactory"} \subseteq D
    /\ s = "TransferFederationToBridge" =>
         {"Bridge", "MultiSigWallet", "BridgeProxy", "FederationProxy"} \subseteq D
    /\ s = "TransferAllowTokensToBridge" =>
         {"Bridge", "MultiSigWallet", "BridgeProxy", "AllowTokensProxy"} \subseteq D
    /\ s = "BridgeSetWrappedCurrency" =>
         {"Bridge", "BridgeProxy", "MultiSigWallet", "WRBTC", "AllowTokens",
          "AllowTokensProxy"} \subseteq D
    /\ s = "CreateConfigFile" =>
         {"BridgeProxy", "FederationProxy", "AllowTokensProxy", "AllowTokens",
          "MainToken"} \subseteq D
    /\ s = "SetNftBridge" => "FederationProxy" \in D
    /\ s = "CreateConfigFileV3" =>
         {"FederationProxy", "SideNFTTokenFactory", "NftBridgeProxy", "NftFactoryToBridge",
          "SetNftBridge"} \subseteq D

LEMMA ScriptsAreOrdered ==
    ASSUME NEW s, NEW D, Comes(s, D)
    PROVE  Ordered(s, D)
<1>1. ASSUME NEW i \in 1..29
      PROVE  Ordered(Default[i], Done(Default, i))
  BY SMTT(60) DEF Default, Done, Ordered
<1>2. ASSUME NEW i \in 1..16
      PROVE  Ordered(NftOnly[i], Done(NftOnly, i))
  BY SMTT(60) DEF NftOnly, Done, Ordered
<1>3. ASSUME NEW i \in 1..2
      PROVE  Ordered(Upgrade[i], Done(Upgrade, i))
  BY DEF Upgrade, Done, Ordered
<1>4. PICK c \in Commands : \E i \in 1..Len(c) : c[i] = s /\ D = Done(c, i)
  BY DEF Comes
<1>5. PICK i \in 1..Len(c) : c[i] = s /\ D = Done(c, i)
  BY <1>4
<1>6. c \in {Default, NftOnly, Upgrade}
  BY DEF Commands
<1>7. CASE c = Default
  BY <1>1, <1>5, <1>7, Lengths
<1>8. CASE c = NftOnly
  BY <1>2, <1>5, <1>8, Lengths
<1>9. CASE c = Upgrade
  BY <1>3, <1>5, <1>9, Lengths
<1>. QED
  BY <1>6, <1>7, <1>8, <1>9

(* The script of ProxyAdmin goes on with the transfer.                       *)
LEMMA TransferFollows ==
    ASSUME NEW c \in Commands, NEW i \in 1..Len(c), c[i] = "ProxyAdmin"
    PROVE  i + 1 \in 1..Len(c) /\ c[i + 1] = "ProxyAdminOwner"
<1>1. ASSUME NEW j \in 1..29, Default[j] = "ProxyAdmin"
      PROVE  j = 2
  <2>1. "ProxyAdmin" \notin {Default[1], Default[3], Default[4], Default[5], Default[6],
                              Default[7], Default[8], Default[9]}
    BY DEF Default
  <2>2. "ProxyAdmin" \notin {Default[10], Default[11], Default[12], Default[13], Default[14],
                              Default[15], Default[16], Default[17], Default[18], Default[19]}
    BY DEF Default
  <2>3. "ProxyAdmin" \notin {Default[20], Default[21], Default[22], Default[23], Default[24],
                              Default[25], Default[26], Default[27], Default[28], Default[29]}
    BY DEF Default
  <2>4. CASE j \in 1..9
    BY <1>1, <2>1, <2>4
  <2>5. CASE j \in 10..19
    BY <1>1, <2>2, <2>5
  <2>6. CASE j \in 20..29
    BY <1>1, <2>3, <2>6
  <2>. QED
    BY <2>4, <2>5, <2>6
<1>2. \A j \in 1..16 : NftOnly[j] = "ProxyAdmin" => j = 4
  BY DEF NftOnly
<1>3. \A j \in 1..2 : Upgrade[j] # "ProxyAdmin"
  BY DEF Upgrade
<1>4. Default[3] = "ProxyAdminOwner" /\ NftOnly[5] = "ProxyAdminOwner"
  BY DEF Default, NftOnly
<1>5. c \in {Default, NftOnly, Upgrade}
  BY DEF Commands
<1>6. CASE c = Default
  BY <1>1, <1>4, <1>6, Lengths
<1>7. CASE c = NftOnly
  BY <1>2, <1>4, <1>7, Lengths
<1>8. CASE c = Upgrade
  BY <1>3, <1>8, Lengths
<1>. QED
  BY <1>5, <1>6, <1>7, <1>8

-----------------------------------------------------------------------------
(* Steps that leave the proxies and what they name as they are               *)

(* An assignment at a position of an array; nothing happens outside it.      *)
LEMMA SetInPlace ==
    ASSUME NEW S, NEW s \in Seq(S), NEW n, NEW x, n \in 1..Len(s) => x \in S
    PROVE  /\ [s EXCEPT ![n] = x] \in Seq(S)
           /\ Len([s EXCEPT ![n] = x]) = Len(s)
           /\ \A j \in 1..Len(s) : [s EXCEPT ![n] = x][j] = IF j = n THEN x ELSE s[j]
<1>1. s \in [1..Len(s) -> S] /\ Len(s) \in Nat /\ DOMAIN s = 1..Len(s)
  BY LenProperties
<1>2. CASE n \in 1..Len(s)
  BY <1>2, ExceptSeq
<1>3. CASE n \notin 1..Len(s)
  <2>1. [s EXCEPT ![n] = x] = s
    BY <1>1, <1>3
  <2>. QED
    BY <1>3, <2>1
<1>. QED
  BY <1>2, <1>3

LEMMA SameNetwork ==
    ASSUME UNCHANGED network
    PROVE  /\ Fresh' = Fresh /\ Named' = Named /\ Live' = Live
           /\ InService' = InService /\ NamedInService' = NamedInService
BY DEF Fresh, Named, Live, InService, NamedInService

BridgesKept ==
    /\ bridges' \in Seq(BridgeProxies)
    /\ Len(bridges') = Len(bridges)
    /\ \A i \in 1..Len(bridges) :
          /\ bridges'[i].logic = bridges[i].logic
          /\ bridges'[i].federation = bridges[i].federation
          /\ bridges'[i].allowTokens = bridges[i].allowTokens
    /\ NamedInService => bridges'[1].wrapped \in {"WRBTC", "WBNB"}

FedsKept ==
    /\ feds' \in Seq(FederationProxies)
    /\ Len(feds') = Len(feds)
    /\ \A i \in 1..Len(feds) : feds'[i].bridge = feds[i].bridge /\ feds'[i].nft = feds[i].nft

AllowsKept ==
    /\ allows' \in Seq(AllowTokensProxies)
    /\ Len(allows') = Len(allows)
    /\ \A i \in 1..Len(allows) :
          allows'[i].bridge = allows[i].bridge /\ allows'[i].owner = allows[i].owner

NftsKept ==
    /\ nfts' \in Seq(NftBridgeProxies)
    /\ Len(nfts') = Len(nfts)
    /\ \A i \in 1..Len(nfts) : nfts'[i].federation = nfts[i].federation /\ nfts'[i].arg = nfts[i].arg

LEMMA Untouched ==
    ASSUME StateInv
    PROVE  /\ UNCHANGED bridges => BridgesKept
           /\ UNCHANGED feds => FedsKept
           /\ UNCHANGED allows => AllowsKept
           /\ UNCHANGED nfts => NftsKept
BY DEF StateInv, ContractsInv, ServiceInv, NamedIsProtected, Named, NamedInService, BridgesKept,
       FedsKept, AllowsKept, NftsKept

(* Whose proxies are named has them in service, or has none.                 *)
LEMMA NamedProxies ==
    ASSUME StateInv, Named
    PROVE  /\ NamedInService =>
                /\ bridge = 1 /\ fed = 1 /\ allow = 1
                /\ bridges[1].federation = 1 /\ bridges[1].allowTokens = 1
                /\ feds[1].bridge = 1 /\ allows[1].bridge = 1 /\ allows[1].owner = "multiSig"
           /\ ~NamedInService => network = "ethmainnet" /\ bridge = 0 /\ fed = 0 /\ allow = 0
<1>1. NamedInService <=> network # "ethmainnet"
  BY DEF Named, NamedInService
<1>2. CASE NamedInService
  BY <1>1, <1>2 DEF StateInv, ContractsInv, ServiceInv, NamedIsProtected
<1>3. CASE ~NamedInService
  BY <1>1, <1>3, EmptySeq DEF StateInv, ContractsInv, ServiceInv, NamedIsProtected
<1>. QED
  BY <1>2, <1>3

LEMMA KeptRefs ==
    ASSUME StateInv, BridgesKept, FedsKept, AllowsKept, NftsKept, UNCHANGED <<network, records, owned>>
    PROVE  ContractsInv' /\ RefsInv' /\ ServiceInv' /\ RecordsInv'
<1>1. ContractsInv'
  BY DEF StateInv, ContractsInv, BridgesKept, FedsKept, AllowsKept, NftsKept, records
<1>2. RefsInv'
  BY DEF StateInv, RefsInv, ContractsInv, BridgesKept, FedsKept, AllowsKept, NftsKept, records, owned
<1>3. RecordsInv'
  BY DEF StateInv, RecordsInv, records
<1>4. ServiceInv'
  <2>1. /\ Fresh' = Fresh /\ Named' = Named /\ Live' = Live
        /\ InService' = InService /\ NamedInService' = NamedInService
    BY SameNetwork
  <2>2. Len(bridges) \in Nat /\ Len(feds) \in Nat /\ Len(allows) \in Nat
    BY LenProperties DEF StateInv, ContractsInv
  <2>3. Fresh => Len(bridges') <= 1 /\ \A i \in 1..Len(bridges') : bridges'[i].logic = 4
    BY DEF StateInv, ServiceInv, BridgesKept
  <2>4. CASE NamedInService
    <3>1. Len(bridges) = 1 /\ Len(feds) = 1 /\ Len(allows) = 1
      BY <2>4 DEF StateInv, ServiceInv, NamedIsProtected, Named, NamedInService
    <3>2. 1 \in 1..1
      OBVIOUS
    <3>3. /\ bridges'[1].federation = bridges[1].federation
          /\ bridges'[1].allowTokens = bridges[1].allowTokens
          /\ bridges'[1].wrapped \in {"WRBTC", "WBNB"} /\ Len(bridges') = 1
      BY <2>4, <3>1, <3>2 DEF BridgesKept
    <3>4. feds'[1].bridge = feds[1].bridge /\ Len(feds') = 1
      BY <3>1, <3>2 DEF FedsKept
    <3>5. allows'[1].bridge = allows[1].bridge /\ allows'[1].owner = allows[1].owner /\ Len(allows') = 1
      BY <3>1, <3>2 DEF AllowsKept
    <3>6. network # "ethmainnet" /\ Named
      BY <2>4 DEF NamedInService, Named
    <3>7. NamedIsProtected'
      BY <2>4, <3>3, <3>4, <3>5, <3>6 DEF StateInv, ServiceInv, NamedIsProtected
    <3>. QED
      BY <2>1, <2>3, <2>4, <3>4, <3>5, <3>6, <3>7 DEF StateInv, ServiceInv, owned
  <2>5. CASE network = "ethmainnet"
    <3>1. bridges = <<>> /\ feds = <<>> /\ allows = <<>>
      BY <2>5 DEF StateInv, ServiceInv, NamedIsProtected, Named
    <3>2. Len(bridges') = 0 /\ Len(feds') = 0 /\ Len(allows') = 0
      BY <3>1 DEF BridgesKept, FedsKept, AllowsKept
    <3>3. bridges' = <<>> /\ feds' = <<>> /\ allows' = <<>>
      BY <3>2, EmptySeq DEF BridgesKept, FedsKept, AllowsKept
    <3>4. ~NamedInService /\ ~InService /\ "Bridge" \notin recorded'
      BY <2>5 DEF NamedInService, InService, StateInv, ServiceInv, records
    <3>. QED
      BY <2>1, <2>3, <2>5, <3>3, <3>4 DEF StateInv, ServiceInv, NamedIsProtected
  <2>6. CASE ~Named
    <3>1. ~NamedInService /\ network # "ethmainnet"
      BY <2>6 DEF Named, NamedInService
    <3>. QED
      BY <2>1, <2>3, <2>6, <3>1 DEF StateInv, ServiceInv, NamedIsProtected, owned
  <2>. QED
    BY <2>4, <2>5, <2>6 DEF Named, NamedInService
<1>. QED
  BY <1>1, <1>2, <1>3, <1>4

LEMMA KeptReached ==
    ASSUME StateInv, BridgesKept, FedsKept, AllowsKept, NftsKept, UNCHANGED <<network, records, owned>>,
           NEW D, Reached(D)
    PROVE  Reached(D)'
<1>1. /\ bridge = Len(bridges) /\ Len(bridges) \in Nat
      /\ fed = Len(feds) /\ Len(feds) \in Nat
      /\ allow = Len(allows) /\ Len(allows) \in Nat
  BY LenProperties DEF StateInv, ContractsInv
<1>2. bridge # 0 => /\ bridges'[bridge].federation = bridges[bridge].federation
                    /\ bridges'[bridge].allowTokens = bridges[bridge].allowTokens
  BY <1>1 DEF BridgesKept
<1>3. fed # 0 => feds'[fed].bridge = feds[fed].bridge /\ feds'[fed].nft = feds[fed].nft
  BY <1>1 DEF FedsKept
<1>4. allow # 0 => allows'[allow].bridge = allows[allow].bridge /\ allows'[allow].owner = allows[allow].owner
  BY <1>1 DEF AllowsKept
<1>5. Len(bridges') = Len(bridges)
  BY DEF BridgesKept
<1>6. Named' = Named /\ Live' = Live
  BY SameNetwork
<1>. QED
  BY <1>2, <1>3, <1>4, <1>5, <1>6 DEF Reached, records, owned

LEMMA KeptNft ==
    ASSUME StateInv, FedsKept, NftsKept, UNCHANGED <<network, records, owned, config>>
    PROVE  NftInv'
<1>1. /\ fed = Len(feds) /\ Len(feds) \in Nat
      /\ nft = Len(nfts) /\ Len(nfts) \in Nat /\ config.nft \in Nat
  BY LenProperties DEF StateInv, ContractsInv, NftInv
<1>2. fed = 1 => feds'[1].nft = feds[1].nft
  BY <1>1 DEF FedsKept
<1>3. nft # 0 => nfts'[nft].arg = nfts[nft].arg
  BY <1>1 DEF NftsKept
<1>4. Len(nfts') = Len(nfts)
  BY DEF NftsKept
<1>. QED
  BY <1>2, <1>3, <1>4 DEF StateInv, NftInv, records, owned

(* The administration scripts.                                               *)
LEMMA AllowsGet ==
    ASSUME StateInv, NEW n, NEW T, n \in 1..Len(allows) => T \subseteq TokenNames,
           allows' = [allows EXCEPT ![n].tokens = T]
    PROVE  AllowsKept
<1>. DEFINE x == [allows[n] EXCEPT !.tokens = T]
<1>1. allows \in Seq(AllowTokensProxies)
  BY DEF StateInv, ContractsInv
<1>2. n \in 1..Len(allows) => allows[n] \in AllowTokensProxies
  BY <1>1, ElementOfSeq
<1>3. n \in 1..Len(allows) => x \in AllowTokensProxies
  BY <1>2 DEF AllowTokensProxies
<1>4. allows' = [allows EXCEPT ![n] = x]
  OBVIOUS
<1>5. n \in 1..Len(allows) => x.bridge = allows[n].bridge /\ x.owner = allows[n].owner
  BY <1>2 DEF AllowTokensProxies
<1>. HIDE DEF x
<1>6. /\ allows' \in Seq(AllowTokensProxies) /\ Len(allows') = Len(allows)
      /\ \A j \in 1..Len(allows) : allows'[j] = IF j = n THEN x ELSE allows[j]
  BY <1>1, <1>3, <1>4, SetInPlace
<1>. QED
  BY <1>5, <1>6 DEF AllowsKept

LEMMA BridgesGet ==
    ASSUME StateInv, NEW n, NEW x,
           n \in 1..Len(bridges) =>
               /\ x \in BridgeProxies
               /\ x.logic = bridges[n].logic /\ x.federation = bridges[n].federation
               /\ x.allowTokens = bridges[n].allowTokens
               /\ Named => x.wrapped \in {"WRBTC", "WBNB"},
           bridges' = [bridges EXCEPT ![n] = x]
    PROVE  BridgesKept
<1>1. bridges \in Seq(BridgeProxies)
  BY DEF StateInv, ContractsInv
<1>2. /\ bridges' \in Seq(BridgeProxies) /\ Len(bridges') = Len(bridges)
      /\ \A j \in 1..Len(bridges) : bridges'[j] = IF j = n THEN x ELSE bridges[j]
  BY <1>1, SetInPlace
<1>3. NamedInService => bridges'[1].wrapped \in {"WRBTC", "WBNB"}
  <2>1. NamedInService =>
            Named /\ 1 \in 1..Len(bridges) /\ bridges[1].wrapped \in {"WRBTC", "WBNB"}
    BY DEF StateInv, ServiceInv, NamedIsProtected, Named, NamedInService
  <2>. QED
    BY <1>2, <2>1
<1>. QED
  BY <1>2, <1>3 DEF BridgesKept

(* A proxy of a bridge, with another field.                                  *)
LEMMA BridgeFields ==
    ASSUME StateInv, NEW n \in 1..Len(bridges)
    PROVE  /\ bridges[n] \in BridgeProxies
           /\ Named => n = 1 /\ bridges[n].wrapped \in {"WRBTC", "WBNB"}
<1>1. bridges[n] \in BridgeProxies
  BY ElementOfSeq DEF StateInv, ContractsInv
<1>2. Named => Len(bridges) \in {0, 1}
  BY EmptySeq DEF StateInv, ServiceInv, NamedIsProtected
<1>3. Named => n = 1 /\ bridges # <<>>
  BY <1>2, EmptySeq
<1>. QED
  BY <1>1, <1>3 DEF StateInv, ServiceInv, NamedIsProtected

LEMMA FedsGet ==
    ASSUME StateInv, NEW n, NEW T, n \in 1..Len(feds) => T \subseteq MemberNames,
           feds' = [feds EXCEPT ![n].members = T]
    PROVE  FedsKept
<1>. DEFINE x == [feds[n] EXCEPT !.members = T]
<1>1. feds \in Seq(FederationProxies)
  BY DEF StateInv, ContractsInv
<1>2. n \in 1..Len(feds) => feds[n] \in FederationProxies
  BY <1>1, ElementOfSeq
<1>3. n \in 1..Len(feds) => x \in FederationProxies /\ x.bridge = feds[n].bridge /\ x.nft = feds[n].nft
  BY <1>2 DEF FederationProxies
<1>4. feds' = [feds EXCEPT ![n] = x]
  OBVIOUS
<1>. HIDE DEF x
<1>5. /\ feds' \in Seq(FederationProxies) /\ Len(feds') = Len(feds)
      /\ \A j \in 1..Len(feds) : feds'[j] = IF j = n THEN x ELSE feds[j]
  BY <1>1, <1>3, <1>4, SetInPlace
<1>. QED
  BY <1>3, <1>5 DEF FedsKept

LEMMA NftsGet ==
    ASSUME StateInv, NEW n, NEW x,
           n \in 1..Len(nfts) => x \in NftBridgeProxies /\ x.federation = nfts[n].federation
                                   /\ x.arg = nfts[n].arg,
           nfts' = [nfts EXCEPT ![n] = x]
    PROVE  NftsKept
<1>1. nfts \in Seq(NftBridgeProxies)
  BY DEF StateInv, ContractsInv
<1>2. /\ nfts' \in Seq(NftBridgeProxies) /\ Len(nfts') = Len(nfts)
      /\ \A j \in 1..Len(nfts) : nfts'[j] = IF j = n THEN x ELSE nfts[j]
  BY <1>1, SetInPlace
<1>. QED
  BY <1>2 DEF NftsKept

LEMMA AllowsFields ==
    ASSUME StateInv, NEW n \in 1..Len(allows)
    PROVE  allows[n].tokens \subseteq TokenNames
<1>1. allows[n] \in AllowTokensProxies
  BY ElementOfSeq DEF StateInv, ContractsInv
<1>. QED
  BY <1>1 DEF AllowTokensProxies

LEMMA FedsFields ==
    ASSUME StateInv, NEW n \in 1..Len(feds)
    PROVE  feds[n].members \subseteq MemberNames
<1>1. feds[n] \in FederationProxies
  BY ElementOfSeq DEF StateInv, ContractsInv
<1>. QED
  BY <1>1 DEF FederationProxies

(* What administration changes is who is a member, which tokens are allowed  *)
(* or have side tokens, the currency and the factory of the NFTs.            *)
LEMMA AdministrationKeeps ==
    ASSUME StateInv, Administration
    PROVE  /\ BridgesKept /\ FedsKept /\ AllowsKept /\ NftsKept
           /\ UNCHANGED <<command, network, records, owned, config, halted>>
<1>1. CASE AddFederatorMember
  <2>. DEFINE T == feds[fed].members \cup {"new"}
  <2>1. feds' = [feds EXCEPT ![fed].members = T]
    BY <1>1 DEF AddFederatorMember
  <2>2. fed \in 1..Len(feds) => T \subseteq MemberNames
    BY FedsFields DEF MemberNames
  <2>3. FedsKept
    BY <2>1, <2>2, FedsGet
  <2>. QED
    BY <1>1, <2>3, Untouched DEF AddFederatorMember, Edit
<1>2. CASE DeleteFederatorMember
  <2>. DEFINE T == feds[fed].members \ {"old"}
  <2>1. feds' = [feds EXCEPT ![fed].members = T]
    BY <1>2 DEF DeleteFederatorMember
  <2>2. fed \in 1..Len(feds) => T \subseteq MemberNames
    BY FedsFields
  <2>3. FedsKept
    BY <2>1, <2>2, FedsGet
  <2>. QED
    BY <1>2, <2>3, Untouched DEF DeleteFederatorMember, Edit
<1>3. CASE SetAllowToken
  <2>. DEFINE T == allows[allow].tokens \cup {"WBNB"}
  <2>1. allows' = [allows EXCEPT ![allow].tokens = T]
    BY <1>3 DEF SetAllowToken
  <2>2. allow \in 1..Len(allows) => T \subseteq TokenNames
    BY AllowsFields DEF TokenNames
  <2>3. AllowsKept
    BY <2>1, <2>2, AllowsGet
  <2>. QED
    BY <1>3, <2>3, Untouched DEF SetAllowToken, Edit
<1>4. CASE RemoveAllowToken
  <2>1. PICK token \in allows[allow].tokens :
            allows' = [allows EXCEPT ![allow].tokens = @ \ {token}]
    BY <1>4 DEF RemoveAllowToken
  <2>. DEFINE T == allows[allow].tokens \ {token}
  <2>2. allows' = [allows EXCEPT ![allow].tokens = T]
    BY <2>1
  <2>3. allow \in 1..Len(allows) => T \subseteq TokenNames
    BY AllowsFields
  <2>4. AllowsKept
    BY <2>2, <2>3, AllowsGet
  <2>. QED
    BY <1>4, <2>4, Untouched DEF RemoveAllowToken, Edit
<1>5. CASE SetWrappedCurrency
  <2>. DEFINE x == [bridges[bridge] EXCEPT !.wrapped = "WBNB"]
  <2>1. bridges' = [bridges EXCEPT ![bridge] = x]
    BY <1>5 DEF SetWrappedCurrency
  <2>2. bridge \in 1..Len(bridges) =>
            /\ x \in BridgeProxies
            /\ x.logic = bridges[bridge].logic /\ x.federation = bridges[bridge].federation
            /\ x.allowTokens = bridges[bridge].allowTokens
            /\ Named => x.wrapped \in {"WRBTC", "WBNB"}
    BY BridgeFields DEF BridgeProxies
  <2>. HIDE DEF x
  <2>3. BridgesKept
    BY <2>1, <2>2, BridgesGet
  <2>. QED
    BY <1>5, <2>3, Untouched DEF SetWrappedCurrency, Edit
<1>6. ASSUME NEW token \in {"sideWBNB", "sideRIF"}, CreateSideToken(token)
      PROVE  /\ BridgesKept /\ FedsKept /\ AllowsKept /\ NftsKept
             /\ UNCHANGED <<command, network, records, owned, config, halted>>
  <2>. DEFINE n == bridges[bridge].allowTokens
              x == [bridges[bridge] EXCEPT !.side = @ \cup {token}]
              T == allows[n].tokens \cup {token}
  <2>1. bridges' = [bridges EXCEPT ![bridge] = x]
    BY <1>6 DEF CreateSideToken
  <2>2. bridge \in 1..Len(bridges) =>
            /\ x \in BridgeProxies
            /\ x.logic = bridges[bridge].logic /\ x.federation = bridges[bridge].federation
            /\ x.allowTokens = bridges[bridge].allowTokens
            /\ Named => x.wrapped \in {"WRBTC", "WBNB"}
    BY <1>6, BridgeFields DEF BridgeProxies, TokenNames
  <2>3. allows' = [allows EXCEPT ![n].tokens = T]
    BY <1>6 DEF CreateSideToken
  <2>4. n \in 1..Len(allows) => T \subseteq TokenNames
    BY <1>6, AllowsFields DEF TokenNames
  <2>. HIDE DEF x, T, n
  <2>5. BridgesKept /\ AllowsKept
    BY <2>1, <2>2, <2>3, <2>4, BridgesGet, AllowsGet
  <2>. QED
    BY <1>6, <2>5, Untouched DEF CreateSideToken, Edit
<1>7. CASE CreateSideNftToken
  <2>. DEFINE x == [nfts[nft] EXCEPT !.side = {"drop"}]
  <2>1. nfts' = [nfts EXCEPT ![nft] = x]
    BY <1>7 DEF CreateSideNftToken
  <2>2. nft \in 1..Len(nfts) => nfts[nft] \in NftBridgeProxies
    BY ElementOfSeq DEF StateInv, ContractsInv
  <2>3. nft \in 1..Len(nfts) => x \in NftBridgeProxies /\ x.federation = nfts[nft].federation
                                   /\ x.arg = nfts[nft].arg
    BY <2>2 DEF NftBridgeProxies
  <2>. HIDE DEF x
  <2>4. NftsKept
    BY <2>1, <2>3, NftsGet
  <2>. QED
    BY <1>7, <2>4, Untouched DEF CreateSideNftToken, Edit
<1>8. CASE ChangeSideTokenFactoryNFT
  <2>. DEFINE x == [nfts[nft] EXCEPT !.factory = NftFactory]
  <2>1. nfts' = [nfts EXCEPT ![nft] = x]
    BY <1>8 DEF ChangeSideTokenFactoryNFT
  <2>2. nft \in 1..Len(nfts) => nfts[nft] \in NftBridgeProxies
    BY ElementOfSeq DEF StateInv, ContractsInv
  <2>3. nft \in 1..Len(nfts) => x \in NftBridgeProxies /\ x.federation = nfts[nft].federation
                                   /\ x.arg = nfts[nft].arg
    BY <2>2 DEF NftBridgeProxies, FactoryNames, NftFactory
  <2>. HIDE DEF x
  <2>4. NftsKept
    BY <2>1, <2>3, NftsGet
  <2>. QED
    BY <1>8, <2>4, Untouched DEF ChangeSideTokenFactoryNFT, Edit
<1>. QED
  BY <1>1, <1>2, <1>3, <1>4, <1>5, <1>6, <1>7, <1>8
     DEF Administration, CreateTokensERC20Rsk, CreateRifToken

-----------------------------------------------------------------------------
(* The scripts                                                               *)

LEMMA ScriptStep ==
    ASSUME CommandInv, NEW s, At(s), Advance,
           \A D : Comes(s, D) /\ Reached(D) => StateInv' /\ Reached(D \cup {s})'
    PROVE  StateInv' /\ CommandInv'
<1>1. CommandInv'
  BY Advances
<1>2. PICK D : Comes(s, D) /\ Reached(D)
  BY Standing
<1>. QED
  BY <1>1, <1>2

(* The steps of which Reached says something, but for those that make one    *)
(* of the records Reached speaks of.                                         *)
Marks == {"Bridge", "BridgeProxy", "FederationProxy", "AllowTokensProxy", "AllowTokensOwner",
          "SideTokenFactoryToBridge", "TransferFederationToBridge",
          "TransferAllowTokensToBridge", "SideNFTTokenFactory", "NftBridgeProxy",
          "NftFactoryToBridge", "SetNftBridge"}
Tokens == {"MainToken", "WRBTC"}

LEMMA ReachedMore ==
    ASSUME NEW D, NEW s, s \notin Marks, Reached(D)',
           s \in Recorded /\ ~Named' => s \in recorded',
           s \in Tokens /\ ~Live' => s \in recorded'
    PROVE  Reached(D \cup {s})'
BY DEF Reached, Marks, Tokens

(* A script that deploys one of the contracts of one instance.               *)
LEMMA DeploysStep ==
    ASSUME StateInv, CommandInv, NEW s, s \notin Marks, NEW contract, NEW returns \in BOOLEAN,
           contract # "Bridge", Deploys(s, contract, returns),
           s \in Recorded /\ ~Named => s \in recorded',
           s \in Tokens /\ ~Live => s \in recorded'
    PROVE  StateInv' /\ CommandInv'
<1>1. /\ recorded \subseteq recorded' /\ built \subseteq built'
      /\ "Bridge" \in recorded' => "Bridge" \in recorded
      /\ UNCHANGED <<newly, bridge, fed, allow, nft, logic, bridges, feds, allows, nfts, admin,
                     primary, nftPrimary, config, network>>
      /\ At(s) /\ Advance
  BY DEF Deploys, proxies, owned, counts
<1>2. /\ Fresh' = Fresh /\ Named' = Named /\ Live' = Live
      /\ InService' = InService /\ NamedInService' = NamedInService
      /\ NamedIsProtected' = NamedIsProtected
  BY <1>1, SameNetwork DEF NamedIsProtected
<1>3. built' \subseteq recorded'
  BY DEF Deploys, StateInv, RefsInv
<1>4. StateInv'
  <2>1. ContractsInv' /\ RefsInv'
    BY <1>1, <1>2, <1>3 DEF StateInv, ContractsInv, RefsInv
  <2>2. ServiceInv'
    BY <1>1, <1>2, <1>3 DEF StateInv, ServiceInv
  <2>3. RecordsInv' /\ NftInv'
    BY <1>1, <1>2, <1>3 DEF StateInv, RecordsInv, NftInv
  <2>. QED
    BY <2>1, <2>2, <2>3 DEF StateInv
<1>5. ASSUME NEW D, Reached(D) PROVE Reached(D \cup {s})'
  <2>1. Reached(D)'
    BY <1>1, <1>2, <1>5 DEF Reached
  <2>. QED
    BY <1>2, <2>1, ReachedMore
<1>. QED
  BY <1>1, <1>4, <1>5, ScriptStep

LEMMA NftFactoryStep ==
    ASSUME StateInv, CommandInv, DeployNftFactory
    PROVE  StateInv' /\ CommandInv'
<1>. DEFINE s == "SideNFTTokenFactory"
<1>1. /\ recorded' = recorded \cup {s} /\ built' = built \cup {s}
      /\ UNCHANGED <<newly, bridge, fed, allow, nft, logic, bridges, feds, allows, nfts, admin,
                     primary, nftPrimary, config, network>>
      /\ At(s) /\ Advance
  BY DEF DeployNftFactory, Deploys, proxies, owned, counts
<1>2. /\ Fresh' = Fresh /\ Named' = Named /\ Live' = Live
      /\ InService' = InService /\ NamedInService' = NamedInService
      /\ NamedIsProtected' = NamedIsProtected
  BY <1>1, SameNetwork DEF NamedIsProtected
<1>3. StateInv'
  <2>1. ContractsInv' /\ RefsInv'
    BY <1>1, <1>2 DEF StateInv, ContractsInv, RefsInv
  <2>2. ServiceInv'
    BY <1>1, <1>2 DEF StateInv, ServiceInv
  <2>3. RecordsInv' /\ NftInv'
    BY <1>1, <1>2 DEF StateInv, RecordsInv, NftInv
  <2>. QED
    BY <2>1, <2>2, <2>3 DEF StateInv
<1>4. ASSUME NEW D, Reached(D) PROVE Reached(D \cup {s})'
  BY <1>1, <1>2, <1>4 DEF Reached, Recorded
<1>. QED
  BY <1>1, <1>3, <1>4, ScriptStep

(* Without a record of Bridge the script of a chain with a named proxy ends. *)
LEMMA BridgeCodeStep ==
    ASSUME StateInv, CommandInv, DeployBridge
    PROVE  StateInv' /\ CommandInv'
<1>1. /\ recorded' = recorded \cup {"Bridge"} /\ built' = built \cup {"Bridge"} /\ logic' = 4
      /\ UNCHANGED <<newly, bridge, fed, allow, nft, bridges, feds, allows, nfts, admin,
                     primary, nftPrimary, config, network>>
      /\ At("Bridge") /\ Advance
  BY DEF DeployBridge, proxies, owned, counts
<1>2. /\ Fresh' = Fresh /\ Named' = Named /\ Live' = Live
      /\ InService' = InService /\ NamedInService' = NamedInService
      /\ NamedIsProtected' = NamedIsProtected
  BY <1>1, SameNetwork DEF NamedIsProtected
<1>3. network # "ethmainnet"
  <2>1. Named => LookedUp = {"Bridge"}
    BY <1>1 DEF LookedUp, At
  <2>2. LookedUp \subseteq WithRecord
    BY DEF DeployBridge, Reverts, At
  <2>3. "Bridge" \in WithRecord => "Bridge" \in recorded
    BY DEF WithRecord, RecordedProxy
  <2>4. Named => "Bridge" \in recorded
    BY <2>1, <2>2, <2>3
  <2>. QED
    BY <2>4 DEF Named, StateInv, ServiceInv
<1>4. StateInv'
  <2>1. ContractsInv' /\ RefsInv'
    BY <1>1, <1>2, <1>3 DEF StateInv, ContractsInv, RefsInv
  <2>2. ServiceInv'
    BY <1>1, <1>2, <1>3 DEF StateInv, ServiceInv
  <2>3. RecordsInv' /\ NftInv'
    BY <1>1, <1>2, <1>3 DEF StateInv, RecordsInv, NftInv
  <2>. QED
    BY <2>1, <2>2, <2>3 DEF StateInv
<1>5. ASSUME NEW D, Reached(D) PROVE Reached(D \cup {"Bridge"})'
  BY <1>1, <1>2, <1>3, <1>5 DEF Reached, Recorded
<1>. QED
  BY <1>1, <1>4, <1>5, ScriptStep

(* The two steps of ProxyAdmin change nothing that the others read.          *)
LEMMA ProxyAdminSteps ==
    ASSUME StateInv, CommandInv, DeployProxyAdmin \/ TransferProxyAdmin
    PROVE  StateInv' /\ CommandInv'
<1>1. PICK s \in {"ProxyAdmin", "ProxyAdminOwner"} :
          /\ recorded \subseteq recorded' /\ newly' \in BOOLEAN
          /\ built \subseteq built' /\ built' \subseteq recorded'
          /\ "Bridge" \in recorded' => "Bridge" \in recorded
          /\ s = "ProxyAdmin" /\ ~Named => s \in recorded'
          /\ admin' \in {"deployer", "multiSig"}
          /\ UNCHANGED <<bridge, fed, allow, nft, logic, bridges, feds, allows, nfts,
                         primary, nftPrimary, config, network>>
          /\ At(s) /\ Advance
  <2>1. CASE DeployProxyAdmin
    BY <2>1 DEF DeployProxyAdmin, proxies, counts, StateInv, RefsInv
  <2>2. CASE TransferProxyAdmin
    BY <2>2 DEF TransferProxyAdmin, records, proxies, counts, StateInv, RefsInv
  <2>. QED
    BY <2>1, <2>2
<1>2. /\ Fresh' = Fresh /\ Named' = Named /\ Live' = Live
      /\ InService' = InService /\ NamedInService' = NamedInService
      /\ NamedIsProtected' = NamedIsProtected
  BY <1>1, SameNetwork DEF NamedIsProtected
<1>3. StateInv'
  <2>1. ContractsInv' /\ RefsInv'
    BY <1>1, <1>2 DEF StateInv, ContractsInv, RefsInv
  <2>2. ServiceInv'
    BY <1>1, <1>2 DEF StateInv, ServiceInv
  <2>3. RecordsInv' /\ NftInv'
    BY <1>1, <1>2 DEF StateInv, RecordsInv, NftInv
  <2>. QED
    BY <2>1, <2>2, <2>3 DEF StateInv
<1>4. ASSUME NEW D, Reached(D) PROVE Reached(D \cup {s})'
  <2>1. Reached(D)'
    BY <1>1, <1>2, <1>4 DEF Reached
  <2>2. s \notin Marks /\ s \notin Tokens /\ (s \in Recorded => s = "ProxyAdmin")
    BY DEF Marks, Tokens, Recorded
  <2>. QED
    BY <1>1, <1>2, <2>1, <2>2, ReachedMore
<1>. QED
  BY <1>1, <1>3, <1>4, ScriptStep

(* A script that leaves the proxies and what they name as they are.          *)
LEMMA KeepingStep ==
    ASSUME StateInv, CommandInv, BridgesKept, FedsKept, AllowsKept, NftsKept,
           UNCHANGED <<network, records, owned>>, NftInv',
           NEW s, s \notin Marks \cup Recorded \cup Tokens, At(s), Advance
    PROVE  StateInv' /\ CommandInv'
<1>1. StateInv'
  BY KeptRefs DEF StateInv
<1>2. ASSUME NEW D, Reached(D) PROVE Reached(D \cup {s})'
  BY <1>2, KeptReached, ReachedMore
<1>. QED
  BY <1>1, <1>2, ScriptStep

LEMMA SetTokensStep ==
    ASSUME StateInv, CommandInv, SetTokens
    PROVE  StateInv' /\ CommandInv'
<1>1. /\ UNCHANGED <<network, records, owned, config>> /\ UNCHANGED <<bridges, feds, nfts>>
      /\ At("SetTokens") /\ Advance
  BY DEF SetTokens, counts
<1>2. AllowsKept
  <2>1. CASE UNCHANGED allows
    BY <2>1, Untouched
  <2>2. CASE allows' = [allows EXCEPT ![allow].tokens = @ \cup {"listed"}]
    <3>. DEFINE T == allows[allow].tokens \cup {"listed"}
    <3>1. allows' = [allows EXCEPT ![allow].tokens = T]
      BY <2>2
    <3>2. allow \in 1..Len(allows) => T \subseteq TokenNames
      BY AllowsFields DEF TokenNames
    <3>. QED
      BY <3>1, <3>2, AllowsGet
  <2>. QED
    BY <2>1, <2>2 DEF SetTokens
<1>3. BridgesKept /\ FedsKept /\ NftsKept
  BY <1>1, Untouched
<1>. QED
  BY <1>1, <1>2, <1>3, KeptNft, KeepingStep DEF Marks, Recorded, Tokens

LEMMA UpgradeStep ==
    ASSUME StateInv, CommandInv, UpgradeBridge
    PROVE  StateInv' /\ CommandInv'
<1>. DEFINE x == [bridges[bridge] EXCEPT !.impl = logic]
<1>1. /\ UNCHANGED <<network, records, owned, config>> /\ UNCHANGED <<feds, allows, nfts>>
      /\ At("UpgradeBridge") /\ Advance
      /\ bridges' = [bridges EXCEPT ![bridge] = x]
  BY DEF UpgradeBridge, counts
<1>2. bridge \in 1..Len(bridges) =>
          /\ x \in BridgeProxies
          /\ x.logic = bridges[bridge].logic /\ x.federation = bridges[bridge].federation
          /\ x.allowTokens = bridges[bridge].allowTokens
          /\ Named => x.wrapped \in {"WRBTC", "WBNB"}
  BY BridgeFields DEF BridgeProxies, StateInv, RefsInv
<1>. HIDE DEF x
<1>3. BridgesKept
  BY <1>1, <1>2, BridgesGet
<1>4. FedsKept /\ AllowsKept /\ NftsKept
  BY <1>1, Untouched
<1>. QED
  BY <1>1, <1>3, <1>4, KeptNft, KeepingStep DEF Marks, Recorded, Tokens

LEMMA CurrencyStep ==
    ASSUME StateInv, CommandInv, BridgeSetWrappedCurrency
    PROVE  StateInv' /\ CommandInv'
<1>. DEFINE x == [bridges[bridge] EXCEPT !.wrapped = IF Live THEN "named" ELSE "WRBTC"]
            T == allows[allow].tokens \cup {"WRBTC"}
<1>1. /\ UNCHANGED <<network, records, owned, config>> /\ UNCHANGED <<feds, nfts>>
      /\ At("BridgeSetWrappedCurrency") /\ Advance
      /\ bridges' = IF Named THEN bridges ELSE [bridges EXCEPT ![bridge] = x]
      /\ allows' = IF Live THEN allows ELSE [allows EXCEPT ![allow].tokens = T]
  BY DEF BridgeSetWrappedCurrency, Protected, counts
<1>2. bridge \in 1..Len(bridges) =>
          /\ x \in BridgeProxies
          /\ x.logic = bridges[bridge].logic /\ x.federation = bridges[bridge].federation
          /\ x.allowTokens = bridges[bridge].allowTokens
  BY BridgeFields DEF BridgeProxies
<1>3. allow \in 1..Len(allows) => T \subseteq TokenNames
  BY AllowsFields DEF TokenNames
<1>. HIDE DEF x, T
<1>4. BridgesKept
  <2>1. CASE Named
    BY <1>1, <2>1, Untouched
  <2>2. CASE ~Named
    BY <1>1, <1>2, <2>2, BridgesGet
  <2>. QED
    BY <2>1, <2>2
<1>5. AllowsKept
  <2>1. CASE Live
    BY <1>1, <2>1, Untouched
  <2>2. CASE ~Live
    BY <1>1, <1>3, <2>2, AllowsGet
  <2>. QED
    BY <2>1, <2>2
<1>6. FedsKept /\ NftsKept
  BY <1>1, Untouched
<1>. QED
  BY <1>1, <1>4, <1>5, <1>6, KeptNft, KeepingStep DEF Marks, Recorded, Tokens

(* The file names the recorded contracts: with the NFT bridge only after it  *)
(* has been set up.                                                          *)
LEMMA ConfigStep ==
    ASSUME StateInv, CommandInv, CreateConfigFile \/ CreateConfigFileV3
    PROVE  StateInv' /\ CommandInv'
<1>. DEFINE T == allows[allow].tokens \cup {"MainToken"}
<1>1. PICK n \in {0, nft} :
          /\ UNCHANGED <<network, records, owned>> /\ UNCHANGED <<bridges, feds, nfts>>
          /\ Advance
          /\ \/ n = 0 /\ At("CreateConfigFile")
             \/ n = nft /\ At("CreateConfigFileV3")
          /\ config' = [bridge |-> bridge, fed |-> fed, allow |-> allow, nft |-> n]
          /\ allows' = IF Live THEN allows ELSE [allows EXCEPT ![allow].tokens = T]
  BY DEF CreateConfigFile, CreateConfigFileV3, WriteConfig, counts
<1>2. allow \in 1..Len(allows) => T \subseteq TokenNames
  BY AllowsFields DEF TokenNames
<1>. HIDE DEF T
<1>3. AllowsKept
  <2>1. CASE Live
    BY <1>1, <2>1, Untouched
  <2>2. CASE ~Live
    BY <1>1, <1>2, <2>2, AllowsGet
  <2>. QED
    BY <2>1, <2>2
<1>4. BridgesKept /\ FedsKept /\ NftsKept
  BY <1>1, Untouched
<1>5. NftInv'
  <2>1. bridge \in Nat /\ fed \in Nat /\ allow \in Nat /\ nft \in Nat
    BY LenProperties DEF StateInv, ContractsInv
  <2>2. config' \in [bridge : Nat, fed : Nat, allow : Nat, nft : Nat] /\ config'.nft = n
    BY <1>1, <2>1
  <2>3. Len(nfts') = Len(nfts) /\ Len(nfts) \in Nat /\ nft = Len(nfts)
    BY <1>1, LenProperties DEF StateInv, ContractsInv
  <2>4. CASE n = 0
    BY <2>2, <2>3, <2>4 DEF NftInv
  <2>5. CASE n = nft /\ At("CreateConfigFileV3")
    <3>1. PICK D : Comes("CreateConfigFileV3", D) /\ Reached(D)
      BY <2>5, Standing
    <3>2. {"FederationProxy", "SideNFTTokenFactory", "NftBridgeProxy", "NftFactoryToBridge",
           "SetNftBridge"} \subseteq D
      BY <3>1, ScriptsAreOrdered DEF Ordered
    <3>3. fed # 0 /\ nft # 0 /\ feds[fed].nft = nft /\ nftPrimary["new"] = nft
      BY <3>1, <3>2 DEF Reached
    <3>4. UNCHANGED <<fed, nft, feds, nfts, nftPrimary>>
      BY <1>1 DEF records, owned
    <3>. QED
      BY <2>2, <2>3, <2>5, <3>3, <3>4 DEF NftInv
  <2>. QED
    BY <1>1, <2>4, <2>5
<1>6. {"CreateConfigFile", "CreateConfigFileV3"} \cap (Marks \cup Recorded \cup Tokens) = {}
  BY DEF Marks, Recorded, Tokens
<1>. QED
  BY <1>1, <1>3, <1>4, <1>5, <1>6, KeepingStep

(* The proxies: the recorded one, or a new one behind the others.            *)
LEMMA BridgeProxyStep ==
    ASSUME StateInv, CommandInv, DeployBridgeProxy
    PROVE  StateInv' /\ CommandInv'
<1>. DEFINE x == [logic |-> logic, impl |-> logic, federation |-> Deployer,
                  allowTokens |-> Deployer, wrapped |-> "none", side |-> {}]
            reuse == Named \/ (bridge # 0 /\ bridges[bridge].logic = logic)
<1>1. /\ UNCHANGED <<recorded, built, newly, fed, allow, nft, logic, feds, allows, nfts, admin, primary,
                     nftPrimary, config, network>>
      /\ At("BridgeProxy") /\ Advance
      /\ bridge' = IF reuse THEN bridge ELSE Len(bridges) + 1
      /\ bridges' = IF reuse THEN bridges ELSE Append(bridges, x)
  BY DEF DeployBridgeProxy, owned, counts
<1>2. /\ Fresh' = Fresh /\ Named' = Named /\ Live' = Live
      /\ InService' = InService /\ NamedInService' = NamedInService
  BY <1>1, SameNetwork
<1>3. ASSUME NEW D, Comes("BridgeProxy", D), Reached(D)
      PROVE  StateInv' /\ Reached(D \cup {"BridgeProxy"})'
  <2>1. /\ logic = 4 /\ network # "ethmainnet"
        /\ ~Named => {"MultiSigWallet", "Bridge"} \subseteq recorded
        /\ {"FederationProxy", "AllowTokensProxy", "SideTokenFactoryToBridge",
            "TransferFederationToBridge", "TransferAllowTokensToBridge"} \cap D = {}
    BY <1>3, ScriptsAreOrdered DEF Ordered, Reached, Recorded
  <2>2. CASE reuse
    <3>1. UNCHANGED <<bridge, bridges>>
      BY <1>1, <2>2
    <3>2. NamedIsProtected' = NamedIsProtected
      BY <1>1, <1>2, <3>1 DEF NamedIsProtected
    <3>3. StateInv'
      <4>1. ContractsInv' /\ RefsInv'
        BY <1>1, <1>2, <3>1, <3>2 DEF StateInv, ContractsInv, RefsInv
      <4>2. ServiceInv'
        BY <1>1, <1>2, <3>1, <3>2 DEF StateInv, ServiceInv
      <4>3. RecordsInv' /\ NftInv'
        BY <1>1, <1>2, <3>1, <3>2 DEF StateInv, RecordsInv, NftInv
      <4>. QED
        BY <4>1, <4>2, <4>3 DEF StateInv
    <3>4. bridge # 0
      BY <2>1, <2>2, NamedProxies
    <3>. QED
      BY <1>1, <1>2, <1>3, <3>1, <3>3, <3>4 DEF Reached, Recorded
  <2>3. CASE ~reuse
    <3>1. ~Named /\ bridge' = Len(bridges) + 1 /\ bridges' = Append(bridges, x)
      BY <1>1, <2>3
    <3>2. bridges \in Seq(BridgeProxies) /\ Len(bridges) \in Nat /\ bridge = Len(bridges)
      BY LenProperties DEF StateInv, ContractsInv
    <3>3. x \in BridgeProxies /\ x.logic = 4 /\ x.federation = 0 /\ x.allowTokens = 0
      BY <2>1 DEF BridgeProxies, Deployer
    <3>. HIDE DEF x
    <3>4. /\ bridges' \in Seq(BridgeProxies) /\ Len(bridges') = Len(bridges) + 1
          /\ \A i \in 1..Len(bridges) : bridges'[i] = bridges[i]
          /\ bridges'[Len(bridges) + 1] = x
      BY <3>1, <3>2, <3>3, AppendProperties
    <3>5. \A i \in 1..Len(bridges') : i \in 1..Len(bridges) \/ bridges'[i] = x
      BY <3>2, <3>4
    <3>6. ContractsInv'
      BY <1>1, <3>1, <3>4 DEF StateInv, ContractsInv
    <3>7. RefsInv'
      <4>1. Len(feds) \in Nat /\ Len(allows) \in Nat
        BY LenProperties DEF StateInv, ContractsInv
      <4>2. \A i \in 1..Len(bridges') :
                /\ bridges'[i].federation \in 0..Len(feds)
                /\ bridges'[i].allowTokens \in 0..Len(allows)
        BY <3>3, <3>4, <3>5, <4>1 DEF StateInv, RefsInv
      <4>. QED
        BY <1>1, <3>2, <3>4, <4>2 DEF StateInv, RefsInv
    <3>8. ServiceInv'
      <4>1. Fresh => Len(bridges) = 0
        BY <2>1, <2>3, <3>2 DEF StateInv, ServiceInv
      <4>2. Fresh => Len(bridges') <= 1 /\ \A i \in 1..Len(bridges') : bridges'[i].logic = 4
        BY <3>2, <3>3, <3>4, <3>5, <4>1
      <4>3. ~NamedInService
        BY <3>1 DEF Named, NamedInService
      <4>. QED
        BY <1>1, <1>2, <3>1, <4>2, <4>3 DEF StateInv, ServiceInv, NamedIsProtected
    <3>9. NftInv' /\ RecordsInv'
      BY <1>1, <1>2, <2>1, <3>1 DEF StateInv, NftInv, RecordsInv
    <3>10. Reached(D \cup {"BridgeProxy"})'
      BY <1>1, <1>2, <1>3, <2>1, <3>1, <3>2 DEF Reached, Recorded
    <3>. QED
      BY <3>6, <3>7, <3>8, <3>9, <3>10 DEF StateInv
  <2>. QED
    BY <2>2, <2>3
<1>. QED
  BY <1>1, <1>3, ScriptStep

LEMMA FederationProxyStep ==
    ASSUME StateInv, CommandInv, DeployFederationProxy
    PROVE  StateInv' /\ CommandInv'
<1>. DEFINE x == [bridge |-> bridge, arg |-> nft, nft |-> nft, members |-> FederationConf.members,
                  required |-> FederationConf.required]
            reuse == Named \/ (fed # 0 /\ feds[fed].bridge = bridge /\ feds[fed].arg = nft)
<1>1. /\ UNCHANGED <<recorded, built, newly, bridge, allow, nft, logic, bridges, allows, nfts, admin,
                     primary, nftPrimary, config, network>>
      /\ At("FederationProxy") /\ Advance
      /\ fed' = IF reuse THEN fed ELSE Len(feds) + 1
      /\ feds' = IF reuse THEN feds ELSE Append(feds, x)
  BY DEF DeployFederationProxy, owned, counts
<1>2. /\ Fresh' = Fresh /\ Named' = Named /\ Live' = Live
      /\ InService' = InService /\ NamedInService' = NamedInService
  BY <1>1, SameNetwork
<1>3. /\ bridge = Len(bridges) /\ Len(bridges) \in Nat
      /\ fed = Len(feds) /\ Len(feds) \in Nat /\ feds \in Seq(FederationProxies)
      /\ nft = Len(nfts) /\ Len(nfts) \in Nat
  BY LenProperties DEF StateInv, ContractsInv
<1>4. ASSUME NEW D, Comes("FederationProxy", D), Reached(D)
      PROVE  StateInv' /\ Reached(D \cup {"FederationProxy"})'
  <2>1. /\ bridge # 0 /\ (~Named => "Federation" \in recorded)
        /\ {"TransferFederationToBridge", "SetNftBridge"} \cap D = {}
    BY <1>4, ScriptsAreOrdered DEF Ordered, Reached, Recorded
  <2>2. CASE reuse
    <3>1. UNCHANGED <<fed, feds>>
      BY <1>1, <2>2
    <3>2. NamedIsProtected' = NamedIsProtected
      BY <1>1, <1>2, <3>1 DEF NamedIsProtected
    <3>3. StateInv'
      <4>1. ContractsInv' /\ RefsInv'
        BY <1>1, <1>2, <3>1, <3>2 DEF StateInv, ContractsInv, RefsInv
      <4>2. ServiceInv'
        BY <1>1, <1>2, <3>1, <3>2 DEF StateInv, ServiceInv
      <4>3. RecordsInv' /\ NftInv'
        BY <1>1, <1>2, <3>1, <3>2 DEF StateInv, RecordsInv, NftInv
      <4>. QED
        BY <4>1, <4>2, <4>3 DEF StateInv
    <3>4. fed # 0 /\ feds[fed].bridge = bridge
      BY <2>1, <2>2, NamedProxies
    <3>. QED
      BY <1>1, <1>2, <1>4, <3>1, <3>3, <3>4 DEF Reached, Recorded
  <2>3. CASE ~reuse
    <3>1. ~Named /\ fed' = Len(feds) + 1 /\ feds' = Append(feds, x)
      BY <1>1, <2>3
    <3>2. FederationConf.members \subseteq MemberNames /\ FederationConf.required \in Nat
      BY DEF FederationConf, MemberNames
    <3>3. x \in FederationProxies /\ x.bridge = bridge /\ x.nft = nft
      BY <1>3, <3>2 DEF FederationProxies
    <3>. HIDE DEF x
    <3>4. /\ feds' \in Seq(FederationProxies) /\ Len(feds') = Len(feds) + 1
          /\ \A i \in 1..Len(feds) : feds'[i] = feds[i]
          /\ feds'[Len(feds) + 1] = x
      BY <1>3, <3>1, <3>3, AppendProperties
    <3>5. \A i \in 1..Len(feds') : i \in 1..Len(feds) \/ feds'[i] = x
      BY <1>3, <3>4
    <3>6. ContractsInv'
      BY <1>1, <3>1, <3>4 DEF StateInv, ContractsInv
    <3>7. RefsInv'
      <4>1. ASSUME NEW i \in 1..Len(feds')
            PROVE  feds'[i].bridge \in 1..Len(bridges) /\ feds'[i].nft \in 0..Len(nfts)
        <5>1. CASE feds'[i] = x
          <6>1. bridge \in 1..Len(bridges) /\ nft \in 0..Len(nfts)
            BY <1>3, <2>1
          <6>. QED
            BY <3>3, <5>1, <6>1
        <5>2. CASE i \in 1..Len(feds)
          BY <3>4, <5>2 DEF StateInv, RefsInv
        <5>. QED
          BY <3>5, <5>1, <5>2
      <4>2. 0..Len(feds) \subseteq 0..Len(feds') /\ 1..Len(feds) \subseteq 1..Len(feds')
        BY <1>3, <3>4
      <4>. QED
        BY <1>1, <4>1, <4>2 DEF StateInv, RefsInv
    <3>8. ServiceInv' /\ RecordsInv'
      <4>1. ~NamedInService
        BY <3>1 DEF Named, NamedInService
      <4>. QED
        BY <1>1, <1>2, <2>1, <3>1, <4>1 DEF StateInv, ServiceInv, RecordsInv, NamedIsProtected
    <3>9. NftInv'
      BY <1>1, <1>2, <1>3, <3>1 DEF StateInv, NftInv
    <3>10. Reached(D \cup {"FederationProxy"})'
      BY <1>1, <1>2, <1>3, <1>4, <2>1, <3>1, <3>3, <3>4 DEF Reached, Recorded
    <3>. QED
      BY <3>6, <3>7, <3>8, <3>9, <3>10 DEF StateInv
  <2>. QED
    BY <2>2, <2>3
<1>. QED
  BY <1>1, <1>4, ScriptStep

LEMMA AllowTokensProxyStep ==
    ASSUME StateInv, CommandInv, DeployAllowTokensProxy
    PROVE  StateInv' /\ CommandInv'
<1>. DEFINE x == [bridge |-> bridge, owner |-> "deployer", tokens |-> {}]
            reuse == Named \/ (allow # 0 /\ allows[allow].bridge = bridge)
<1>1. /\ UNCHANGED <<recorded, built, newly, bridge, fed, nft, logic, bridges, feds, nfts, admin,
                     primary, nftPrimary, config, network>>
      /\ At("AllowTokensProxy") /\ Advance
      /\ allow' = IF reuse THEN allow ELSE Len(allows) + 1
      /\ allows' = IF reuse THEN allows ELSE Append(allows, x)
  BY DEF DeployAllowTokensProxy, owned, counts
<1>2. /\ Fresh' = Fresh /\ Named' = Named /\ Live' = Live
      /\ InService' = InService /\ NamedInService' = NamedInService
  BY <1>1, SameNetwork
<1>3. /\ bridge = Len(bridges) /\ Len(bridges) \in Nat
      /\ allow = Len(allows) /\ Len(allows) \in Nat /\ allows \in Seq(AllowTokensProxies)
  BY LenProperties DEF StateInv, ContractsInv
<1>4. ASSUME NEW D, Comes("AllowTokensProxy", D), Reached(D)
      PROVE  StateInv' /\ Reached(D \cup {"AllowTokensProxy"})'
  <2>1. /\ bridge # 0 /\ (~Named => "AllowTokens" \in recorded)
        /\ {"AllowTokensOwner", "TransferAllowTokensToBridge"} \cap D = {}
    BY <1>4, ScriptsAreOrdered DEF Ordered, Reached, Recorded
  <2>2. CASE reuse
    <3>1. UNCHANGED <<allow, allows>>
      BY <1>1, <2>2
    <3>2. NamedIsProtected' = NamedIsProtected
      BY <1>1, <1>2, <3>1 DEF NamedIsProtected
    <3>3. StateInv'
      <4>1. ContractsInv' /\ RefsInv'
        BY <1>1, <1>2, <3>1, <3>2 DEF StateInv, ContractsInv, RefsInv
      <4>2. ServiceInv'
        BY <1>1, <1>2, <3>1, <3>2 DEF StateInv, ServiceInv
      <4>3. RecordsInv' /\ NftInv'
        BY <1>1, <1>2, <3>1, <3>2 DEF StateInv, RecordsInv, NftInv
      <4>. QED
        BY <4>1, <4>2, <4>3 DEF StateInv
    <3>4. allow # 0 /\ allows[allow].bridge = bridge
      BY <2>1, <2>2, NamedProxies
    <3>. QED
      BY <1>1, <1>2, <1>4, <3>1, <3>3, <3>4 DEF Reached, Recorded
  <2>3. CASE ~reuse
    <3>1. ~Named /\ allow' = Len(allows) + 1 /\ allows' = Append(allows, x)
      BY <1>1, <2>3
    <3>2. x \in AllowTokensProxies /\ x.bridge = bridge
      BY <1>3 DEF AllowTokensProxies
    <3>. HIDE DEF x
    <3>3. /\ allows' \in Seq(AllowTokensProxies) /\ Len(allows') = Len(allows) + 1
          /\ \A i \in 1..Len(allows) : allows'[i] = allows[i]
          /\ allows'[Len(allows) + 1] = x
      BY <1>3, <3>1, <3>2, AppendProperties
    <3>4. \A i \in 1..Len(allows') : i \in 1..Len(allows) \/ allows'[i] = x
      BY <1>3, <3>3
    <3>5. ContractsInv'
      BY <1>1, <3>1, <3>3 DEF StateInv, ContractsInv
    <3>6. RefsInv'
      <4>1. ASSUME NEW i \in 1..Len(allows')
            PROVE  allows'[i].bridge \in 1..Len(bridges)
        <5>1. CASE allows'[i] = x
          <6>1. bridge \in 1..Len(bridges)
            BY <1>3, <2>1
          <6>. QED
            BY <3>2, <5>1, <6>1
        <5>2. CASE i \in 1..Len(allows)
          BY <3>3, <5>2 DEF StateInv, RefsInv
        <5>. QED
          BY <3>4, <5>1, <5>2
      <4>2. 0..Len(allows) \subseteq 0..Len(allows')
        BY <1>3, <3>3
      <4>. QED
        BY <1>1, <4>1, <4>2 DEF StateInv, RefsInv
    <3>7. ServiceInv' /\ RecordsInv'
      <4>1. ~NamedInService
        BY <3>1 DEF Named, NamedInService
      <4>. QED
        BY <1>1, <1>2, <2>1, <3>1, <4>1 DEF StateInv, ServiceInv, RecordsInv, NamedIsProtected
    <3>8. NftInv'
      BY <1>1, <1>2 DEF StateInv, NftInv
    <3>9. Reached(D \cup {"AllowTokensProxy"})'
      BY <1>1, <1>2, <1>3, <1>4, <2>1, <3>1, <3>2, <3>3 DEF Reached, Recorded
    <3>. QED
      BY <3>5, <3>6, <3>7, <3>8, <3>9 DEF StateInv
  <2>. QED
    BY <2>2, <2>3
<1>. QED
  BY <1>1, <1>4, ScriptStep

LEMMA NftBridgeProxyStep ==
    ASSUME StateInv, CommandInv, DeployNftBridgeProxy
    PROVE  StateInv' /\ CommandInv'
<1>. DEFINE x == [arg |-> NftArguments, federation |-> fed, factory |-> NftFactory, side |-> {}]
            reuse == nft # 0 /\ nfts[nft].arg = NftArguments
<1>1. /\ UNCHANGED <<recorded, built, newly, bridge, fed, allow, logic, bridges, feds, allows, admin,
                     primary, nftPrimary, config, network>>
      /\ At("NftBridgeProxy") /\ Advance
      /\ nft' = IF reuse THEN nft ELSE Len(nfts) + 1
      /\ nfts' = IF reuse THEN nfts ELSE Append(nfts, x)
  BY DEF DeployNftBridgeProxy, owned, counts
<1>2. /\ Fresh' = Fresh /\ Named' = Named /\ Live' = Live
      /\ InService' = InService /\ NamedInService' = NamedInService
      /\ NamedIsProtected' = NamedIsProtected
  BY <1>1, SameNetwork DEF NamedIsProtected
<1>3. /\ fed = Len(feds) /\ Len(feds) \in Nat
      /\ nft = Len(nfts) /\ Len(nfts) \in Nat /\ nfts \in Seq(NftBridgeProxies)
  BY LenProperties DEF StateInv, ContractsInv
<1>4. ServiceInv' /\ RecordsInv'
  BY <1>1, <1>2 DEF StateInv, ServiceInv, RecordsInv
<1>5. ASSUME NEW D, Comes("NftBridgeProxy", D), Reached(D)
      PROVE  StateInv' /\ Reached(D \cup {"NftBridgeProxy"})'
  <2>1. fed # 0 /\ {"NftFactoryToBridge", "SetNftBridge"} \cap D = {}
    BY <1>5, ScriptsAreOrdered DEF Ordered, Reached
  <2>2. CASE reuse
    <3>1. UNCHANGED <<nft, nfts>>
      BY <1>1, <2>2
    <3>2. StateInv'
      BY <1>1, <1>2, <1>4, <3>1 DEF StateInv, ContractsInv, RefsInv, NftInv
    <3>. QED
      BY <1>1, <1>2, <1>5, <2>2, <3>1, <3>2 DEF Reached, Recorded
  <2>3. CASE ~reuse
    <3>1. nft' = Len(nfts) + 1 /\ nfts' = Append(nfts, x)
      BY <1>1, <2>3
    <3>2. x \in NftBridgeProxies /\ x.federation = fed
      BY <1>3 DEF NftBridgeProxies, NftArguments, FactoryNames, NftFactory
    <3>. HIDE DEF x
    <3>3. /\ nfts' \in Seq(NftBridgeProxies) /\ Len(nfts') = Len(nfts) + 1
          /\ \A i \in 1..Len(nfts) : nfts'[i] = nfts[i]
          /\ nfts'[Len(nfts) + 1] = x
      BY <1>3, <3>1, <3>2, AppendProperties
    <3>4. \A i \in 1..Len(nfts') : i \in 1..Len(nfts) \/ nfts'[i] = x
      BY <1>3, <3>3
    <3>5. ContractsInv'
      BY <1>1, <3>1, <3>3 DEF StateInv, ContractsInv
    <3>6. RefsInv'
      <4>1. \A i \in 1..Len(nfts') : nfts'[i].federation \in 1..Len(feds)
        BY <1>3, <2>1, <3>2, <3>3, <3>4 DEF StateInv, RefsInv
      <4>2. 0..Len(nfts) \subseteq 0..Len(nfts')
        BY <1>3, <3>3
      <4>. QED
        BY <1>1, <4>1, <4>2 DEF StateInv, RefsInv
    <3>7. NftInv'
      BY <1>1, <1>2, <1>3, <3>1 DEF StateInv, NftInv
    <3>8. Reached(D \cup {"NftBridgeProxy"})'
      BY <1>1, <1>2, <1>3, <1>5, <2>1, <3>1 DEF Reached, Recorded
    <3>. QED
      BY <1>4, <3>5, <3>6, <3>7, <3>8 DEF StateInv
  <2>. QED
    BY <2>2, <2>3
<1>. QED
  BY <1>1, <1>5, ScriptStep

(* Handing over.                                                             *)
LEMMA AllowTokensOwnerStep ==
    ASSUME StateInv, CommandInv, TransferAllowTokens
    PROVE  StateInv' /\ CommandInv'
<1>. DEFINE s == "AllowTokensOwner"
            x == [allows[allow] EXCEPT !.owner = "multiSig"]
<1>1. /\ UNCHANGED <<recorded, built, newly, bridge, fed, allow, nft, logic, bridges, feds, nfts, admin,
                     primary, nftPrimary, config, network>>
      /\ At(s) /\ Advance
      /\ allows' = IF OwnedByMultiSig THEN allows ELSE [allows EXCEPT ![allow] = x]
  BY DEF TransferAllowTokens, records, owned, counts
<1>2. /\ Fresh' = Fresh /\ Named' = Named /\ Live' = Live
      /\ InService' = InService /\ NamedInService' = NamedInService
  BY <1>1, SameNetwork
<1>3. allows \in Seq(AllowTokensProxies) /\ allow = Len(allows) /\ Len(allows) \in Nat
  BY LenProperties DEF StateInv, ContractsInv
<1>4. ASSUME NEW D, Comes(s, D), Reached(D)
      PROVE  StateInv' /\ Reached(D \cup {s})'
  <2>1. allow \in 1..Len(allows)
    <3>1. allow # 0
      BY <1>4, ScriptsAreOrdered DEF Ordered, Reached
    <3>. QED
      BY <1>3, <3>1
  <2>2. /\ allows' \in Seq(AllowTokensProxies) /\ Len(allows') = Len(allows)
        /\ \A i \in 1..Len(allows) : allows'[i].bridge = allows[i].bridge
        /\ Named => UNCHANGED allows
        /\ allows'[allow].owner = "multiSig"
    <3>1. CASE OwnedByMultiSig
      <4>1. Named => allow = 1 /\ allows[1].owner = "multiSig"
        BY <2>1, NamedProxies
      <4>. QED
        BY <1>1, <1>3, <3>1, <4>1 DEF OwnedByMultiSig
    <3>2. CASE ~OwnedByMultiSig
      <4>1. allows[allow] \in AllowTokensProxies
        BY <1>3, <2>1, ElementOfSeq
      <4>2. x \in AllowTokensProxies /\ x.bridge = allows[allow].bridge /\ x.owner = "multiSig"
        BY <4>1 DEF AllowTokensProxies
      <4>3. allows' = [allows EXCEPT ![allow] = x] /\ ~Named
        BY <1>1, <3>2 DEF OwnedByMultiSig
      <4>. HIDE DEF x
      <4>4. /\ allows' \in Seq(AllowTokensProxies) /\ Len(allows') = Len(allows)
            /\ \A j \in 1..Len(allows) : allows'[j] = IF j = allow THEN x ELSE allows[j]
        BY <1>3, <4>2, <4>3, SetInPlace
      <4>. QED
        BY <2>1, <4>2, <4>3, <4>4
    <3>. QED
      BY <3>1, <3>2
  <2>. HIDE DEF x
  <2>3. ContractsInv' /\ RefsInv' /\ NftInv' /\ RecordsInv'
    <3>1. ContractsInv' /\ RefsInv'
      BY <1>1, <2>2 DEF StateInv, ContractsInv, RefsInv
    <3>2. NftInv' /\ RecordsInv'
      BY <1>1 DEF StateInv, NftInv, RecordsInv
    <3>. QED
      BY <3>1, <3>2
  <2>4. ServiceInv'
    <3>1. ~Named => ~NamedInService
      BY DEF Named, NamedInService
    <3>. QED
      BY <1>1, <1>2, <2>2, <3>1 DEF StateInv, ServiceInv, NamedIsProtected
  <2>5. Reached(D \cup {s})'
    BY <1>1, <1>2, <1>4, <2>1, <2>2 DEF Reached, Recorded
  <2>. QED
    BY <2>3, <2>4, <2>5 DEF StateInv
<1>. QED
  BY <1>1, <1>4, ScriptStep

(* Where a bridge was in service its factory obeys it and is left alone;     *)
(* elsewhere there is no other bridge that it could obey.                    *)
LEMMA PrimaryStep ==
    ASSUME StateInv, CommandInv, TransferPrimary
    PROVE  StateInv' /\ CommandInv'
<1>. DEFINE s == "SideTokenFactoryToBridge"
<1>1. /\ UNCHANGED <<recorded, built, newly, bridge, fed, allow, nft, logic, bridges, feds, allows, nfts,
                     admin, nftPrimary, config, network>>
      /\ At(s) /\ Advance
      /\ primary' = IF MustTransferPrimary THEN bridge ELSE primary
  BY DEF TransferPrimary, records, proxies, counts
<1>2. /\ Fresh' = Fresh /\ Named' = Named /\ Live' = Live
      /\ InService' = InService /\ NamedInService' = NamedInService
      /\ NamedIsProtected' = NamedIsProtected
  BY <1>1, SameNetwork DEF NamedIsProtected
<1>3. bridge = Len(bridges) /\ Len(bridges) \in Nat /\ primary \in 0..Len(bridges)
  BY LenProperties DEF StateInv, ContractsInv, RefsInv
<1>4. primary' \in 0..Len(bridges)
  BY <1>1, <1>3
<1>5. InService => primary' = 1
  BY <1>1 DEF StateInv, ServiceInv, MustTransferPrimary, FactoryNamed, Named, InService
<1>6. Len(bridges) = 1 => primary' = bridge
  <2>1. CASE InService
    BY <1>3, <1>5, <2>1
  <2>2. CASE network = "ethmainnet"
    BY <1>3, <2>2, NamedProxies DEF Named, NamedInService
  <2>3. CASE Fresh
    BY <1>1, <1>3, <2>3 DEF MustTransferPrimary, FactoryNamed, Named, Fresh
  <2>. QED
    BY <2>1, <2>2, <2>3 DEF StateInv, ServiceInv, Networks, Fresh, InService
<1>7. StateInv'
  <2>1. ContractsInv' /\ RefsInv'
    BY <1>1, <1>2, <1>4, <1>5 DEF StateInv, ContractsInv, RefsInv
  <2>2. ServiceInv'
    BY <1>1, <1>2, <1>4, <1>5 DEF StateInv, ServiceInv
  <2>3. RecordsInv' /\ NftInv'
    BY <1>1, <1>2, <1>4, <1>5 DEF StateInv, RecordsInv, NftInv
  <2>. QED
    BY <2>1, <2>2, <2>3 DEF StateInv
<1>8. ASSUME NEW D, Reached(D) PROVE Reached(D \cup {s})'
  BY <1>1, <1>2, <1>6, <1>8 DEF Reached, Recorded
<1>. QED
  BY <1>1, <1>7, <1>8, ScriptStep

(* The recorded bridge gets another federation or another AllowTokens.       *)
LEMMA BridgeObeys ==
    ASSUME StateInv, bridge # 0, ~Named, NEW x \in BridgeProxies,
           x.logic = bridges[bridge].logic, x.federation \in 0..Len(feds),
           x.allowTokens \in 0..Len(allows), bridges' = [bridges EXCEPT ![bridge] = x],
           UNCHANGED <<recorded, built, newly, bridge, fed, allow, nft, logic, feds, allows, nfts, admin,
                       primary, nftPrimary, config, network>>
    PROVE  StateInv' /\ Len(bridges') = Len(bridges) /\ bridges'[bridge] = x
<1>1. /\ Fresh' = Fresh /\ Named' = Named /\ Live' = Live
      /\ InService' = InService /\ NamedInService' = NamedInService
  BY SameNetwork
<1>2. bridges \in Seq(BridgeProxies) /\ bridge \in 1..Len(bridges)
  BY LenProperties DEF StateInv, ContractsInv
<1>3. /\ bridges' \in Seq(BridgeProxies) /\ Len(bridges') = Len(bridges)
      /\ \A j \in 1..Len(bridges) : bridges'[j] = IF j = bridge THEN x ELSE bridges[j]
  BY <1>2, SetInPlace
<1>4. ContractsInv' /\ RefsInv' /\ NftInv' /\ RecordsInv'
  <2>1. ContractsInv'
    BY <1>1, <1>3 DEF StateInv, ContractsInv
  <2>2. RefsInv'
    BY <1>1, <1>3 DEF StateInv, RefsInv
  <2>3. NftInv' /\ RecordsInv'
    BY <1>1, <1>3 DEF StateInv, NftInv, RecordsInv
  <2>. QED
    BY <2>1, <2>2, <2>3
<1>5. ServiceInv'
  <2>1. ~NamedInService
    BY DEF Named, NamedInService
  <2>. QED
    BY <1>1, <1>2, <1>3, <2>1 DEF StateInv, ServiceInv, NamedIsProtected
<1>. QED
  BY <1>2, <1>3, <1>4, <1>5 DEF StateInv

LEMMA FederationHandoverStep ==
    ASSUME StateInv, CommandInv, TransferFederation
    PROVE  StateInv' /\ CommandInv'
<1>. DEFINE s == "TransferFederationToBridge"
            x == [bridges[bridge] EXCEPT !.federation = fed]
<1>1. /\ UNCHANGED <<recorded, built, newly, bridge, fed, allow, nft, logic, feds, allows, nfts, admin,
                     primary, nftPrimary, config, network>>
      /\ At(s) /\ Advance
      /\ bridges' = IF Named THEN bridges ELSE [bridges EXCEPT ![bridge] = x]
  BY DEF TransferFederation, records, owned, counts
<1>2. /\ bridge = Len(bridges) /\ Len(bridges) \in Nat /\ fed = Len(feds) /\ Len(feds) \in Nat
  BY LenProperties DEF StateInv, ContractsInv
<1>3. ASSUME NEW D, Comes(s, D), Reached(D)
      PROVE  StateInv' /\ Reached(D \cup {s})'
  <2>1. bridge # 0
    BY <1>3, ScriptsAreOrdered DEF Ordered, Reached
  <2>2. CASE Named
    <3>1. UNCHANGED bridges
      BY <1>1, <2>2
    <3>2. /\ Fresh' = Fresh /\ Named' = Named /\ Live' = Live
          /\ InService' = InService /\ NamedInService' = NamedInService
          /\ NamedIsProtected' = NamedIsProtected
      BY <1>1, <3>1, SameNetwork DEF NamedIsProtected
    <3>3. StateInv'
      <4>1. ContractsInv' /\ RefsInv'
        BY <1>1, <3>1, <3>2 DEF StateInv, ContractsInv, RefsInv
      <4>2. ServiceInv'
        BY <1>1, <3>1, <3>2 DEF StateInv, ServiceInv
      <4>3. RecordsInv' /\ NftInv'
        BY <1>1, <3>1, <3>2 DEF StateInv, RecordsInv, NftInv
      <4>. QED
        BY <4>1, <4>2, <4>3 DEF StateInv
    <3>4. bridges[bridge].federation = fed
      BY <2>1, <2>2, NamedProxies
    <3>. QED
      BY <1>1, <1>3, <2>1, <3>1, <3>2, <3>3, <3>4 DEF Reached, Recorded
  <2>3. CASE ~Named
    <3>1. bridges[bridge] \in BridgeProxies
      BY <1>2, <2>1, BridgeFields
    <3>2. /\ x \in BridgeProxies /\ x.logic = bridges[bridge].logic /\ x.federation = fed
          /\ x.allowTokens = bridges[bridge].allowTokens
      BY <1>2, <3>1 DEF BridgeProxies
    <3>3. bridges[bridge].allowTokens \in 0..Len(allows) /\ fed \in 0..Len(feds)
      BY <1>2, <2>1 DEF StateInv, RefsInv
    <3>4. bridges' = [bridges EXCEPT ![bridge] = x]
      BY <1>1, <2>3
    <3>. HIDE DEF x
    <3>5. StateInv' /\ Len(bridges') = Len(bridges) /\ bridges'[bridge] = x
      BY <1>1, <2>1, <2>3, <3>2, <3>3, <3>4, BridgeObeys
    <3>6. Named' = Named /\ Live' = Live
      BY <1>1, SameNetwork
    <3>. QED
      BY <1>1, <1>3, <2>1, <3>2, <3>5, <3>6 DEF Reached, Recorded
  <2>. QED
    BY <2>2, <2>3
<1>. QED
  BY <1>1, <1>3, ScriptStep

LEMMA AllowTokensHandoverStep ==
    ASSUME StateInv, CommandInv, TransferAllowTokensToBridge
    PROVE  StateInv' /\ CommandInv'
<1>. DEFINE s == "TransferAllowTokensToBridge"
            x == [bridges[bridge] EXCEPT !.allowTokens = allow]
<1>1. /\ UNCHANGED <<recorded, built, newly, bridge, fed, allow, nft, logic, feds, allows, nfts, admin,
                     primary, nftPrimary, config, network>>
      /\ At(s) /\ Advance
      /\ bridges' = IF Named THEN bridges ELSE [bridges EXCEPT ![bridge] = x]
  BY DEF TransferAllowTokensToBridge, records, owned, counts
<1>2. /\ bridge = Len(bridges) /\ Len(bridges) \in Nat
      /\ allow = Len(allows) /\ Len(allows) \in Nat
  BY LenProperties DEF StateInv, ContractsInv
<1>3. ASSUME NEW D, Comes(s, D), Reached(D)
      PROVE  StateInv' /\ Reached(D \cup {s})'
  <2>1. bridge # 0
    BY <1>3, ScriptsAreOrdered DEF Ordered, Reached
  <2>2. CASE Named
    <3>1. UNCHANGED bridges
      BY <1>1, <2>2
    <3>2. /\ Fresh' = Fresh /\ Named' = Named /\ Live' = Live
          /\ InService' = InService /\ NamedInService' = NamedInService
          /\ NamedIsProtected' = NamedIsProtected
      BY <1>1, <3>1, SameNetwork DEF NamedIsProtected
    <3>3. StateInv'
      <4>1. ContractsInv' /\ RefsInv'
        BY <1>1, <3>1, <3>2 DEF StateInv, ContractsInv, RefsInv
      <4>2. ServiceInv'
        BY <1>1, <3>1, <3>2 DEF StateInv, ServiceInv
      <4>3. RecordsInv' /\ NftInv'
        BY <1>1, <3>1, <3>2 DEF StateInv, RecordsInv, NftInv
      <4>. QED
        BY <4>1, <4>2, <4>3 DEF StateInv
    <3>4. bridges[bridge].allowTokens = allow
      BY <2>1, <2>2, NamedProxies
    <3>. QED
      BY <1>1, <1>3, <2>1, <3>1, <3>2, <3>3, <3>4 DEF Reached, Recorded
  <2>3. CASE ~Named
    <3>1. bridges[bridge] \in BridgeProxies
      BY <1>2, <2>1, BridgeFields
    <3>2. /\ x \in BridgeProxies /\ x.logic = bridges[bridge].logic /\ x.allowTokens = allow
          /\ x.federation = bridges[bridge].federation
      BY <1>2, <3>1 DEF BridgeProxies
    <3>3. bridges[bridge].federation \in 0..Len(feds) /\ allow \in 0..Len(allows)
      BY <1>2, <2>1 DEF StateInv, RefsInv
    <3>4. bridges' = [bridges EXCEPT ![bridge] = x]
      BY <1>1, <2>3
    <3>. HIDE DEF x
    <3>5. StateInv' /\ Len(bridges') = Len(bridges) /\ bridges'[bridge] = x
      BY <1>1, <2>1, <2>3, <3>2, <3>3, <3>4, BridgeObeys
    <3>6. Named' = Named /\ Live' = Live
      BY <1>1, SameNetwork
    <3>. QED
      BY <1>1, <1>3, <2>1, <3>2, <3>5, <3>6 DEF Reached, Recorded
  <2>. QED
    BY <2>2, <2>3
<1>. QED
  BY <1>1, <1>3, ScriptStep

LEMMA NftPrimaryStep ==
    ASSUME StateInv, CommandInv, TransferNftPrimary
    PROVE  StateInv' /\ CommandInv'
<1>. DEFINE s == "NftFactoryToBridge"
<1>1. /\ UNCHANGED <<recorded, built, newly, bridge, fed, allow, nft, logic, bridges, feds, allows,
                     nfts, admin, primary, config, network>>
      /\ At(s) /\ Advance /\ nftPrimary' = [nftPrimary EXCEPT ![NftFactory] = nft]
  BY DEF TransferNftPrimary, records, proxies, counts
<1>2. /\ Fresh' = Fresh /\ Named' = Named /\ Live' = Live
      /\ InService' = InService /\ NamedInService' = NamedInService
      /\ NamedIsProtected' = NamedIsProtected
  BY <1>1, SameNetwork DEF NamedIsProtected
<1>3. nft = Len(nfts) /\ Len(nfts) \in Nat /\ nftPrimary \in [{"old", "new"} -> 0..Len(nfts)]
  BY LenProperties DEF StateInv, ContractsInv, RefsInv
<1>4. ASSUME NEW D, Comes(s, D), Reached(D)
      PROVE  StateInv' /\ Reached(D \cup {s})'
  <2>1. NftFactory = "new"
    BY <1>4, ScriptsAreOrdered DEF Ordered, Reached, NftFactory
  <2>2. nftPrimary' \in [{"old", "new"} -> 0..Len(nfts)] /\ nftPrimary'["new"] = nft
    BY <1>1, <1>3, <2>1
  <2>3. StateInv'
    <3>1. ContractsInv' /\ RefsInv'
      BY <1>1, <1>2, <2>2 DEF StateInv, ContractsInv, RefsInv
    <3>2. ServiceInv'
      BY <1>1, <1>2, <2>2 DEF StateInv, ServiceInv
    <3>3. RecordsInv' /\ NftInv'
      BY <1>1, <1>2, <2>2 DEF StateInv, RecordsInv, NftInv
    <3>. QED
      BY <3>1, <3>2, <3>3 DEF StateInv
  <2>4. Reached(D \cup {s})'
    BY <1>1, <1>2, <1>4, <2>2 DEF Reached, Recorded
  <2>. QED
    BY <2>3, <2>4
<1>. QED
  BY <1>1, <1>4, ScriptStep

LEMMA SetNftBridgeStep ==
    ASSUME StateInv, CommandInv, SetNftBridge
    PROVE  StateInv' /\ CommandInv'
<1>. DEFINE s == "SetNftBridge"
            x == [feds[fed] EXCEPT !.nft = nft]
<1>1. /\ UNCHANGED <<recorded, built, newly, bridge, fed, allow, nft, logic, bridges, allows, nfts, admin,
                     primary, nftPrimary, config, network>>
      /\ At(s) /\ Advance
      /\ feds' = IF NftBridgeIsSet THEN feds ELSE [feds EXCEPT ![fed] = x]
  BY DEF SetNftBridge, records, owned, counts
<1>2. /\ Fresh' = Fresh /\ Named' = Named /\ Live' = Live
      /\ InService' = InService /\ NamedInService' = NamedInService
  BY <1>1, SameNetwork
<1>3. /\ feds \in Seq(FederationProxies) /\ fed = Len(feds) /\ Len(feds) \in Nat
      /\ nft = Len(nfts) /\ Len(nfts) \in Nat
  BY LenProperties DEF StateInv, ContractsInv
<1>4. ASSUME NEW D, Comes(s, D), Reached(D)
      PROVE  StateInv' /\ Reached(D \cup {s})'
  <2>1. fed \in 1..Len(feds) /\ nft \in 0..Len(nfts)
    <3>1. fed # 0
      BY <1>4, ScriptsAreOrdered DEF Ordered, Reached
    <3>. QED
      BY <1>3, <3>1
  <2>2. /\ feds' \in Seq(FederationProxies) /\ Len(feds') = Len(feds)
        /\ \A i \in 1..Len(feds) : /\ feds'[i].bridge = feds[i].bridge
                                   /\ feds'[i].nft = feds[i].nft \/ feds'[i].nft = nft
        /\ feds'[fed].nft = nft
    <3>1. CASE NftBridgeIsSet
      BY <1>1, <1>3, <3>1 DEF NftBridgeIsSet
    <3>2. CASE ~NftBridgeIsSet
      <4>1. feds[fed] \in FederationProxies
        BY <1>3, <2>1, ElementOfSeq
      <4>2. x \in FederationProxies /\ x.bridge = feds[fed].bridge /\ x.nft = nft
        BY <1>3, <4>1 DEF FederationProxies
      <4>3. feds' = [feds EXCEPT ![fed] = x]
        BY <1>1, <3>2
      <4>. HIDE DEF x
      <4>4. /\ feds' \in Seq(FederationProxies) /\ Len(feds') = Len(feds)
            /\ \A j \in 1..Len(feds) : feds'[j] = IF j = fed THEN x ELSE feds[j]
        BY <1>3, <4>2, <4>3, SetInPlace
      <4>. QED
        BY <2>1, <4>2, <4>4
    <3>. QED
      BY <3>1, <3>2
  <2>. HIDE DEF x
  <2>3. ContractsInv'
    BY <1>1, <2>2 DEF StateInv, ContractsInv
  <2>4. RefsInv'
    <3>1. \A i \in 1..Len(feds') :
              feds'[i].bridge \in 1..Len(bridges) /\ feds'[i].nft \in 0..Len(nfts)
      BY <2>1, <2>2 DEF StateInv, RefsInv
    <3>. QED
      BY <1>1, <2>2, <3>1 DEF StateInv, RefsInv
  <2>5. ServiceInv'
    <3>1. /\ NamedInService => Len(feds) = 1 /\ network # "ethmainnet"
          /\ ~NamedInService => ~Named
      BY <1>3, <2>1, NamedProxies DEF Named, NamedInService
    <3>2. NamedInService => feds'[1].bridge = feds[1].bridge
      BY <2>2, <3>1
    <3>. QED
      BY <1>1, <1>2, <2>2, <3>1, <3>2 DEF StateInv, ServiceInv, NamedIsProtected
  <2>6. NftInv' /\ RecordsInv'
    BY <1>1, <1>2, <1>3, <2>2 DEF StateInv, NftInv, RecordsInv
  <2>7. Reached(D \cup {s})'
    BY <1>1, <1>2, <1>4, <2>1, <2>2 DEF Reached, Recorded
  <2>. QED
    BY <2>3, <2>4, <2>5, <2>6, <2>7 DEF StateInv
<1>. QED
  BY <1>1, <1>4, ScriptStep

LEMMA ContractSteps ==
    ASSUME StateInv, CommandInv,
           \/ DeployMultiSigWallet \/ DeploySideTokenFactory \/ DeployFederation
           \/ DeployAllowTokens \/ DeployMainToken \/ DeployWRBTC \/ DeployCallWrbtc
           \/ DeployWBNB \/ DeployNftBridge \/ DeployTestNft
    PROVE  StateInv' /\ CommandInv'
<1>1. Named \in BOOLEAN /\ FactoryNamed \in BOOLEAN /\ Live \in BOOLEAN /\ FALSE \in BOOLEAN
  BY DEF Named, FactoryNamed, Live
<1>2. CASE DeployMultiSigWallet
  <2>1. FactoryNamed /\ ~Named => "MultiSigWallet" \in recorded
    <3>1. FactoryNamed /\ ~Named => primary = 1
      BY DEF FactoryNamed, InService, StateInv, ServiceInv
    <3>2. bridge = Len(bridges) /\ Len(bridges) \in Nat /\ primary \in 0..Len(bridges)
      BY LenProperties DEF StateInv, ContractsInv, RefsInv
    <3>. QED
      BY <3>1, <3>2 DEF StateInv, RecordsInv
  <2>2. ~Named => "MultiSigWallet" \in recorded'
    BY <1>2, <2>1 DEF DeployMultiSigWallet, Deploys
  <2>. QED
    BY <1>1, <1>2, <2>2, DeploysStep DEF DeployMultiSigWallet, Marks, Tokens
<1>3. CASE DeploySideTokenFactory
  <2>1. ~Named => "SideTokenFactory" \in recorded'
    BY <1>3 DEF DeploySideTokenFactory, Deploys
  <2>. QED
    BY <1>1, <1>3, <2>1, DeploysStep DEF DeploySideTokenFactory, Marks, Recorded, Tokens
<1>4. CASE DeployFederation
  <2>1. "Federation" \in recorded'
    BY <1>4 DEF DeployFederation, Deploys
  <2>. QED
    BY <1>1, <1>4, <2>1, DeploysStep DEF DeployFederation, Marks, Recorded, Tokens
<1>5. CASE DeployAllowTokens
  <2>1. "AllowTokens" \in recorded'
    BY <1>5 DEF DeployAllowTokens, Deploys
  <2>. QED
    BY <1>1, <1>5, <2>1, DeploysStep DEF DeployAllowTokens, Marks, Recorded, Tokens
<1>6. CASE DeployMainToken
  <2>1. ~Live => "MainToken" \in recorded'
    BY <1>6 DEF DeployMainToken, Deploys
  <2>. QED
    BY <1>1, <1>6, <2>1, DeploysStep DEF DeployMainToken, Marks, Recorded, Tokens
<1>7. CASE DeployWRBTC
  <2>1. ~Live => "WRBTC" \in recorded'
    BY <1>7 DEF DeployWRBTC, Deploys
  <2>. QED
    BY <1>1, <1>7, <2>1, DeploysStep DEF DeployWRBTC, Marks, Recorded, Tokens
<1>8. CASE DeployWBNB
  BY <1>1, <1>8, DeploysStep DEF DeployWBNB, Marks, Recorded, Tokens
<1>9. CASE DeployNftBridge
  BY <1>1, <1>9, DeploysStep DEF DeployNftBridge, Marks, Recorded, Tokens
<1>10. CASE DeployTestNft
  BY <1>1, <1>10, DeploysStep DEF DeployTestNft, Marks, Recorded, Tokens
<1>11. CASE DeployCallWrbtc
  BY <1>1, <1>11, DeploysStep DEF DeployCallWrbtc, Marks, Recorded, Tokens
<1>. QED
  BY <1>2, <1>3, <1>4, <1>5, <1>6, <1>7, <1>8, <1>9, <1>10, <1>11

-----------------------------------------------------------------------------
(* The steps of the operator                                                 *)

LEMMA OperatorSteps ==
    ASSUME StateInv, CommandInv,
           (\E c \in Commands : Start(c)) \/ Throw \/ Stop \/ Administration
    PROVE  StateInv' /\ CommandInv'
<1>1. ASSUME UNCHANGED <<network, records, proxies, owned, config>>
      PROVE  StateInv'
  <2>1. /\ Fresh' = Fresh /\ Named' = Named /\ Live' = Live
        /\ InService' = InService /\ NamedInService' = NamedInService
        /\ NamedIsProtected' = NamedIsProtected
    BY <1>1, SameNetwork DEF NamedIsProtected, proxies
  <2>2. ContractsInv' /\ RefsInv'
    BY <1>1 DEF StateInv, ContractsInv, RefsInv, records, proxies, owned
  <2>3. ServiceInv'
    BY <1>1, <2>1 DEF StateInv, ServiceInv, records, proxies, owned
  <2>4. RecordsInv' /\ NftInv'
    BY <1>1 DEF StateInv, RecordsInv, NftInv, records, proxies, owned
  <2>. QED
    BY <2>2, <2>3, <2>4 DEF StateInv
<1>2. ASSUME NEW c \in Commands, Start(c)
      PROVE  StateInv' /\ CommandInv'
  <2>1. c \in Seq(Steps) /\ Len(c) \in Nat \ {0}
    BY CommandsAreLists
  <2>2. command' = SubSeq(c, 1, Len(c)) /\ 1 \in 1..Len(c)
    BY <1>2, <2>1, SubSeqFull DEF Start
  <2>3. Done(c, 1) = {}
    BY DEF Done
  <2>4. Reached(Done(c, 1))'
    BY <2>3 DEF Reached
  <2>5. CommandInv'
    BY <2>2, <2>4 DEF CommandInv
  <2>. QED
    BY <1>1, <1>2, <2>5 DEF Start
<1>3. CASE Throw
  BY <1>1, <1>3 DEF Throw, CommandInv, Running, counts
<1>4. CASE Stop
  BY <1>1, <1>4 DEF Stop, CommandInv, Running
<1>5. CASE Administration
  <2>1. BridgesKept /\ FedsKept /\ AllowsKept /\ NftsKept
    BY <1>5, AdministrationKeeps
  <2>2. UNCHANGED <<command, network, records, owned, config, halted>>
    BY <1>5, AdministrationKeeps
  <2>3. StateInv'
    BY <2>1, <2>2, KeptRefs, KeptNft DEF StateInv
  <2>4. ~Running
    BY <1>5 DEF Administration, AddFederatorMember, DeleteFederatorMember, SetAllowToken,
                RemoveAllowToken, SetWrappedCurrency, CreateTokensERC20Rsk, CreateRifToken,
                CreateSideToken, CreateSideNftToken, ChangeSideTokenFactoryNFT, Edit
  <2>. QED
    BY <2>2, <2>3, <2>4 DEF CommandInv, Running
<1>. QED
  BY <1>2, <1>3, <1>4, <1>5

-----------------------------------------------------------------------------
(* ProxyAdmin                                                                *)

(* Only the two steps of its script concern ProxyAdmin.                      *)
LEMMA OtherScripts ==
    ASSUME Script, ~DeployProxyAdmin, ~TransferProxyAdmin
    PROVE  /\ ~At("ProxyAdminOwner") /\ UNCHANGED <<admin, halted>>
           /\ "ProxyAdmin" \in recorded' => "ProxyAdmin" \in recorded
<1>1. CASE DeployMultiSigWallet \/ DeploySideTokenFactory \/ DeployFederation
           \/ DeployAllowTokens \/ DeployMainToken
  BY <1>1 DEF DeployMultiSigWallet, DeploySideTokenFactory, DeployFederation,
              DeployAllowTokens, DeployMainToken, Deploys, At, owned, counts
<1>2. CASE DeployWRBTC \/ DeployCallWrbtc \/ DeployWBNB \/ DeployNftBridge
           \/ DeployTestNft \/ DeployNftFactory
  BY <1>2 DEF DeployWRBTC, DeployCallWrbtc, DeployWBNB, DeployNftBridge, DeployTestNft,
              DeployNftFactory, Deploys, At, owned, counts
<1>3. CASE DeployBridge \/ DeployBridgeProxy \/ DeployFederationProxy
           \/ DeployAllowTokensProxy \/ DeployNftBridgeProxy
  BY <1>3 DEF DeployBridge, DeployBridgeProxy, DeployFederationProxy, DeployAllowTokensProxy,
              DeployNftBridgeProxy, At, owned, counts
<1>4. CASE SetTokens \/ TransferAllowTokens \/ TransferPrimary \/ TransferFederation
           \/ TransferAllowTokensToBridge
  BY <1>4 DEF SetTokens, TransferAllowTokens, TransferPrimary, TransferFederation,
              TransferAllowTokensToBridge, At, records, owned, counts
<1>5. CASE BridgeSetWrappedCurrency \/ UpgradeBridge \/ TransferNftPrimary \/ SetNftBridge
           \/ CreateConfigFile \/ CreateConfigFileV3
  BY <1>5 DEF BridgeSetWrappedCurrency, UpgradeBridge, TransferNftPrimary, SetNftBridge,
              CreateConfigFile, CreateConfigFileV3, WriteConfig, At, records, owned, counts
<1>. QED
  BY <1>1, <1>2, <1>3, <1>4, <1>5 DEF Script

LEMMA AdminStep ==
    ASSUME StateInv, AdminInv, CommandInv, DeployNext
    PROVE  AdminInv'
<1>1. CASE \E c \in Commands : Start(c)
  BY <1>1 DEF Start, AdminInv, At, Running, records, owned
<1>2. CASE Script /\ ~DeployProxyAdmin /\ ~TransferProxyAdmin
  BY <1>2, OtherScripts DEF AdminInv
<1>3. CASE DeployProxyAdmin
  <2>1. ~At("ProxyAdminOwner") /\ UNCHANGED halted
    BY <1>3 DEF DeployProxyAdmin, At, counts
  <2>2. CASE newly'
    <3>1. PICK c \in Commands :
               \E i \in 1..Len(c) : command = SubSeq(c, i, Len(c)) /\ Reached(Done(c, i))
      BY <1>3 DEF CommandInv, DeployProxyAdmin, At
    <3>2. PICK i \in 1..Len(c) : command = SubSeq(c, i, Len(c))
      BY <3>1
    <3>3. c[i] = "ProxyAdmin" /\ command' = SubSeq(c, i + 1, Len(c))
      BY <1>3, <3>2, AtStep DEF DeployProxyAdmin, At, Advance
    <3>4. i + 1 \in 1..Len(c) /\ c[i + 1] = "ProxyAdminOwner"
      BY <3>3, TransferFollows
    <3>5. command' # <<>> /\ Head(command') = "ProxyAdminOwner"
      BY <3>3, <3>4, Left
    <3>. QED
      BY <2>1, <2>2, <3>5 DEF AdminInv, At, Running
  <2>3. CASE ~newly'
    <3>1. admin' = admin /\ ("ProxyAdmin" \in recorded' => "ProxyAdmin" \in recorded)
      BY <1>3, <2>3 DEF DeployProxyAdmin, StateInv, RefsInv
    <3>. QED
      BY <2>1, <3>1 DEF AdminInv
  <2>. QED
    BY <2>2, <2>3
<1>4. CASE TransferProxyAdmin
  BY <1>4 DEF TransferProxyAdmin, AdminInv, records, counts
<1>5. CASE Throw
  <2>1. At("ProxyAdminOwner") => LookedUp = {}
    BY DEF LookedUp, At
  <2>2. ~At("ProxyAdminOwner")
    BY <1>5, <2>1 DEF Throw, Reverts, At
  <2>. QED
    BY <1>5, <2>2 DEF Throw, AdminInv, records, owned, counts
<1>6. CASE Stop
  <2>1. Head(command) \in Steps
    BY <1>6, AtStep DEF Stop, CommandInv
  <2>. QED
    BY <1>6, <2>1 DEF Stop, AdminInv, At, records, owned
<1>7. CASE Administration
  <2>1. UNCHANGED <<command, network, records, owned, config, halted>>
    BY <1>7, AdministrationKeeps
  <2>. QED
    BY <2>1 DEF AdminInv, At, Running, records, owned
<1>. QED
  BY <1>1, <1>2, <1>3, <1>4, <1>5, <1>6, <1>7 DEF DeployNext

-----------------------------------------------------------------------------
(* The invariant, and what follows from it                                   *)

LEMMA ScriptsKeep ==
    ASSUME StateInv, CommandInv, Script
    PROVE  StateInv' /\ CommandInv'
<1>1. CASE DeployMultiSigWallet \/ DeploySideTokenFactory \/ DeployFederation
           \/ DeployAllowTokens \/ DeployMainToken \/ DeployWRBTC \/ DeployCallWrbtc
           \/ DeployWBNB \/ DeployNftBridge \/ DeployTestNft
  BY <1>1, ContractSteps
<1>2. CASE DeployNftFactory \/ DeployBridge \/ DeployProxyAdmin \/ TransferProxyAdmin
  BY <1>2, NftFactoryStep, BridgeCodeStep, ProxyAdminSteps
<1>3. CASE DeployBridgeProxy \/ DeployFederationProxy \/ DeployAllowTokensProxy
           \/ DeployNftBridgeProxy
  BY <1>3, BridgeProxyStep, FederationProxyStep, AllowTokensProxyStep, NftBridgeProxyStep
<1>4. CASE SetTokens \/ TransferAllowTokens \/ TransferPrimary \/ TransferFederation
           \/ TransferAllowTokensToBridge
  BY <1>4, SetTokensStep, AllowTokensOwnerStep, PrimaryStep, FederationHandoverStep,
     AllowTokensHandoverStep
<1>5. CASE BridgeSetWrappedCurrency \/ UpgradeBridge \/ TransferNftPrimary \/ SetNftBridge
           \/ CreateConfigFile \/ CreateConfigFileV3
  BY <1>5, CurrencyStep, UpgradeStep, NftPrimaryStep, SetNftBridgeStep, ConfigStep
<1>. QED
  BY <1>1, <1>2, <1>3, <1>4, <1>5 DEF Script

LEMMA DeployStep == DeployInv /\ [DeployNext]_deployVars => DeployInv'
<1>. SUFFICES ASSUME DeployInv, [DeployNext]_deployVars
              PROVE  DeployInv'
  OBVIOUS
<1>1. StateInv /\ AdminInv /\ CommandInv
  BY DEF DeployInv
<1>2. CASE DeployNext
  <2>1. StateInv' /\ CommandInv'
    BY <1>1, <1>2, OperatorSteps, ScriptsKeep DEF DeployNext
  <2>. QED
    BY <1>1, <1>2, <2>1, AdminStep DEF DeployInv
<1>3. CASE UNCHANGED deployVars
  <2>1. UNCHANGED <<command, recorded, built, newly, bridge, fed, allow, nft, logic, bridges, feds, allows,
                    nfts, admin, primary, nftPrimary, config, network, halted>>
    BY <1>3 DEF deployVars, records, proxies, owned, counts
  <2>2. /\ Fresh' = Fresh /\ Named' = Named /\ Live' = Live
        /\ InService' = InService /\ NamedInService' = NamedInService
        /\ NamedIsProtected' = NamedIsProtected
    BY <2>1, SameNetwork DEF NamedIsProtected
  <2>3. StateInv'
    <3>1. ContractsInv' /\ RefsInv'
      BY <1>1, <2>1, <2>2 DEF StateInv, ContractsInv, RefsInv
    <3>2. ServiceInv'
      BY <1>1, <2>1, <2>2 DEF StateInv, ServiceInv
    <3>3. RecordsInv' /\ NftInv'
      BY <1>1, <2>1, <2>2 DEF StateInv, RecordsInv, NftInv
    <3>. QED
      BY <3>1, <3>2, <3>3 DEF StateInv
  <2>4. \A D : Reached(D) => Reached(D)'
    BY <2>1, <2>2 DEF Reached
  <2>5. CommandInv'
    BY <1>1, <2>1, <2>4 DEF CommandInv, Running
  <2>6. AdminInv'
    BY <1>1, <2>1 DEF AdminInv, At, Running
  <2>. QED
    BY <2>3, <2>5, <2>6 DEF DeployInv
<1>. QED
  BY <1>2, <1>3

LEMMA NothingStart ==
    ASSUME DeployInit, NothingDeployed, ~InService
    PROVE  StateInv /\ AdminInv
<1>1. network \in Networks /\ newly = FALSE /\ halted = {} /\ built = {}
  BY DEF DeployInit
<1>2. bridges = <<>> /\ feds = <<>> /\ allows = <<>> /\ nfts = <<>>
  BY DEF NothingDeployed
<1>3. Len(<<>>) = 0 /\ \A S : <<>> \in Seq(S)
  BY EmptySeq
<1>4. ContractsInv
  BY <1>2, <1>3 DEF ContractsInv, NothingDeployed
<1>5. RefsInv
  <2>1. /\ Len(bridges) = 0 /\ Len(feds) = 0 /\ Len(allows) = 0 /\ Len(nfts) = 0
        /\ logic = 0 /\ admin = "deployer" /\ primary = 0
        /\ nftPrimary = [old |-> 0, new |-> 0]
    BY <1>2, <1>3 DEF NothingDeployed, Deployer
  <2>2. 0 \in 0..0 /\ \A i \in 1..0 : FALSE
    OBVIOUS
  <2>3. nftPrimary \in [{"old", "new"} -> 0..0]
    BY <2>1, <2>2
  <2>. QED
    BY <1>1, <2>1, <2>2, <2>3 DEF RefsInv
<1>6. ServiceInv
  <2>1. ~NamedInService /\ (Named => network = "ethmainnet") /\ recorded = {}
    BY DEF InService, NamedInService, Named, NothingDeployed
  <2>. QED
    BY <1>1, <1>2, <1>3, <2>1 DEF ServiceInv, NamedIsProtected
<1>7. RecordsInv /\ NftInv /\ AdminInv
  BY <1>1, <1>2, <1>3 DEF RecordsInv, NftInv, AdminInv, NothingDeployed
<1>. QED
  BY <1>4, <1>5, <1>6, <1>7 DEF StateInv

LEMMA ServiceStart ==
    ASSUME DeployInit, Version3InService, InService
    PROVE  StateInv /\ AdminInv
<1>1. network \in Networks /\ newly = FALSE /\ halted = {} /\ built = {}
  BY DEF DeployInit
<1>. DEFINE k == NftsInService
            F == OldFederation(k)
            N == OldNftBridge(IF Named THEN "old" ELSE "earlier")
<1>2. k \in {0, 1} /\ (k = 0 <=> network = "kovan")
  BY DEF NftsInService
<1>3. /\ OldBridge \in BridgeProxies /\ F \in FederationProxies
      /\ OldAllowTokens \in AllowTokensProxies /\ N \in NftBridgeProxies
  BY <1>2 DEF OldBridge, OldFederation, OldAllowTokens, OldNftBridge, BridgeProxies, TokenNames,
         FederationProxies, MemberNames, NoArgument, AllowTokensProxies, NftBridgeProxies,
         FactoryNames
<1>4. N.federation = 1 /\ N.arg.factory \in {"old", "earlier"}
  BY DEF OldNftBridge
<1>5. /\ OldBridge.federation = 1 /\ OldBridge.allowTokens = 1 /\ OldBridge.wrapped = "WRBTC"
      /\ F.bridge = 1 /\ F.nft = k
      /\ OldAllowTokens.bridge = 1 /\ OldAllowTokens.owner = "multiSig"
  BY DEF OldBridge, OldFederation, OldAllowTokens
<1>6. nfts = (IF network = "kovan" THEN <<>> ELSE <<N>>) /\ feds = <<F>>
  BY DEF Version3InService
<1>7. \E p \in {0, 1} : p <= k /\ nftPrimary = [old |-> p, new |-> 0]
  <2>1. PICK p \in (IF Named THEN {k} ELSE {Deployer, 1}) : nftPrimary = [old |-> p, new |-> Deployer]
    BY DEF Version3InService
  <2>2. ~Named => network # "kovan"
    BY DEF Named
  <2>. QED
    BY <1>2, <2>1, <2>2 DEF Deployer
<1>8. /\ bridge = 1 /\ fed = 1 /\ allow = 1 /\ nft = k /\ logic = 3
      /\ admin = "multiSig" /\ primary = 1
      /\ config = [bridge |-> 1, fed |-> 1, allow |-> 1, nft |-> k]
  BY DEF Version3InService
<1>9. {"MultiSigWallet", "Bridge", "AllowTokens"} \subseteq recorded
      /\ (network # "kovan" => "Federation" \in recorded)
  <2>1. recorded = Earlier
    BY DEF Version3InService
  <2>2. Erc20Records \subseteq Earlier /\ (network # "kovan" => "Federation" \in Earlier)
    BY DEF Earlier, InService
  <2>. QED
    BY <2>1, <2>2 DEF Erc20Records
<1>. HIDE DEF N, F, k
<1>10. /\ bridges[1] = OldBridge /\ feds[1] = F /\ allows[1] = OldAllowTokens
       /\ Len(bridges) = 1 /\ Len(feds) = 1 /\ Len(allows) = 1
       /\ bridges \in Seq(BridgeProxies) /\ feds \in Seq(FederationProxies)
       /\ allows \in Seq(AllowTokensProxies)
  <2>1. bridges = <<OldBridge>> /\ allows = <<OldAllowTokens>>
    BY DEF Version3InService
  <2>. QED
    BY <1>3, <1>6, <2>1
<1>11. /\ nfts \in Seq(NftBridgeProxies) /\ Len(nfts) = k
       /\ k = 1 => nfts[1] = N
  <2>1. CASE network = "kovan"
    BY <1>2, <1>6, <2>1, EmptySeq
  <2>2. CASE network # "kovan"
    BY <1>2, <1>3, <1>6, <2>2
  <2>. QED
    BY <2>1, <2>2
<1>12. ContractsInv
  BY <1>8, <1>10, <1>11 DEF ContractsInv
<1>13. RefsInv
  <2>1. 0 \in 0..1 /\ 1 \in 0..1 /\ 1 \in 1..1 /\ \A i \in 1..1 : i = 1
    OBVIOUS
  <2>2. k \in 0..k /\ \A i \in 1..k : i = 1 /\ k = 1
    BY <1>2
  <2>3. /\ \A i \in 1..1 : bridges[i].federation \in 0..1 /\ bridges[i].allowTokens \in 0..1
        /\ \A i \in 1..1 : feds[i].bridge \in 1..1 /\ feds[i].nft \in 0..k
        /\ \A i \in 1..k : nfts[i].federation \in 1..1
        /\ \A i \in 1..1 : allows[i].bridge \in 1..1
    BY <1>4, <1>5, <1>10, <1>11, <2>1, <2>2
  <2>4. nftPrimary \in [{"old", "new"} -> 0..k]
    BY <1>2, <1>7
  <2>5. built \subseteq recorded
    BY <1>1
  <2>. QED
    BY <1>1, <1>8, <1>10, <1>11, <2>1, <2>3, <2>4, <2>5 DEF RefsInv
<1>14. ServiceInv
  <2>1. ~Fresh /\ network # "ethmainnet"
    BY DEF Fresh, InService
  <2>. QED
    BY <1>1, <1>5, <1>8, <1>10, <2>1 DEF ServiceInv, NamedIsProtected
<1>15. RecordsInv
  BY <1>9 DEF RecordsInv
<1>16. NftInv
  <2>1. config.nft = k /\ config \in [bridge : Nat, fed : Nat, allow : Nat, nft : Nat]
    BY <1>2, <1>8
  <2>2. k # 0 => nfts[nft].arg.factory # "new"
    BY <1>2, <1>4, <1>8, <1>11
  <2>. QED
    BY <1>2, <1>5, <1>8, <1>10, <1>11, <2>1, <2>2 DEF NftInv
<1>17. AdminInv
  BY <1>1, <1>8 DEF AdminInv
<1>. QED
  BY <1>12, <1>13, <1>14, <1>15, <1>16, <1>17 DEF StateInv

LEMMA DeployStart == DeployInit => DeployInv
<1>. SUFFICES ASSUME DeployInit
              PROVE  DeployInv
  OBVIOUS
<1>1. CommandInv
  BY DEF DeployInit, CommandInv, Running
<1>2. \/ NothingDeployed /\ ~InService
      \/ Version3InService /\ InService
  BY DEF DeployInit, InService, Networks
<1>. QED
  BY <1>1, <1>2, NothingStart, ServiceStart DEF DeployInv

LEMMA DeployInvariant == DeploySpec => []DeployInv
BY DeployStart, DeployStep, PTL DEF DeploySpec

(* Each record names a contract on the chain, each contract refers to        *)
(* contracts that are there, and a command has a rest of one of the lists    *)
(* left.                                                                     *)
THEOREM DeployTypes == DeploySpec => []DeployTypeOK
<1>1. DeployInv => DeployTypeOK
  <2>. SUFFICES ASSUME DeployInv
                PROVE  DeployTypeOK
    OBVIOUS
  <2>1. /\ DOMAIN bridges = 1..Len(bridges) /\ Len(bridges) \in Nat
        /\ DOMAIN feds = 1..Len(feds) /\ Len(feds) \in Nat
        /\ DOMAIN allows = 1..Len(allows) /\ Len(allows) \in Nat
        /\ DOMAIN nfts = 1..Len(nfts) /\ Len(nfts) \in Nat
    BY LenProperties DEF DeployInv, StateInv, ContractsInv
  <2>2. \E c \in Commands, n \in 1..30 : command = SubSeq(c, n, Len(c))
    <3>1. CASE Running
      <4>1. PICK c \in Commands :
                 \E i \in 1..Len(c) : command = SubSeq(c, i, Len(c)) /\ Reached(Done(c, i))
        BY <3>1 DEF DeployInv, CommandInv
      <4>2. c \in {Default, NftOnly, Upgrade}
        BY DEF Commands
      <4>3. Len(c) \in {29, 16, 2}
        BY <4>2, Lengths
      <4>4. PICK i \in 1..Len(c) : command = SubSeq(c, i, Len(c))
        BY <4>1
      <4>5. \A n \in {29, 16, 2} : 1..n \subseteq 1..30
        OBVIOUS
      <4>. QED
        BY <4>3, <4>4, <4>5, Zenon
    <3>2. CASE ~Running
      <4>1. Default \in Seq(Steps) /\ Default \in Commands
        BY CommandsAreLists DEF Commands
      <4>2. SubSeq(Default, 30, Len(Default)) = <<>>
        BY <4>1, Lengths, SubSeqEmpty
      <4>3. command = SubSeq(Default, 30, Len(Default))
        BY <3>2, <4>2, Zenon DEF Running
      <4>4. 30 \in 1..30
        OBVIOUS
      <4>. QED
        BY <4>1, <4>3, <4>4, Zenon
    <3>. QED
      BY <3>1, <3>2
  <2>3. \A i \in 1..Len(allows) : allows[i].owner \in {"deployer", "multiSig"}
    <3>. SUFFICES ASSUME NEW i \in 1..Len(allows)
                  PROVE  allows[i].owner \in {"deployer", "multiSig"}
      OBVIOUS
    <3>1. allows[i] \in AllowTokensProxies
      BY ElementOfSeq DEF DeployInv, StateInv, ContractsInv
    <3>. QED
      BY <3>1 DEF AllowTokensProxies
  <2>4. /\ bridge \in 0..Len(bridges) /\ fed \in 0..Len(feds)
        /\ allow \in 0..Len(allows) /\ nft \in 0..Len(nfts)
    BY <2>1 DEF DeployInv, StateInv, ContractsInv
  <2>. QED
    BY <2>1, <2>2, <2>3, <2>4 DEF DeployInv, StateInv, RefsInv, ServiceInv, AdminInv, DeployTypeOK
<1>. QED
  BY <1>1, DeployInvariant, PTL

(* The steps between the configuration files tell which command it is and    *)
(* how far it has come: the others of that length end otherwise.             *)
LEMMA OnlyDefaultConfigures ==
    ASSUME NEW j \in 20..28, NEW c \in Commands, NEW i \in 1..Len(c),
           SubSeq(Default, j, 29) = SubSeq(c, i, Len(c))
    PROVE  c = Default /\ i = j
<1>. DEFINE q == SubSeq(c, i, Len(c))
<1>1. Default \in Commands /\ Len(Default) = 29 /\ j \in 1..29
  BY Lengths DEF Commands
<1>2. Len(q) = 30 - j /\ \A k \in 1..Len(q) : q[k] = Default[j + k - 1]
  <2>. DEFINE d == SubSeq(Default, j, Len(Default))
  <2>1. Len(d) = Len(Default) - j + 1 /\ \A k \in 1..Len(d) : d[k] = Default[j + k - 1]
    <3>1. j \in 1..Len(Default)
      BY <1>1
    <3>. QED
      BY <1>1, <3>1, Left
  <2>2. q = d
    BY <1>1
  <2>. HIDE DEF q, d
  <2>. QED
    BY <1>1, <2>1, <2>2
<1>3. Len(q) = Len(c) - i + 1 /\ \A k \in 1..Len(q) : q[k] = c[i + k - 1]
  BY Left
<1>. HIDE DEF q
<1>4. q[Len(q)] = "CreateConfigFileV3" /\ q[Len(q) - 1] = "ERC721"
  <2>1. q[30 - j] = Default[29] /\ q[29 - j] = Default[28]
    BY <1>2
  <2>2. Default[29] = "CreateConfigFileV3" /\ Default[28] = "ERC721"
    BY DEF Default
  <2>. QED
    BY <1>2, <2>1, <2>2
<1>5. Len(q) \in 2..10
  BY <1>2
<1>6. Len(c) \in Nat \ {0}
  BY CommandsAreLists
<1>7. q[Len(q)] = c[Len(c)] /\ q[Len(q) - 1] = c[Len(c) - 1]
  BY <1>3, <1>5, <1>6
<1>8. c # NftOnly
  <2>1. NftOnly[15] = "AllowTokens"
    BY DEF NftOnly
  <2>2. "AllowTokens" # "ERC721"
    OBVIOUS
  <2>3. Len(NftOnly) - 1 = 15
    BY Lengths
  <2>. QED
    BY <1>4, <1>7, <2>1, <2>2, <2>3, Zenon
<1>9. c # Upgrade
  <2>1. Upgrade[2] = "UpgradeBridge"
    BY DEF Upgrade
  <2>. QED
    BY <1>4, <1>7, <2>1, Lengths
<1>10. c = Default
  BY <1>8, <1>9 DEF Commands
<1>11. i = j
  BY <1>2, <1>3, <1>10, Lengths
<1>. QED
  BY <1>10, <1>11

(* However often and wherever earlier executions were stopped, a command     *)
(* that comes as far as writing the configuration has handed the bridge over *)
(* (deploy/05 to 13).                                                        *)
THEOREM HandedOverCorrect == DeploySpec => []HandedOver
<1>1. DeployInv => HandedOver
  <2>. SUFFICES ASSUME DeployInv, NEW j \in 20..28, command = SubSeq(Default, j, 29)
                PROVE  /\ bridges[bridge].federation = fed /\ feds[fed].bridge = bridge
                       /\ bridges[bridge].allowTokens = allow /\ allows[allow].bridge = bridge
                       /\ allows[allow].owner = "multiSig"
                       /\ Len(bridges) = 1 => primary = bridge
    BY DEF HandedOver, Configured
  <2>1. Running
    <3>1. Default \in Commands /\ Len(Default) = 29 /\ j \in 1..29
      BY Lengths DEF Commands
    <3>. QED
      BY <3>1, AtStep
  <2>2. PICK c \in Commands :
             \E i \in 1..Len(c) : command = SubSeq(c, i, Len(c)) /\ Reached(Done(c, i))
    BY <2>1 DEF DeployInv, CommandInv
  <2>3. PICK i \in 1..Len(c) : command = SubSeq(c, i, Len(c)) /\ Reached(Done(c, i))
    BY <2>2
  <2>4. c = Default /\ i = j
    BY <2>3, OnlyDefaultConfigures
  <2>5. /\ Default[8] = "FederationProxy" /\ Default[10] = "AllowTokensProxy"
        /\ Default[12] = "AllowTokensOwner" /\ Default[13] = "SideTokenFactoryToBridge"
        /\ Default[14] = "TransferFederationToBridge"
        /\ Default[15] = "TransferAllowTokensToBridge"
    BY DEF Default
  <2>6. {"FederationProxy", "AllowTokensProxy", "AllowTokensOwner", "SideTokenFactoryToBridge",
         "TransferFederationToBridge", "TransferAllowTokensToBridge"} \subseteq Done(c, i)
    <3>1. \A k \in 8..15 : Default[k] \in Done(c, i)
      BY <2>4 DEF Done
    <3>. QED
      BY <2>5, <3>1
  <2>. QED
    BY <2>3, <2>6 DEF Reached
<1>. QED
  BY <1>1, DeployInvariant, PTL

LEMMA LimitsAccepted == AcceptedTypes(TokensTypes) /\ {i - 1 : i \in DOMAIN TokensTypes} = 0..6
<1>1. AcceptedTypes(TokensTypesMainnet) /\ DOMAIN TokensTypesMainnet = 1..7
  <2>1. DOMAIN TokensTypesMainnet = 1..7
    BY DEF TokensTypesMainnet
  <2>. SUFFICES ASSUME NEW i \in 1..7
                PROVE  LET row == TokensTypesMainnet[i]
                       IN  /\ row.min <= row.max /\ row.max <= row.daily
                           /\ row.min < row.mediumAmount /\ row.mediumAmount < row.largeAmount
    BY <2>1 DEF AcceptedTypes
  <2>. QED
    BY DEF TokensTypesMainnet, LimitsRow, Ether
<1>2. AcceptedTypes(TokensTypesTestnet) /\ DOMAIN TokensTypesTestnet = 1..7
  <2>1. DOMAIN TokensTypesTestnet = 1..7
    BY DEF TokensTypesTestnet
  <2>. SUFFICES ASSUME NEW i \in 1..7
                PROVE  LET row == TokensTypesTestnet[i]
                       IN  /\ row.min <= row.max /\ row.max <= row.daily
                           /\ row.min < row.mediumAmount /\ row.mediumAmount < row.largeAmount
    BY <2>1 DEF AcceptedTypes
  <2>. QED
    BY DEF TokensTypesTestnet, LimitsRow, Ether
<1>3. \A k \in 0..6 : k + 1 \in 1..7 /\ k = (k + 1) - 1
  OBVIOUS
<1>4. {i - 1 : i \in 1..7} = 0..6
  BY <1>3
<1>. QED
  BY <1>1, <1>2, <1>4 DEF TokensTypes

(* The implementations a command looks for have a record, or it is one of    *)
(* those the repository never had.                                           *)
LEMMA ImplementationsFound ==
    ASSUME DeployInv, NEW s \in {"Bridge", "Federation", "AllowTokens"}, At(s),
           ~(LookedUp \subseteq WithRecord)
    PROVE  \/ network = "ethmainnet" /\ s \in {"Bridge", "Federation"}
           \/ network = "kovan" /\ s = "Federation"
<1>1. recorded \subseteq WithRecord /\ StateInv /\ CommandInv
  BY DEF WithRecord, DeployInv
<1>2. PICK D : Comes(s, D) /\ Reached(D)
  BY <1>1, Standing
<1>3. CASE s = "Bridge"
  <2>1. Named \/ bridge # 0
    BY <1>3 DEF LookedUp, At
  <2>2. LookedUp = {"Bridge"}
    BY <1>3, <2>1 DEF LookedUp, At
  <2>3. bridge = 0
    BY <1>1, <2>2 DEF StateInv, RecordsInv
  <2>. QED
    BY <1>1, <1>3, <2>1, <2>3, NamedProxies
<1>4. CASE s = "Federation"
  <2>1. Named \/ fed # 0
    BY <1>4 DEF LookedUp, At
  <2>2. LookedUp = {"Federation"}
    BY <1>4, <2>1 DEF LookedUp, At
  <2>3. fed = 0 \/ network = "kovan"
    BY <1>1, <2>2 DEF StateInv, RecordsInv
  <2>. QED
    BY <1>1, <1>4, <2>1, <2>3, NamedProxies
<1>5. CASE s = "AllowTokens"
  <2>1. Named \/ allow # 0
    BY <1>5 DEF LookedUp, At
  <2>2. LookedUp = {"AllowTokens"}
    BY <1>5, <2>1 DEF LookedUp, At
  <2>3. allow = 0
    BY <1>1, <2>2 DEF StateInv, RecordsInv
  <2>4. network # "ethmainnet"
    BY <1>2, <1>5, ScriptsAreOrdered DEF Ordered, Reached
  <2>. QED
    BY <1>1, <2>1, <2>3, <2>4, NamedProxies
<1>. QED
  BY <1>3, <1>4, <1>5

(* The scripts of the proxies find the records of what they are made of.     *)
LEMMA ProxiesFind ==
    ASSUME DeployInv, NEW s \in {"BridgeProxy", "FederationProxy", "AllowTokensProxy"}, At(s)
    PROVE  LookedUp \subseteq WithRecord
<1>1. recorded \subseteq WithRecord /\ (bridge # 0 => "BridgeProxy" \in WithRecord)
  BY DEF WithRecord, RecordedProxy
<1>2. PICK D : Comes(s, D) /\ Reached(D)
  BY Standing DEF DeployInv
<1>3. Ordered(s, D)
  BY <1>2, ScriptsAreOrdered
<1>4. "Bridge" \in D => "Bridge" \in recorded
  BY <1>2 DEF Reached
<1>5. "BridgeProxy" \in D => bridge # 0
  BY <1>2 DEF Reached
<1>6. ~Named => D \cap Recorded \subseteq recorded
  BY <1>2 DEF Reached
<1>7. CASE Named
  BY <1>7 DEF LookedUp, At
<1>8. CASE s = "BridgeProxy" /\ ~Named
  <2>1. LookedUp = {"Bridge", "MultiSigWallet", "ProxyAdmin", "SideTokenFactory"}
    BY <1>8 DEF LookedUp, At
  <2>. QED
    BY <1>1, <1>3, <1>4, <1>6, <1>8, <2>1 DEF Ordered, Recorded
<1>9. CASE s = "FederationProxy" /\ ~Named
  <2>1. LookedUp = {"Federation", "ProxyAdmin", "MultiSigWallet", "BridgeProxy"}
    BY <1>9 DEF LookedUp, At
  <2>. QED
    BY <1>1, <1>3, <1>5, <1>6, <1>9, <2>1 DEF Ordered, Recorded
<1>10. CASE s = "AllowTokensProxy" /\ ~Named
  <2>1. LookedUp = {"AllowTokens", "ProxyAdmin", "BridgeProxy"}
    BY <1>10 DEF LookedUp, At
  <2>. QED
    BY <1>1, <1>3, <1>5, <1>6, <1>10, <2>1 DEF Ordered, Recorded
<1>. QED
  BY <1>7, <1>8, <1>9, <1>10

(* So do those that hand the contracts over.                                 *)
LEMMA HandoverFinds ==
    ASSUME DeployInv,
           NEW s \in {"SetTokens", "SideTokenFactoryToBridge", "TransferFederationToBridge",
                      "TransferAllowTokensToBridge", "BridgeSetWrappedCurrency",
                      "CreateConfigFile"},
           At(s)
    PROVE  LookedUp \subseteq WithRecord
<1>1. /\ recorded \subseteq WithRecord
      /\ bridge # 0 => "BridgeProxy" \in WithRecord
      /\ fed # 0 => "FederationProxy" \in WithRecord
      /\ allow # 0 => "AllowTokensProxy" \in WithRecord
  BY DEF WithRecord, RecordedProxy
<1>2. PICK D : Comes(s, D) /\ Reached(D)
  BY Standing DEF DeployInv
<1>3. Ordered(s, D)
  BY <1>2, ScriptsAreOrdered
<1>4. /\ "Bridge" \in D => "Bridge" \in WithRecord
      /\ "BridgeProxy" \in D => {"BridgeProxy", "MultiSigWallet"} \subseteq WithRecord
      /\ "FederationProxy" \in D => "FederationProxy" \in WithRecord
      /\ "AllowTokensProxy" \in D => {"AllowTokensProxy", "AllowTokens"} \subseteq WithRecord
  <2>1. /\ "Bridge" \in D => "Bridge" \in recorded
        /\ "BridgeProxy" \in D => bridge # 0
        /\ "FederationProxy" \in D => fed # 0
        /\ "AllowTokensProxy" \in D => allow # 0
    BY <1>2 DEF Reached
  <2>2. /\ bridge # 0 => "MultiSigWallet" \in recorded
        /\ allow # 0 => "AllowTokens" \in recorded
    BY DEF DeployInv, StateInv, RecordsInv
  <2>. QED
    BY <1>1, <2>1, <2>2
<1>5. /\ ~Named => D \cap Recorded \subseteq WithRecord
      /\ ~Live => D \cap {"MainToken", "WRBTC"} \subseteq WithRecord
  BY <1>1, <1>2 DEF Reached
<1>6. CASE s = "SetTokens"
  <2>1. LookedUp = IF Named THEN {} ELSE {"AllowTokens", "AllowTokensProxy", "MultiSigWallet"}
    BY <1>6 DEF LookedUp, At
  <2>. QED
    BY <1>3, <1>4, <1>5, <1>6, <2>1 DEF Ordered, Recorded
<1>7. CASE s = "SideTokenFactoryToBridge"
  <2>1. LookedUp = IF FactoryNamed THEN {} ELSE {"BridgeProxy", "SideTokenFactory"}
    BY <1>7 DEF LookedUp, At
  <2>2. Named => FactoryNamed
    BY DEF FactoryNamed
  <2>. QED
    BY <1>3, <1>4, <1>5, <1>7, <2>1, <2>2 DEF Ordered, Recorded
<1>8. CASE s = "TransferFederationToBridge"
  <2>1. LookedUp = IF Named THEN {}
                   ELSE {"Bridge", "MultiSigWallet", "BridgeProxy", "FederationProxy"}
    BY <1>8 DEF LookedUp, At
  <2>. QED
    BY <1>3, <1>4, <1>8, <2>1 DEF Ordered
<1>9. CASE s = "TransferAllowTokensToBridge"
  <2>1. LookedUp = IF Named THEN {}
                   ELSE {"Bridge", "MultiSigWallet", "BridgeProxy", "AllowTokensProxy"}
    BY <1>9 DEF LookedUp, At
  <2>. QED
    BY <1>3, <1>4, <1>9, <2>1 DEF Ordered
<1>10. CASE s = "BridgeSetWrappedCurrency"
  <2>1. LookedUp = IF Named THEN {}
                   ELSE {"Bridge", "BridgeProxy", "MultiSigWallet"}
                            \cup IF Live THEN {} ELSE {"WRBTC", "AllowTokens", "AllowTokensProxy"}
    BY <1>10 DEF LookedUp, At
  <2>. QED
    BY <1>3, <1>4, <1>5, <1>10, <2>1 DEF Ordered
<1>11. CASE s = "CreateConfigFile"
  <2>1. LookedUp = {"BridgeProxy", "FederationProxy", "MultiSigWallet", "AllowTokensProxy"}
                       \cup IF Live THEN {} ELSE {"AllowTokens", "MainToken"}
    BY <1>11 DEF LookedUp, At
  <2>. QED
    BY <1>3, <1>4, <1>5, <1>11, <2>1 DEF Ordered
<1>. QED
  BY <1>6, <1>7, <1>8, <1>9, <1>10, <1>11

(* The scripts of the ERC-20 bridge can be executed again from any state:    *)
(* what an interrupted execution left never makes one of their calls revert  *)
(* (deploy/11 checks the primary before it transfers it) and leaves out no   *)
(* record that a later one looks for, but for those of implementations the   *)
(* repository never had (deploy/04:11 and 06:11).                            *)
THEOREM RepeatCorrect == DeploySpec => []CanBeRepeated
<1>1. DeployInv => CanBeRepeated
  <2>. SUFFICES ASSUME DeployInv, Running, NEW i \in 1..19, Head(command) = Default[i], Reverts
                PROVE  \/ network = "ethmainnet" /\ Head(command) \in {"Bridge", "Federation"}
                       \/ network = "kovan" /\ Head(command) = "Federation"
    BY DEF CanBeRepeated
  <2>1. Head(command) \notin {"UpgradeBridge", "CallWrbtc", "NftFactoryToBridge",
                              "NftBridgeProxy", "SetNftBridge", "CreateConfigFileV3"}
    BY DEF Default
  <2>2. network \in DOMAIN ListedTypes => ListedTypes[network] \subseteq 0..6
    <3>1. DOMAIN ListedTypes =
              {"rsktestnet", "kovan", "bsctestnet", "rskmainnet", "ethmainnet"}
      BY DEF ListedTypes
    <3>2. /\ ListedTypes["rsktestnet"] = {0, 1, 3, 4, 5} /\ ListedTypes["kovan"] = {0, 1, 3, 4, 5}
          /\ ListedTypes["bsctestnet"] = {0, 1, 2, 4} /\ ListedTypes["rskmainnet"] = {3, 4, 5, 6}
          /\ ListedTypes["ethmainnet"] = {0, 1, 3, 4, 5, 6}
      BY DEF ListedTypes
    <3>. QED
      BY <3>1, <3>2
  <2>3. ~(MustTransferPrimary /\ primary # Deployer)
    <3>1. bridge = Len(bridges) /\ Len(bridges) \in Nat /\ primary \in 0..Len(bridges)
      BY LenProperties DEF DeployInv, StateInv, ContractsInv, RefsInv
    <3>2. ~FactoryNamed => Len(bridges) <= 1
      BY DEF DeployInv, StateInv, ServiceInv, Networks, Fresh, FactoryNamed, Named
    <3>. QED
      BY <3>1, <3>2 DEF MustTransferPrimary, Deployer
  <2>4. ~(LookedUp \subseteq WithRecord)
    BY <2>1, <2>2, <2>3, LimitsAccepted DEF Reverts, At
  <2>5. LookedUp # {}
    BY <2>4
  <2>6. Head(command) \in {"Bridge", "Federation", "AllowTokens", "BridgeProxy",
                           "FederationProxy", "AllowTokensProxy", "SetTokens",
                           "SideTokenFactoryToBridge", "TransferFederationToBridge",
                           "TransferAllowTokensToBridge", "BridgeSetWrappedCurrency",
                           "CreateConfigFile"}
    BY <2>1, <2>5 DEF LookedUp, At
  <2>7. CASE Head(command) \in {"Bridge", "Federation", "AllowTokens"}
    BY <2>4, <2>7, ImplementationsFound DEF At
  <2>8. Head(command) \notin {"BridgeProxy", "FederationProxy", "AllowTokensProxy"}
    BY <2>4, ProxiesFind DEF At
  <2>9. Head(command) \notin {"SetTokens", "SideTokenFactoryToBridge",
                              "TransferFederationToBridge", "TransferAllowTokensToBridge",
                              "BridgeSetWrappedCurrency", "CreateConfigFile"}
    BY <2>4, HandoverFinds DEF At
  <2>. QED
    BY <2>6, <2>7, <2>8, <2>9
<1>. QED
  BY <1>1, DeployInvariant, PTL

(* The deployer remains the owner of ProxyAdmin only if an execution was     *)
(* stopped between its deployment and the transfer (deploy/02:17), and the   *)
(* contracts a configuration for the NFTs names trust each other unless one  *)
(* of them was deployed a second time (deploy/07:16, nftbridge/03).          *)
THEOREM StopsCorrect == DeploySpec => []OnlyStopsAndRepeatsHarm
<1>1. DeployInv => OnlyStopsAndRepeatsHarm
  <2>. SUFFICES ASSUME DeployInv
                PROVE  OnlyStopsAndRepeatsHarm
    OBVIOUS
  <2>1. ASSUME config.nft # 0, config.nft = nft, Len(feds) = 1
        PROVE  /\ bridges[bridge].federation \in {fed, Deployer}
               /\ feds[fed].nft = nft /\ nfts[nft].federation = fed
               /\ nfts[nft].arg.factory = "new" => nftPrimary["new"] = nft
    <3>1. fed = 1 /\ bridge = Len(bridges) /\ nft \in 1..Len(nfts)
      BY <2>1, LenProperties DEF DeployInv, StateInv, ContractsInv
    <3>2. bridge \in 1..Len(bridges)
      <4>1. feds[1].bridge \in 1..Len(bridges) /\ Len(bridges) \in Nat
        BY <2>1, LenProperties DEF DeployInv, StateInv, ContractsInv, RefsInv
      <4>. QED
        BY <3>1, <4>1
    <3>3. bridges[bridge].federation \in 0..1 /\ nfts[nft].federation \in 1..1
      BY <2>1, <3>1, <3>2 DEF DeployInv, StateInv, RefsInv
    <3>4. /\ feds[1].nft = nft
          /\ nfts[nft].arg.factory = "new" => nftPrimary["new"] = nft
      BY <2>1, <3>1 DEF DeployInv, StateInv, NftInv
    <3>. QED
      BY <3>1, <3>3, <3>4 DEF Deployer
  <2>. QED
    BY <2>1 DEF OnlyStopsAndRepeatsHarm, DeployInv, AdminInv
<1>. QED
  BY <1>1, DeployInvariant, PTL

(* The addresses named in hardhat.config.js protect a bridge in service: no  *)
(* command replaces its proxy, its federation or its AllowTokens, nor undoes *)
(* the currency an operator chose (the early returns of bridge/deploy).      *)
THEOREM NamedCorrect == DeploySpec => []NamedIsProtected
BY DeployInvariant, PTL DEF DeployInv, StateInv, ServiceInv
=============================================================================
