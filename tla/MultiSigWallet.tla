--------------------------- MODULE MultiSigWallet ---------------------------
(***************************************************************************)
(* The MultiSigWallet contract (bridge/contracts/MultiSigWallet.sol), the  *)
(* owner of the federation, the bridge and AllowTokens.  Its owners submit *)
(* and confirm transactions; the confirmation that completes the required  *)
(* number executes the transaction.  A transaction may call the wallet     *)
(* itself, which is the only way to change the owners, or another contract,*)
(* whose call may succeed or fail.                                         *)
(*                                                                         *)
(* A called contract does not call the wallet back: it would have to be an *)
(* owner to change anything.                                               *)
(***************************************************************************)
EXTENDS AddressArray

CONSTANTS
    Addresses,    \* the accounts that may be owners
    Null,         \* the null address; replaceOwner does not check for it
    MaxOwners,    \* MAX_OWNER_COUNT, 50 in the code
    MaxTxs,       \* the number of transactions (bounds the model)
    Offered       \* the calls that owners submit

Accounts == Addresses \cup {Null}
Requirements == 0..MaxOwners

(* What a transaction does when it is executed. *)
Calls ==
    [op: {"addOwner", "removeOwner"}, owner: Accounts]
    \cup [op: {"replaceOwner"}, owner: Accounts, newOwner: Accounts]
    \cup [op: {"changeRequirement"}, required: Requirements]
    \cup [op: {"external"}]

ASSUME WalletConstants ==
    /\ Null \notin Addresses
    /\ MaxOwners \in Nat \ {0}
    /\ MaxTxs \in Nat
    /\ IsFiniteSet(Addresses)
    /\ Offered \subseteq Calls

VARIABLES
    owners,        \* the array of owners
    isOwner,       \* the addresses mapped to true by isOwner
    required,      \* confirmations a transaction needs
    transactions,  \* the calls, in the order of their ids
    executed,      \* the ids of the transactions with executed = true
    confirmations, \* confirmations[id]: who confirmed
    executions     \* history: executions[id]: how often the call succeeded

ownerVars  == <<owners, isOwner, required>>
walletVars == <<owners, isOwner, required, transactions, executed, confirmations, executions>>

TxIds == 1..MaxTxs
Submitted == DOMAIN transactions

-----------------------------------------------------------------------------
(* Mutant: nobody needs to confirm. *)
ValidRequirementOrZero(count, n) == count <= MaxOwners /\ n <= count /\ count # 0

ValidRequirement(count, n) == count <= MaxOwners /\ n <= count /\ n # 0 /\ count # 0

(* The constructor. *)
OwnerLists == {s \in UNION {[1..n -> Addresses] : n \in 1..MaxOwners} : IsInjective(s)}

Init ==
    /\ owners \in OwnerLists
    /\ isOwner = Range(owners)
    /\ required \in Requirements
    /\ ValidRequirement(Len(owners), required)
    /\ transactions = <<>>
    /\ executed = {}
    /\ confirmations = [id \in TxIds |-> {}]
    /\ executions = [id \in TxIds |-> 0]

-----------------------------------------------------------------------------
(* Calls of the wallet by itself: when they do not revert, and their effect *)

MayAddOwner(o) ==
    /\ o \notin isOwner
    /\ o # Null
    /\ ValidRequirement(Len(owners) + 1, required)

AddOwner(o) ==
    /\ isOwner' = isOwner \cup {o}
    /\ owners' = Append(owners, o)
    /\ UNCHANGED required

(* A requirement above the new number of owners follows it down; for the    *)
(* last owner that would be zero, which changeRequirement refuses.          *)
MayRemoveOwner(o) ==
    LET left == Len(owners) - 1
    IN  o \in isOwner /\ (required > left => ValidRequirement(left, left))

RemoveOwner(o) ==
    LET left == Len(owners) - 1
    IN  /\ isOwner' = isOwner \ {o}
        /\ owners' = SwapAndPop(owners, o)
        /\ required' = IF required > left THEN left ELSE required

MayReplaceOwner(o, new) == o \in isOwner /\ new \notin isOwner

ReplaceOwner(o, new) ==
    /\ isOwner' = (isOwner \ {o}) \cup {new}
    /\ owners' = [i \in DOMAIN owners |-> IF owners[i] = o THEN new ELSE owners[i]]
    /\ UNCHANGED required

ChangeRequirement(n) ==
    /\ required' = n
    /\ UNCHANGED <<owners, isOwner>>

MayCall(call) ==
    CASE call.op = "addOwner"          -> MayAddOwner(call.owner)
      [] call.op = "removeOwner"       -> MayRemoveOwner(call.owner)
      [] call.op = "replaceOwner"      -> MayReplaceOwner(call.owner, call.newOwner)
      [] call.op = "changeRequirement" -> ValidRequirement(Len(owners), call.required)
      [] call.op = "external"          -> TRUE

Call(call) ==
    CASE call.op = "addOwner"          -> AddOwner(call.owner)
      [] call.op = "removeOwner"       -> RemoveOwner(call.owner)
      [] call.op = "replaceOwner"      -> ReplaceOwner(call.owner, call.newOwner)
      [] call.op = "changeRequirement" -> ChangeRequirement(call.required)
      [] call.op = "external"          -> UNCHANGED ownerVars

-----------------------------------------------------------------------------
(* Transactions *)

(* Mutant: everybody who ever confirmed counts. *)
IsConfirmedByAnybody(id, conf) == Cardinality(conf[id]) >= required

(* The owners of this moment are scanned. *)
IsConfirmed(id, conf) ==
    Cardinality({i \in DOMAIN owners : owners[i] \in conf[id]}) >= required

(* Mutant: the mark is forgotten. *)
ExecuteAgain(id, call) ==
    \/ /\ MayCall(call)
       /\ Call(call)
       /\ executed' = executed
       /\ executions' = [executions EXCEPT ![id] = @ + 1]
    \/ UNCHANGED <<ownerVars, executed, executions>>

(* The call of a confirmed transaction: it succeeds, or it fails (it may    *)
(* always run out of gas) and the transaction may be executed again.        *)
ExecuteCall(id, call) ==
    \/ /\ MayCall(call)
       /\ Call(call)
       /\ executed' = executed \cup {id}
       /\ executions' = [executions EXCEPT ![id] = @ + 1]
    \/ UNCHANGED <<ownerVars, executed, executions>>

ExecuteIfConfirmed(id, call, conf) ==
    \/ IsConfirmed(id, conf) /\ ExecuteCall(id, call)
    \/ ~IsConfirmed(id, conf) /\ UNCHANGED <<ownerVars, executed, executions>>

WithConfirmation(o, id) == [confirmations EXCEPT ![id] = @ \cup {o}]

(* The sender of a transaction is never the null address. *)
Owner(o) == o \in isOwner \ {Null}

SubmitTransaction(o, call) ==
    LET id == Len(transactions) + 1
    IN  /\ Owner(o)
        /\ id \in TxIds
        /\ transactions' = Append(transactions, call)
        /\ confirmations' = WithConfirmation(o, id)
        /\ ExecuteIfConfirmed(id, call, WithConfirmation(o, id))

ConfirmTransaction(o, id) ==
    /\ Owner(o)
    /\ o \notin confirmations[id]
    /\ id \notin executed
    /\ confirmations' = WithConfirmation(o, id)
    /\ ExecuteIfConfirmed(id, transactions[id], WithConfirmation(o, id))
    /\ UNCHANGED transactions

RevokeConfirmation(o, id) ==
    /\ Owner(o)
    /\ o \in confirmations[id]
    /\ id \notin executed
    /\ confirmations' = [confirmations EXCEPT ![id] = @ \ {o}]
    /\ UNCHANGED <<ownerVars, transactions, executed, executions>>

MayExecute(o, id) == Owner(o) /\ o \in confirmations[id] /\ id \notin executed

ExecuteTransaction(o, id) ==
    /\ MayExecute(o, id)
    /\ IsConfirmed(id, confirmations)
    /\ ExecuteCall(id, transactions[id])
    /\ UNCHANGED <<transactions, confirmations>>

-----------------------------------------------------------------------------
Next ==
    \E o \in Addresses :
        \/ \E call \in Offered : SubmitTransaction(o, call)
        \/ \E id \in Submitted :
              \/ ConfirmTransaction(o, id)
              \/ RevokeConfirmation(o, id)
              \/ ExecuteTransaction(o, id)

Spec == Init /\ [][Next]_walletVars

-----------------------------------------------------------------------------
TypeOK ==
    /\ owners \in Seq(Accounts)
    /\ isOwner \in SUBSET Accounts
    /\ required \in Requirements
    /\ transactions \in Seq(Calls)
    /\ Len(transactions) <= MaxTxs
    /\ executed \in SUBSET TxIds
    /\ confirmations \in [TxIds -> SUBSET Addresses]
    /\ executions \in [TxIds -> Nat]

(* The owners array and the isOwner mapping describe the same accounts, the *)
(* array has no duplicates, and the requirement can be met and is not zero: *)
(* through additions, removals (which may lower the requirement) and        *)
(* replacements that the wallet decides on in any order.                    *)
OwnersConsistent ==
    /\ isOwner = Range(owners)
    /\ IsInjective(owners)
    /\ ValidRequirement(Len(owners), required)

(* A transaction is executed successfully at most once, although a failed   *)
(* one may be retried, and is marked as executed exactly then.              *)
ExecutedOnce ==
    \A id \in TxIds : executions[id] = IF id \in executed THEN 1 ELSE 0

(* No call happens without the required number of confirmations by those    *)
(* who own the wallet at that moment: neither by owners that were removed   *)
(* after they confirmed, nor after a confirmation was revoked.              *)
QuorumBehindExecution ==
    [][\A id \in TxIds : executions'[id] # executions[id] =>
          Cardinality(isOwner \cap confirmations'[id]) >= required]_walletVars

(* A transaction with enough confirmations is never stuck: one of those who *)
(* confirmed it can still execute it, also when the requirement was lowered *)
(* or its call failed before.                                               *)
ConfirmedCanBeExecuted ==
    \A id \in Submitted \ executed :
        IsConfirmed(id, confirmations) => \E o \in Addresses : MayExecute(o, id)
=============================================================================
