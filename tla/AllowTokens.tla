----------------------------- MODULE AllowTokens -----------------------------
(***************************************************************************)
(* The AllowTokens contract (bridge/contracts/AllowTokens/AllowTokens.sol).*)
(* The bridge asks it before every crossing; it knows the allowed tokens,  *)
(* each of a type, and the limits of the types, and counts what crosses in *)
(* a day.  The federators read the limits and the confirmations.           *)
(*                                                                         *)
(* Actions are calls by who may make them: the owner, and the bridge       *)
(* (the primary) for updateTokenTransfer and setToken.                     *)
(***************************************************************************)
EXTENDS Integers, Sequences

CONSTANTS
    Tokens,            \* addresses of tokens, none of them null
    Amounts,           \* amounts that cross, in units of 18 decimals
    LimitChoices,      \* limits the owner may ask for, valid or not
    Confirmations,     \* triples of confirmations the owner may ask for
    OwnerInfos,        \* infos the owner may write itself
    MaxTypes,          \* MAX_TYPES, 250 in the code
    Day,               \* 24 hours
    MaxTime,           \* the last block.timestamp (bounds the model)
    MaxDaily           \* no daily limit in LimitChoices is larger

Times == 0..MaxTime
Limits == [min: Nat, max: Nat, daily: 0..MaxDaily,
           mediumAmount: Nat, largeAmount: Nat]
TokenInfo == [allowed: BOOLEAN, typeId: Nat, spentToday: Nat, lastDay: Times]

ASSUME AllowTokensConstants ==
    /\ Amounts \subseteq Nat
    /\ MaxDaily \in Nat
    /\ MaxTypes \in Nat \ {0}
    /\ LimitChoices \subseteq Limits
    /\ Confirmations \subseteq [small: Nat, medium: Nat, large: Nat]
    /\ OwnerInfos \subseteq TokenInfo
    /\ Day \in Nat \ {0}
    /\ MaxTime \in Nat

VARIABLES
    info,          \* allowedTokens
    typeLimits,    \* the limits of type 0, 1, ... (those with a description)
    confirmations, \* small-, medium- and largeAmountConfirmations
    now,           \* block.timestamp
    total,         \* history: total[tok][t] of tok crossed at time t or earlier
    byHand         \* history: tokens whose info the owner wrote itself

history == <<total, byHand>>
vars == <<info, typeLimits, confirmations, now, total, byHand>>

-----------------------------------------------------------------------------
Ordered(c) == c.small <= c.medium /\ c.medium <= c.large

ValidLimits(l) ==
    /\ l.min <= l.max
    /\ l.max <= l.daily
    /\ l.min < l.mediumAmount
    /\ l.mediumAmount < l.largeAmount

NoInfo == [allowed |-> FALSE, typeId |-> 0, spentToday |-> 0, lastDay |-> 0]
NoLimits == [min |-> 0, max |-> 0, daily |-> 0, mediumAmount |-> 0, largeAmount |-> 0]

(* initialize(); the contract is deployed later than a day after time 0.    *)
Init ==
    /\ info = [tok \in Tokens |-> NoInfo]
    /\ \E types \in {<<>>} \cup {<<l>> : l \in LimitChoices} :
          /\ \A i \in DOMAIN types : ValidLimits(types[i])
          /\ typeLimits = types
    /\ confirmations \in {c \in Confirmations : Ordered(c)}
    /\ now = Day + 1
    /\ now <= MaxTime
    /\ total = [tok \in Tokens |-> [t \in Times |-> 0]]
    /\ byHand = {}

(* The mapping holds zeros for a type that was never added. *)
LimitsOf(i) ==
    IF i.typeId < Len(typeLimits) THEN typeLimits[i.typeId + 1] ELSE NoLimits

(* Mutant: the day is renewed but its start is not recorded. *)
RenewedForever(i) ==
    IF now > i.lastDay + Day THEN [i EXCEPT !.spentToday = 0] ELSE i

(* A day after the window began, a new one begins with nothing spent. *)
Renewed(i) ==
    IF now > i.lastDay + Day THEN [i EXCEPT !.spentToday = 0, !.lastDay = now] ELSE i

MaxWithdraw(i, l) ==
    LET spent == Renewed(i).spentToday
        left  == l.daily - spent
    IN  IF l.daily <= spent THEN 0 ELSE IF left > l.max THEN l.max ELSE left

UpdateTokenTransfer(tok, amount) ==
    LET i == Renewed(info[tok])
        l == LimitsOf(i)
    IN  /\ i.allowed
        /\ amount >= l.min
        /\ amount <= MaxWithdraw(i, l)
        /\ info' = [info EXCEPT ![tok] = [i EXCEPT !.spentToday = @ + amount]]
        /\ total' = [total EXCEPT ![tok] =
                        [t \in Times |-> IF t >= now THEN @[t] + amount ELSE @[t]]]
        /\ UNCHANGED <<typeLimits, confirmations, now, byHand>>

-----------------------------------------------------------------------------
AddTokenType(l) ==
    /\ Len(typeLimits) + 1 <= MaxTypes
    /\ ValidLimits(l)
    /\ typeLimits' = Append(typeLimits, l)
    /\ UNCHANGED <<info, confirmations, now, history>>

(* Mutant: the type after the last. *)
TypeMayExist(typeId) == typeId <= Len(typeLimits)

TypeExists(typeId) == typeId < Len(typeLimits)

SetTypeLimits(typeId, l) ==
    /\ TypeExists(typeId)
    /\ ValidLimits(l)
    /\ typeLimits' = [typeLimits EXCEPT ![typeId + 1] = l]
    /\ UNCHANGED <<info, confirmations, now, history>>

(* Mutant: the info starts anew with the type. *)
AnewWithType(i, typeId) == [NoInfo EXCEPT !.allowed = TRUE, !.typeId = typeId]

WithType(i, typeId) == [i EXCEPT !.allowed = TRUE, !.typeId = typeId]

(* setToken for one token, setMultipleTokens for several.  A token keeps    *)
(* what it spent when its type changes.                                     *)
SetTokens(types) ==
    /\ \A tok \in DOMAIN types : TypeExists(types[tok])
    /\ info' = [tok \in Tokens |->
                   IF tok \in DOMAIN types THEN WithType(info[tok], types[tok])
                                           ELSE info[tok]]
    /\ UNCHANGED <<typeLimits, confirmations, now, history>>

RemoveAllowedToken(tok) ==
    /\ info[tok].allowed
    /\ info' = [info EXCEPT ![tok].allowed = FALSE]
    /\ UNCHANGED <<typeLimits, confirmations, now, history>>

SetTokenInfoByTokenAddress(tok, i) ==
    /\ info' = [info EXCEPT ![tok] = i]
    /\ byHand' = byHand \cup {tok}
    /\ UNCHANGED <<typeLimits, confirmations, now, total>>

(* Mutant: medium and large are not compared. *)
SetConfirmationsUnordered(c) ==
    /\ c.small <= c.medium
    /\ confirmations' = c
    /\ UNCHANGED <<info, typeLimits, now, history>>

SetConfirmations(c) ==
    /\ Ordered(c)
    /\ confirmations' = c
    /\ UNCHANGED <<info, typeLimits, now, history>>

Tick ==
    /\ now < MaxTime
    /\ now' = now + 1
    /\ UNCHANGED <<info, typeLimits, confirmations, history>>

-----------------------------------------------------------------------------
Next ==
    \/ Tick
    \/ \E tok \in Tokens, a \in Amounts : UpdateTokenTransfer(tok, a)
    \/ \E l \in LimitChoices : AddTokenType(l)
    \/ \E l \in LimitChoices, typeId \in 0..(MaxTypes - 1) : SetTypeLimits(typeId, l)
    \/ \E some \in SUBSET Tokens \ {{}} :
          \E types \in [some -> 0..(MaxTypes - 1)] : SetTokens(types)
    \/ \E tok \in Tokens : RemoveAllowedToken(tok)
    \/ \E tok \in Tokens, i \in OwnerInfos : SetTokenInfoByTokenAddress(tok, i)
    \/ \E c \in Confirmations : SetConfirmations(c)

Spec == Init /\ [][Next]_vars

-----------------------------------------------------------------------------
(* Type correctness; there are at most MAX_TYPES types.                     *)
TypeOK ==
    /\ info \in [Tokens -> TokenInfo]
    /\ typeLimits \in Seq(Limits)
    /\ Len(typeLimits) <= MaxTypes
    /\ confirmations \in [small: Nat, medium: Nat, large: Nat]
    /\ now \in Times
    /\ total \in [Tokens -> [Times -> Nat]]
    /\ byHand \subseteq Tokens

(* What the federators rely on when they compare an amount with the limits  *)
(* of its token and wait for confirmations: the confirmations grow with the *)
(* amount and the limits of every type are ordered, whatever the owner      *)
(* changes and in whatever order.                                           *)
SetupOrdered ==
    /\ Ordered(confirmations)
    /\ \A n \in DOMAIN typeLimits : ValidLimits(typeLimits[n])

(* A token that is allowed has one of the types, whose limits are therefore *)
(* not the zeros of the mapping.  (An owner that writes an info itself may  *)
(* name a type that does not exist: with zero limits nothing crosses.)      *)
AllowedHasType ==
    \A tok \in Tokens \ byHand : info[tok].allowed => info[tok].typeId < Len(typeLimits)

(* What crossed of a token from time a to time b. *)
CrossedFrom(tok, a, b) == total[tok][b] - (IF a = 0 THEN 0 ELSE total[tok][a - 1])

(* spentToday is what crossed since lastDay, also after the token was       *)
(* removed, allowed again or given another type: none of these gives a      *)
(* token a fresh day, unless the owner writes the info itself.              *)
SpentIsWhatCrossed ==
    \A tok \in Tokens \ byHand :
        info[tok].spentToday = CrossedFrom(tok, info[tok].lastDay, MaxTime)

(* However crossings, changes of types and limits, removals and midnight    *)
(* fall together, what crosses of a token in any 24 hours is at most twice  *)
(* the largest daily limit (a day does not start at a fixed hour: it starts *)
(* with the first crossing after the previous one ended, so 24 hours may    *)
(* take the end of a full day and the beginning of another).                *)
TwoDaysAtMost ==
    \A tok \in Tokens \ byHand, a \in Times, b \in Times :
        a <= b /\ b <= a + Day => CrossedFrom(tok, a, b) <= 2 * MaxDaily
=============================================================================
