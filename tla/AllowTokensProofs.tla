-------------------------- MODULE AllowTokensProofs --------------------------
(***************************************************************************)
(* Theorems about AllowTokens, for every set of tokens, amounts and limits,*)
(* every length of the day and every number of types.                      *)
(***************************************************************************)
EXTENDS AllowTokens, TLAPS

-----------------------------------------------------------------------------
(* Type correctness and the order of limits and confirmations *)

(* The info a crossing leaves has the type of an info. *)
LEMMA RenewedType ==
    ASSUME TypeOK, NEW tok \in Tokens
    PROVE  /\ Renewed(info[tok]) \in TokenInfo
           /\ Renewed(info[tok]).typeId = info[tok].typeId
           /\ Renewed(info[tok]).allowed = info[tok].allowed
  BY AllowTokensConstants DEF TypeOK, TokenInfo, Renewed

LEMMA TransferType ==
    ASSUME TypeOK, NEW tok \in Tokens, NEW a \in Amounts, UpdateTokenTransfer(tok, a)
    PROVE  TypeOK'
  <1> DEFINE i == Renewed(info[tok])
  <1>1. i \in TokenInfo
    BY RenewedType
  <1>2. a \in Nat
    BY AllowTokensConstants
  <1>3. [i EXCEPT !.spentToday = @ + a] \in TokenInfo
    BY <1>1, <1>2 DEF TokenInfo
  <1>4. info' = [info EXCEPT ![tok] = [i EXCEPT !.spentToday = @ + a]]
    BY DEF UpdateTokenTransfer
  <1>5. info' \in [Tokens -> TokenInfo]
    <2> HIDE DEF i
    <2> QED BY <1>3, <1>4 DEF TypeOK
  <1>6. total' \in [Tokens -> [Times -> Nat]]
    BY <1>2, AllowTokensConstants DEF TypeOK, UpdateTokenTransfer, Times
  <1> QED BY <1>5, <1>6 DEF TypeOK, UpdateTokenTransfer

LEMMA TypeInit == Init => TypeOK
  <1> SUFFICES ASSUME Init PROVE TypeOK
    OBVIOUS
  <1>1. NoInfo \in TokenInfo /\ now \in Times
    BY AllowTokensConstants DEF Init, NoInfo, TokenInfo, Times
  <1>2. typeLimits \in Seq(Limits) /\ Len(typeLimits) <= MaxTypes
    <2>1. PICK types \in {<<>>} \cup {<<l>> : l \in LimitChoices} : typeLimits = types
      BY DEF Init
    <2>2. CASE types = <<>>
      BY <2>1, <2>2, AllowTokensConstants
    <2>3. ASSUME NEW l \in LimitChoices, types = <<l>>
          PROVE  typeLimits \in Seq(Limits) /\ Len(typeLimits) <= MaxTypes
      BY <2>1, <2>3, AllowTokensConstants
    <2> QED BY <2>1, <2>2, <2>3
  <1> QED BY <1>1, <1>2, AllowTokensConstants DEF Init, TypeOK

LEMMA TypeStep == TypeOK /\ [Next]_vars => TypeOK'
  <1> SUFFICES ASSUME TypeOK, [Next]_vars PROVE TypeOK'
    OBVIOUS
  <1> USE AllowTokensConstants
  <1>1. CASE Tick
    BY <1>1 DEF TypeOK, Tick, Times, history
  <1>2. ASSUME NEW tok \in Tokens, NEW a \in Amounts, UpdateTokenTransfer(tok, a)
        PROVE  TypeOK'
    BY <1>2, TransferType
  <1>3. ASSUME NEW l \in LimitChoices, AddTokenType(l) PROVE TypeOK'
    BY <1>3 DEF TypeOK, AddTokenType, history
  <1>4. ASSUME NEW l \in LimitChoices, NEW typeId \in 0..(MaxTypes - 1),
               SetTypeLimits(typeId, l)
        PROVE  TypeOK'
    BY <1>4 DEF TypeOK, SetTypeLimits, TypeExists, history
  <1>5. ASSUME NEW some \in SUBSET Tokens, NEW types \in [some -> 0..(MaxTypes - 1)],
               SetTokens(types)
        PROVE  TypeOK'
    <2> DEFINE new(tok) == IF tok \in some THEN WithType(info[tok], types[tok])
                                           ELSE info[tok]
    <2>1. ASSUME NEW tok \in Tokens PROVE new(tok) \in TokenInfo
      <3>1. info[tok] \in TokenInfo
        BY DEF TypeOK
      <3>2. ASSUME tok \in some
            PROVE  WithType(info[tok], types[tok]) \in TokenInfo
        <4>1. types[tok] \in Nat
          BY <3>2
        <4> QED BY <3>1, <4>1 DEF TokenInfo, WithType
      <3> QED BY <3>1, <3>2
    <2>2. info' = [tok \in Tokens |-> new(tok)]
      BY <1>5 DEF SetTokens
    <2>3. info' \in [Tokens -> TokenInfo]
      <3> HIDE DEF new
      <3> QED BY <2>1, <2>2
    <2> QED BY <1>5, <2>3 DEF TypeOK, SetTokens, history
  <1>6. ASSUME NEW tok \in Tokens, RemoveAllowedToken(tok) PROVE TypeOK'
    BY <1>6 DEF TypeOK, RemoveAllowedToken, TokenInfo, history
  <1>7. ASSUME NEW tok \in Tokens, NEW i \in OwnerInfos, SetTokenInfoByTokenAddress(tok, i)
        PROVE  TypeOK'
    BY <1>7 DEF TypeOK, SetTokenInfoByTokenAddress
  <1>8. ASSUME NEW c \in Confirmations, SetConfirmations(c) PROVE TypeOK'
    BY <1>8 DEF TypeOK, SetConfirmations, history
  <1>9. CASE UNCHANGED vars
    BY <1>9 DEF TypeOK, vars
  <1> QED BY <1>1, <1>2, <1>3, <1>4, <1>5, <1>6, <1>7, <1>8, <1>9 DEF Next

LEMMA OrderStep == TypeOK /\ SetupOrdered /\ [Next]_vars => SetupOrdered'
  <1> SUFFICES ASSUME TypeOK, SetupOrdered, [Next]_vars PROVE SetupOrdered'
    OBVIOUS
  <1>1. ASSUME NEW l \in LimitChoices, AddTokenType(l) PROVE SetupOrdered'
    BY <1>1, AllowTokensConstants DEF TypeOK, SetupOrdered, AddTokenType
  <1>2. ASSUME NEW l \in LimitChoices, NEW typeId \in 0..(MaxTypes - 1),
               SetTypeLimits(typeId, l)
        PROVE  SetupOrdered'
    BY <1>2, AllowTokensConstants DEF TypeOK, SetupOrdered, SetTypeLimits, TypeExists
  <1>3. ASSUME NEW c \in Confirmations, SetConfirmations(c) PROVE SetupOrdered'
    BY <1>3 DEF SetupOrdered, SetConfirmations
  <1>4. CASE UNCHANGED <<typeLimits, confirmations>>
    BY <1>4 DEF SetupOrdered
  <1> QED
    BY <1>1, <1>2, <1>3, <1>4
    DEF Next, vars, Tick, UpdateTokenTransfer, SetTokens, RemoveAllowedToken,
        SetTokenInfoByTokenAddress

(* The limits of all types and the confirmations are ordered at all times,  *)
(* whatever the owner asks for: what Federator assumes of its constants.    *)
THEOREM SetupCorrect == Spec => [](TypeOK /\ SetupOrdered)
  <1>1. Init => SetupOrdered
    BY DEF Init, SetupOrdered
  <1> QED BY <1>1, TypeInit, TypeStep, OrderStep, PTL DEF Spec

-----------------------------------------------------------------------------
(* The daily limit *)

(* What a history f says before time a. *)
Before(f, a) == IF a = 0 THEN 0 ELSE f[a - 1]

(* The strengthening of SpentIsWhatCrossed and TwoDaysAtMost for a token    *)
(* with the history f, at time n.  A day lasts until lastDay + Day and      *)
(* nothing crosses later without starting a new one; hence what crossed in  *)
(* the 24 hours before lastDay belongs to a single earlier day.             *)
DayHistory(f, lastDay, spent, n) ==
    /\ lastDay <= n
    /\ spent <= MaxDaily
    /\ \A a, b \in Times : a <= b => f[a] <= f[b]
    /\ \A t \in Times : t >= n \/ t >= lastDay + Day => f[t] = f[MaxTime]
    /\ spent = f[MaxTime] - Before(f, lastDay)
    /\ \A a \in Times : a < lastDay /\ lastDay <= a + Day =>
                            f[lastDay - 1] - Before(f, a) <= MaxDaily
    /\ \A a, b \in Times : a <= b /\ b <= a + Day => f[b] - Before(f, a) <= 2 * MaxDaily

DayInv == \A tok \in Tokens \ byHand :
              DayHistory(total[tok], info[tok].lastDay, info[tok].spentToday, now)

With(f, n, a) == [t \in Times |-> IF t >= n THEN f[t] + a ELSE f[t]]

(* A crossing within the day. *)
LEMMA SameDay ==
    ASSUME NEW f \in [Times -> Nat], NEW lastDay \in Times, NEW spent \in Nat,
           NEW n \in Times, NEW a \in Nat,
           DayHistory(f, lastDay, spent, n),
           n <= lastDay + Day, spent + a <= MaxDaily
    PROVE  DayHistory(With(f, n, a), lastDay, spent + a, n)
  <1>c. MaxTime \in Nat /\ Day \in Nat \ {0} /\ MaxDaily \in Nat
    BY AllowTokensConstants
  <1> USE <1>c DEF Times
  <1> DEFINE g == With(f, n, a)
  <1>1. \A t \in Times : g[t] = IF t >= n THEN f[t] + a ELSE f[t]
    BY DEF With
  <1> HIDE DEF g
  <1>2. \A t \in Times : f[t] \in Nat
    OBVIOUS
  <1>3. ASSUME NEW c \in Times, NEW d \in Times, c <= d
        PROVE  g[c] <= g[d] /\ g[c] \in Nat /\ g[d] \in Nat
    <2>1. f[c] <= f[d] /\ f[c] \in Nat /\ f[d] \in Nat
      BY <1>2, <1>3 DEF DayHistory
    <2>2. g[c] = (IF c >= n THEN f[c] + a ELSE f[c]) /\ g[d] = IF d >= n THEN f[d] + a ELSE f[d]
      BY <1>1
    <2> QED BY <2>1, <2>2, <1>3
  <1>4. \A t \in Times : t >= n \/ t >= lastDay + Day => g[t] = g[MaxTime]
    BY <1>1, <1>2 DEF DayHistory
  <1>5. Before(g, lastDay) = Before(f, lastDay)
    BY <1>1 DEF Before, DayHistory
  <1>6. spent + a = g[MaxTime] - Before(g, lastDay)
    <2>1. spent = f[MaxTime] - Before(f, lastDay)
      BY DEF DayHistory
    <2>2. g[MaxTime] = f[MaxTime] + a
      BY <1>1
    <2>3. Before(f, lastDay) \in Nat
      BY <1>2 DEF Before
    <2> QED BY <2>1, <2>2, <2>3, <1>2, <1>5, SMTT(60)
  <1>7. \A c \in Times : c < lastDay => Before(g, c) = Before(f, c) /\ g[lastDay - 1] = f[lastDay - 1]
    BY <1>1 DEF Before, DayHistory
  <1>8. \A c \in Times : c < lastDay /\ lastDay <= c + Day =>
                             g[lastDay - 1] - Before(g, c) <= MaxDaily
    BY <1>7 DEF DayHistory
  <1>9. ASSUME NEW c \in Times, NEW d \in Times, c <= d, d <= c + Day
        PROVE  g[d] - Before(g, c) <= 2 * MaxDaily
    <2>1. CASE d < n
      <3>1. g[d] = f[d] /\ Before(g, c) = Before(f, c)
        BY <2>1, <1>1, <1>9, SMTT(60) DEF Before
      <3> QED BY <3>1, <1>9 DEF DayHistory
    <2>2. g[d] <= g[MaxTime] /\ g[d] \in Nat /\ g[MaxTime] \in Nat
      BY <1>3
    <2>3. CASE c >= lastDay
      <3>1. Before(g, c) >= Before(g, lastDay) /\ Before(g, c) \in Nat /\ Before(g, lastDay) \in Nat
        <4>1. CASE lastDay = 0
          BY <4>1, <2>3, <1>3 DEF Before
        <4>2. CASE lastDay # 0
          BY <4>2, <2>3, <1>3 DEF Before
        <4> QED BY <4>1, <4>2
      <3> QED BY <3>1, <2>2, <1>6, SMTT(60)
    <2>4. CASE d >= n /\ c < lastDay
      <3>1. lastDay <= c + Day
        BY <2>4, <1>9 DEF DayHistory
      <3>2. g[lastDay - 1] - Before(g, c) <= MaxDaily
        BY <3>1, <2>4, <1>8
      <3>3. Before(g, lastDay) = g[lastDay - 1] /\ g[lastDay - 1] \in Nat /\ Before(g, c) \in Nat
        BY <2>4, <1>1, <1>2 DEF Before
      <3> QED
        <4>1. Before(g, lastDay) <= MaxDaily + Before(g, c)
          BY <3>2, <3>3, SMTT(60)
        <4>2. g[MaxTime] <= MaxDaily + Before(g, lastDay)
          <5> DEFINE x == g[MaxTime]
          <5> DEFINE y == Before(g, lastDay)
          <5>1. x \in Nat /\ y \in Nat /\ spent + a = x - y
            BY <3>3, <2>2, <1>6
          <5> HIDE DEF x, y
          <5>2. x <= MaxDaily + y
            BY <5>1
          <5> QED BY <5>2 DEF x, y
        <4>3. Before(g, lastDay) \in Nat /\ Before(g, c) \in Nat
          BY <3>3
        <4>4. g[MaxTime] <= MaxDaily + MaxDaily + Before(g, c)
          BY <4>1, <4>2, <4>3, <2>2, SMTT(60)
        <4> QED BY <4>3, <4>4, <2>2, SMTT(60)
    <2> QED BY <2>1, <2>3, <2>4
  <1>10. lastDay <= n
    BY DEF DayHistory
  <1>11. DayHistory(g, lastDay, spent + a, n)
    BY <1>3, <1>4, <1>6, <1>8, <1>9, <1>10 DEF DayHistory
  <1> QED BY <1>11 DEF g

(* The first crossing after the day. *)
LEMMA NewDay ==
    ASSUME NEW f \in [Times -> Nat], NEW lastDay \in Times, NEW spent \in Nat,
           NEW n \in Times, NEW a \in Nat,
           DayHistory(f, lastDay, spent, n),
           n > lastDay + Day, a <= MaxDaily
    PROVE  DayHistory(With(f, n, a), n, a, n)
  <1>c. MaxTime \in Nat /\ Day \in Nat \ {0} /\ MaxDaily \in Nat
    BY AllowTokensConstants
  <1> USE <1>c DEF Times
  <1> DEFINE g == With(f, n, a)
  <1>1. \A t \in Times : g[t] = IF t >= n THEN f[t] + a ELSE f[t]
    BY DEF With
  <1> HIDE DEF g
  <1>2. \A t \in Times : f[t] \in Nat
    OBVIOUS
  <1>3. ASSUME NEW c \in Times, NEW d \in Times, c <= d
        PROVE  g[c] <= g[d] /\ g[c] \in Nat /\ g[d] \in Nat
    <2>1. f[c] <= f[d] /\ f[c] \in Nat /\ f[d] \in Nat
      BY <1>2, <1>3 DEF DayHistory
    <2>2. g[c] = (IF c >= n THEN f[c] + a ELSE f[c]) /\ g[d] = IF d >= n THEN f[d] + a ELSE f[d]
      BY <1>1
    <2> QED BY <2>1, <2>2, <1>3
  <1>4. \A t \in Times : t >= n => g[t] = g[MaxTime]
    BY <1>1, <1>2 DEF DayHistory
  <1>5. /\ Before(g, n) = f[MaxTime]
        /\ g[MaxTime] = f[MaxTime] + a
        /\ g[n - 1] = f[MaxTime]
    <2>1. n - 1 \in Times /\ n - 1 >= lastDay + Day
      OBVIOUS
    <2>2. f[n - 1] = f[MaxTime]
      BY <2>1 DEF DayHistory
    <2> QED BY <1>1, <2>1, <2>2 DEF Before
  <1>6. a = g[MaxTime] - Before(g, n)
    BY <1>2, <1>5
  <1>7. ASSUME NEW c \in Times, c < n, n <= c + Day
        PROVE  g[n - 1] - Before(g, c) <= MaxDaily
    <2>1. c > lastDay
      BY <1>7
    <2>2. Before(g, c) = f[c - 1] /\ c - 1 \in Times /\ c - 1 >= lastDay
      BY <1>1, <1>7, <2>1 DEF Before
    <2>3. Before(f, lastDay) <= f[c - 1] /\ Before(f, lastDay) \in Nat
      BY <1>2, <2>2 DEF Before, DayHistory
    <2>4. f[MaxTime] - Before(f, lastDay) <= MaxDaily
      BY DEF DayHistory
    <2> QED BY <1>2, <1>5, <2>2, <2>3, <2>4, SMTT(60)
  <1>8. ASSUME NEW c \in Times, NEW d \in Times, c <= d, d <= c + Day
        PROVE  g[d] - Before(g, c) <= 2 * MaxDaily
    <2>1. CASE d < n
      <3>1. g[d] = f[d] /\ Before(g, c) = Before(f, c)
        BY <2>1, <1>1, <1>8, SMTT(60) DEF Before
      <3> QED BY <3>1, <1>8 DEF DayHistory
    <2>2. g[d] <= g[MaxTime] /\ g[d] \in Nat /\ g[MaxTime] \in Nat
      BY <1>3
    <2>3. CASE c >= n
      <3>1. Before(g, c) >= Before(g, n) /\ Before(g, c) \in Nat /\ Before(g, n) \in Nat
        <4>1. CASE n = 0
          BY <4>1, <2>3, <1>3 DEF Before
        <4>2. CASE n # 0
          BY <4>2, <2>3, <1>3 DEF Before
        <4> QED BY <4>1, <4>2
      <3>2. g[MaxTime] <= MaxDaily + Before(g, n)
        BY <3>1, <2>2, <1>6, SMTT(60)
      <3> QED BY <3>1, <3>2, <2>2, SMTT(60)
    <2>4. CASE d >= n /\ c < n
      <3>1. g[n - 1] - Before(g, c) <= MaxDaily
        BY <2>4, <1>7, <1>8
      <3>2. Before(g, c) \in Nat
        BY <1>1, <1>2, SMTT(60) DEF Before
      <3> QED
        <4>1. f[MaxTime] <= MaxDaily + Before(g, c) /\ f[MaxTime] \in Nat
          BY <3>1, <3>2, <1>2, <1>5
        <4>2. g[MaxTime] <= MaxDaily + f[MaxTime]
          BY <4>1, <1>5
        <4> QED BY <4>1, <4>2, <3>2, <2>2, SMTT(60)
    <2> QED BY <2>1, <2>3, <2>4
  <1>9. DayHistory(g, n, a, n)
    BY <1>3, <1>4, <1>6, <1>7, <1>8 DEF DayHistory
  <1> QED BY <1>9 DEF g

LEMMA DayInit == Init => DayInv
  <1> SUFFICES ASSUME Init, NEW tok \in Tokens \ byHand
               PROVE  DayHistory(total[tok], info[tok].lastDay, info[tok].spentToday, now)
    BY DEF DayInv
  <1> DEFINE f == [t \in Times |-> 0]
  <1>1. total[tok] = f /\ info[tok].lastDay = 0 /\ info[tok].spentToday = 0 /\ now = Day + 1
    BY DEF Init, NoInfo
  <1>2. \A t \in Times : f[t] = 0 /\ Before(f, t) = 0
    BY AllowTokensConstants DEF Before, Times
  <1>3. 0 \in Times /\ MaxTime \in Times
    BY AllowTokensConstants DEF Times
  <1> HIDE DEF f
  <1>4. 2 * MaxDaily \in Nat /\ MaxDaily \in Nat /\ Day \in Nat
    BY AllowTokensConstants
  <1>5. \A a, b \in Times : f[b] - Before(f, a) = 0
    BY <1>2
  <1>6. \A a \in Times : ~(a < 0)
    BY AllowTokensConstants DEF Times
  <1>7. DayHistory(f, 0, 0, Day + 1)
    BY <1>2, <1>3, <1>4, <1>5, <1>6 DEF DayHistory
  <1> QED BY <1>1, <1>7

(* What crosses and what was spent stay within the daily limit. *)
LEMMA WithinTheLimit ==
    ASSUME TypeOK, NEW tok \in Tokens, NEW a \in Amounts, UpdateTokenTransfer(tok, a),
           Renewed(info[tok]).spentToday <= MaxDaily
    PROVE  /\ a \in Nat
           /\ Renewed(info[tok]).spentToday + a <= MaxDaily
  <1> DEFINE i == Renewed(info[tok])
             l == LimitsOf(i)
  <1>1. i \in TokenInfo
    BY RenewedType
  <1>2. l \in Limits
    <2>1. i.typeId \in Nat
      BY <1>1 DEF TokenInfo
    <2>2. NoLimits \in Limits
      BY AllowTokensConstants DEF NoLimits, Limits
    <2>3. typeLimits \in Seq(Limits)
      BY DEF TypeOK
    <2> HIDE DEF i
    <2> QED BY <2>1, <2>2, <2>3 DEF LimitsOf
  <1>3. Renewed(i).spentToday = i.spentToday
    BY <1>1, AllowTokensConstants DEF Renewed, TokenInfo, TypeOK, Times
  <1>4. a \in Nat /\ a <= MaxWithdraw(i, l)
    BY AllowTokensConstants DEF UpdateTokenTransfer
  <1>5. l.daily \in Nat /\ l.max \in Nat /\ l.daily <= MaxDaily /\ i.spentToday \in Nat
    BY <1>1, <1>2, AllowTokensConstants DEF Limits, TokenInfo
  <1>6. CASE l.daily <= i.spentToday
    <2>1. MaxWithdraw(i, l) = 0
      BY <1>3, <1>6 DEF MaxWithdraw
    <2> QED BY <2>1, <1>4, <1>5
  <1>7. CASE l.daily > i.spentToday
    <2>1. MaxWithdraw(i, l) <= l.daily - i.spentToday /\ MaxWithdraw(i, l) \in Nat
      BY <1>3, <1>5, <1>7 DEF MaxWithdraw
    <2> QED BY <2>1, <1>4, <1>5, AllowTokensConstants
  <1> QED BY <1>5, <1>6, <1>7

LEMMA DayTransfer ==
    ASSUME TypeOK, DayInv, NEW tok \in Tokens \ byHand, NEW a \in Amounts,
           UpdateTokenTransfer(tok, a)
    PROVE  DayHistory(total[tok], info[tok].lastDay, info[tok].spentToday, now)'
  <1> DEFINE i == Renewed(info[tok])
             f == total[tok]
  <1>1. /\ f \in [Times -> Nat]
        /\ now \in Times
        /\ info[tok] \in TokenInfo
        /\ info[tok].lastDay \in Times
        /\ info[tok].spentToday \in Nat
        /\ i \in TokenInfo
    BY RenewedType DEF TypeOK, TokenInfo
  <1>2. DayHistory(f, info[tok].lastDay, info[tok].spentToday, now)
    BY DEF DayInv
  <1>3. i.spentToday <= MaxDaily
    BY <1>1, <1>2, AllowTokensConstants DEF Renewed, DayHistory, TokenInfo
  <1>4. a \in Nat /\ i.spentToday + a <= MaxDaily
    BY <1>3, WithinTheLimit
  <1>5. /\ total' = [total EXCEPT ![tok] = With(f, now, a)]
        /\ info' = [info EXCEPT ![tok] = [i EXCEPT !.spentToday = @ + a]]
        /\ now' = now
    BY DEF UpdateTokenTransfer, With
  <1>6. /\ info'[tok].lastDay = i.lastDay
        /\ info'[tok].spentToday = i.spentToday + a
        /\ total'[tok] = With(f, now, a)
    <2> HIDE DEF i
    <2> QED BY <1>1, <1>5 DEF TypeOK, TokenInfo
  <1>7. DayHistory(With(f, now, a), i.lastDay, i.spentToday + a, now)
    <2>1. CASE now > info[tok].lastDay + Day
      <3>1. i.lastDay = now /\ i.spentToday = 0
        BY <2>1, <1>1 DEF Renewed, TokenInfo
      <3>2. DayHistory(With(f, now, a), now, a, now)
        BY <2>1, <3>1, <1>1, <1>2, <1>4, NewDay
      <3>3. i.spentToday + a = a
        BY <3>1, <1>4
      <3> QED BY <3>1, <3>2, <3>3
    <2>2. CASE ~(now > info[tok].lastDay + Day)
      <3>1. i = info[tok] /\ now <= info[tok].lastDay + Day
        BY <2>2, <1>1, AllowTokensConstants, SMTT(60) DEF Renewed, Times
      <3> QED BY <3>1, <1>1, <1>2, <1>4, SameDay
    <2> QED BY <2>1, <2>2
  <1> QED BY <1>5, <1>6, <1>7

(* Time passes: a day that may be over stays as it is until it is renewed. *)
LEMMA DayTick == TypeOK /\ DayInv /\ Tick => DayInv'
  <1> SUFFICES ASSUME TypeOK, DayInv, Tick, NEW tok \in Tokens \ byHand
               PROVE  DayHistory(total[tok], info[tok].lastDay, info[tok].spentToday, now + 1)
    BY DEF DayInv, Tick, history
  <1>1. DayHistory(total[tok], info[tok].lastDay, info[tok].spentToday, now)
    BY DEF DayInv
  <1>2. now \in Times /\ info[tok].lastDay \in Times
    BY DEF TypeOK, TokenInfo
  <1>3. \A t \in Times : t >= now + 1 => t >= now
    BY <1>2, AllowTokensConstants DEF Times
  <1>4. info[tok].lastDay <= now + 1
    BY <1>1, <1>2, AllowTokensConstants DEF Times, DayHistory
  <1> QED BY <1>1, <1>3, <1>4 DEF DayHistory

LEMMA DayStep == TypeOK /\ DayInv /\ [Next]_vars => DayInv'
  <1> SUFFICES ASSUME TypeOK, DayInv, [Next]_vars PROVE DayInv'
    OBVIOUS
  <1>1. CASE Tick
    BY <1>1, DayTick
  <1>2. ASSUME NEW tok \in Tokens, NEW a \in Amounts, UpdateTokenTransfer(tok, a)
        PROVE  DayInv'
    <2> SUFFICES ASSUME NEW k \in Tokens \ byHand
                 PROVE  DayHistory(total[k], info[k].lastDay, info[k].spentToday, now)'
      BY <1>2 DEF DayInv, UpdateTokenTransfer
    <2>1. CASE k = tok
      BY <2>1, <1>2, DayTransfer
    <2>2. CASE k # tok
      <3>1. total'[k] = total[k] /\ info'[k] = info[k] /\ now' = now
        BY <2>2, <1>2 DEF UpdateTokenTransfer, TypeOK
      <3> QED BY <3>1 DEF DayInv
    <2> QED BY <2>1, <2>2
  <1>3. ASSUME NEW some \in SUBSET Tokens, NEW types \in [some -> 0..(MaxTypes - 1)],
               SetTokens(types)
        PROVE  DayInv'
    BY <1>3 DEF DayInv, SetTokens, WithType, TypeOK, TokenInfo, history
  <1>4. ASSUME NEW tok \in Tokens, RemoveAllowedToken(tok) PROVE DayInv'
    BY <1>4 DEF DayInv, RemoveAllowedToken, TypeOK, TokenInfo, history
  <1>5. ASSUME NEW tok \in Tokens, NEW i \in OwnerInfos, SetTokenInfoByTokenAddress(tok, i)
        PROVE  DayInv'
    BY <1>5 DEF DayInv, SetTokenInfoByTokenAddress, TypeOK
  <1>6. CASE UNCHANGED <<info, now, total, byHand>>
    BY <1>6 DEF DayInv
  <1> QED
    BY <1>1, <1>2, <1>3, <1>4, <1>5, <1>6
    DEF Next, vars, AddTokenType, SetTypeLimits, SetConfirmations, history

(* Of a token whose info the owner does not write itself, spentToday is what*)
(* crossed in the current day, and no 24 hours see more than twice the daily*)
(* limit.                                                                   *)
THEOREM DayCorrect == Spec => [](SpentIsWhatCrossed /\ TwoDaysAtMost)
  <1>1. TypeOK /\ DayInv => SpentIsWhatCrossed /\ TwoDaysAtMost
    BY DEF TypeOK, DayInv, DayHistory, Before, SpentIsWhatCrossed, TwoDaysAtMost, CrossedFrom
  <1> QED BY <1>1, TypeInit, DayInit, TypeStep, DayStep, PTL DEF Spec

(* In particular, no removal, new permission or new type of a token makes   *)
(* updateTokenTransfer forget what crossed since the day began.             *)
THEOREM SpentCorrect == Spec => []SpentIsWhatCrossed
  BY DayCorrect, PTL

-----------------------------------------------------------------------------
(* Types *)

LEMMA AllowedStep == TypeOK /\ AllowedHasType /\ [Next]_vars => AllowedHasType'
  <1> SUFFICES ASSUME TypeOK, AllowedHasType, [Next]_vars PROVE AllowedHasType'
    OBVIOUS
  <1>1. ASSUME NEW tok \in Tokens, NEW a \in Amounts, UpdateTokenTransfer(tok, a)
        PROVE  AllowedHasType'
    <2> SUFFICES ASSUME NEW k \in Tokens \ byHand, info'[k].allowed
                 PROVE  info'[k].typeId < Len(typeLimits)
      BY <1>1 DEF AllowedHasType, UpdateTokenTransfer
    <2>1. info'[k].typeId = info[k].typeId /\ info'[k].allowed = info[k].allowed
      <3>1. CASE k # tok
        BY <3>1, <1>1 DEF UpdateTokenTransfer, TypeOK
      <3>2. CASE k = tok
        <4> DEFINE i == Renewed(info[tok])
        <4>1. /\ i \in TokenInfo
              /\ i.typeId = info[tok].typeId /\ i.allowed = info[tok].allowed
          BY RenewedType
        <4>2. info'[tok] = [i EXCEPT !.spentToday = @ + a]
          BY <1>1 DEF UpdateTokenTransfer, TypeOK
        <4> HIDE DEF i
        <4> QED BY <3>2, <4>1, <4>2 DEF TokenInfo
      <3> QED BY <3>1, <3>2
    <2> QED BY <2>1 DEF AllowedHasType
  <1>2. ASSUME NEW l \in LimitChoices, AddTokenType(l) PROVE AllowedHasType'
    BY <1>2, AllowTokensConstants
    DEF AllowedHasType, AddTokenType, TypeOK, TokenInfo, history
  <1>3. ASSUME NEW l \in LimitChoices, NEW typeId \in 0..(MaxTypes - 1),
               SetTypeLimits(typeId, l)
        PROVE  AllowedHasType'
    <2>1. Len(typeLimits') = Len(typeLimits)
      BY <1>3 DEF SetTypeLimits, TypeOK
    <2> QED BY <2>1, <1>3 DEF AllowedHasType, SetTypeLimits, history
  <1>4. ASSUME NEW some \in SUBSET Tokens, NEW types \in [some -> 0..(MaxTypes - 1)],
               SetTokens(types)
        PROVE  AllowedHasType'
    BY <1>4 DEF AllowedHasType, SetTokens, WithType, TypeExists, TypeOK, TokenInfo, history
  <1>5. ASSUME NEW tok \in Tokens, RemoveAllowedToken(tok) PROVE AllowedHasType'
    BY <1>5 DEF AllowedHasType, RemoveAllowedToken, TypeOK, TokenInfo, history
  <1>6. ASSUME NEW tok \in Tokens, NEW i \in OwnerInfos, SetTokenInfoByTokenAddress(tok, i)
        PROVE  AllowedHasType'
    BY <1>6 DEF AllowedHasType, SetTokenInfoByTokenAddress, TypeOK
  <1>7. CASE UNCHANGED <<info, typeLimits, byHand>>
    BY <1>7 DEF AllowedHasType
  <1> QED
    BY <1>1, <1>2, <1>3, <1>4, <1>5, <1>6, <1>7
    DEF Next, vars, Tick, SetConfirmations, history

(* An allowed token never refers to a type that does not exist, unless the  *)
(* owner writes its info itself.                                            *)
THEOREM AllowedCorrect == Spec => []AllowedHasType
  <1>1. Init => AllowedHasType
    BY DEF Init, NoInfo, AllowedHasType
  <1> QED BY <1>1, TypeInit, TypeStep, AllowedStep, PTL DEF Spec
=============================================================================
