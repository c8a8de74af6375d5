-------------------------- MODULE FederatorProofs --------------------------
(***************************************************************************)
(* That the two passes of the federator skip no event, and that its votes  *)
(* are final, for every number of events, blocks, pages, crashes and       *)
(* changes of the federation.                                              *)
(***************************************************************************)
EXTENDS Federator, TLAPS

(* No reorganisation reaches the block of e any more. *)
Settled(e) == Logged(e) /\ block[e] + ReorgDepth <= height

InPage == pc \in {"page", "logs", "vote"}

TypeInv ==
    /\ TypeOK
    /\ height >= LargeConf
    /\ InPage => current >= LargeConf
    /\ awaited # {} => pc = "vote"

(* Only a pass that saves its progress begins behind the saved block, and   *)
(* stays with what is settled; the second one goes on to the confirmations  *)
(* of small amounts.                                                        *)
PageInv ==
    /\ lastBlock = 0 \/ lastBlock + ReorgDepth <= height
    /\ InPage =>
          /\ fromBlock <= toBlock
          /\ IF pass = "second" THEN toBlock + SmallConf <= current
             ELSE fromBlock = lastBlock + 1 /\ toBlock + ReorgDepth <= current

(* A log in memory that was settled when the run began is what the chain    *)
(* still holds.                                                             *)
LogsInv ==
    \A l \in logs :
        /\ pc \in {"logs", "vote"}
        /\ l.block <= PageEnd
        /\ l.block + ReorgDepth <= current =>
              l.block = block[l.event] /\ l.version = version[l.event]

AwaitInv == \A id, other \in awaited : id = other

Final(id) ==
    ConfirmationsOf(id.event) >= ReorgDepth => IsNow(id) /\ Settled(id.event)

VotesInv == \A id \in voted \cup late \cup awaited : Final(id)

Awaited(e) == \E form \in Forms : IdNow(e, form) \in awaited

(* Each event of a page whose end will be saved is handled, about to be, or *)
(* awaits its receipt.                                                      *)
EventsInv ==
    /\ pc \in {"logs", "vote"} /\ pass # "second" =>
          \A e \in Events :
              Logged(e) /\ block[e] >= fromBlock /\ block[e] <= PageEnd =>
                  IsHandled(e) \/ Awaited(e) \/ \E l \in logs : l.event = e
    /\ \A e \in Events : Logged(e) /\ block[e] <= lastBlock => IsHandled(e)

Inv == TypeInv /\ PageInv /\ LogsInv /\ AwaitInv /\ EventsInv

(* The federators of a chain whose confirmations, also those it falls back  *)
(* to, no reorganisation exceeds.                                           *)
Deep == ReorgDepth <= V0Conf

(* All tokens have 18 decimals. *)
Units == \A e \in Events : Unit[e] = 1

-----------------------------------------------------------------------------
(* Types *)

LEMMA Constants ==
    /\ ReorgDepth \in Nat /\ RecordsPerPage \in Nat \ {0}
    /\ SmallConf \in Nat /\ MediumConf \in Nat /\ LargeConf \in Nat /\ V0Conf \in Nat
    /\ SmallConf <= LargeConf /\ ReorgDepth <= LargeConf
BY FederatorConstants, WatchedChainConstants

(* A page ends where the blocks to read end, or before. *)
LEMMA PageEndType ==
    ASSUME TypeOK
    PROVE  /\ PageEnd \in Nat /\ PageEnd <= toBlock
           /\ fromBlock <= toBlock => fromBlock <= PageEnd
           /\ PageEnd # toBlock => PageEnd < toBlock
BY Constants DEF TypeOK, PageEnd

LEMMA TypeInit == Init => TypeInv
<1> SUFFICES ASSUME Init PROVE TypeInv
  OBVIOUS
<1>1. ChainTypeOK /\ height >= LargeConf
  BY Constants DEF Init, ChainInit, ChainTypeOK
<1>2. old \in {"v3", "v4"}
  BY DEF Init
<1>3. {replaced, member} \subseteq BOOLEAN
  BY DEF Init
<1>4. logs = {} /\ awaited = {} /\ disallowed = {} /\ revertedTxns = {} /\ ~InPage
  BY DEF Init, InPage
<1>5. cached \in {"none", "old", "new"} /\ pass \in {"first", "second", "only"}
      /\ pc \in {"idle", "page", "logs", "vote", "down"}
  BY DEF Init
<1>6. /\ lastBlock \in Nat /\ fromBlock \in Nat
      /\ current \in 0..height /\ toBlock \in 0..height
  BY Constants DEF Init, ChainInit
<1> QED
  BY <1>1, <1>2, <1>3, <1>4, <1>5, <1>6 DEF TypeInv, TypeOK

(* What a step does to the votes of the federator. *)
LEMMA MinedType ==
    ASSUME ChainTypeOK, NEW id \in Ids, Mined(id)
    PROVE  /\ voted' \subseteq Ids /\ processed' \subseteq Ids
           /\ voted \subseteq voted' /\ voted' \subseteq voted \cup {id}
           /\ processed \subseteq processed'
           /\ id \in voted' \cup processed'
BY DEF Mined, ChainTypeOK

LEMMA TakenType ==
    ASSUME ChainTypeOK, NEW id \in Ids, Taken(id)
    PROVE  /\ voted' \subseteq Ids /\ processed' \subseteq Ids
           /\ voted \subseteq voted' /\ voted' \subseteq voted \cup {id}
           /\ processed \subseteq processed'
           /\ id \in voted' \cup processed' \/ (Idle(id) /\ Legacy(id) \in voted' \cup processed')
BY MinedType DEF Taken, Idle, ChainTypeOK

LEMMA FormsOfContracts ==
    ASSUME TypeOK
    PROVE  Contract \in {"old", "new"} /\ FormOf(Contract) \in Forms /\ Home \in Forms
BY DEF TypeOK, Contract, FormOf, Home, Forms

(* An end of the process keeps the files and the chain. *)
Abandon == Exit /\ UNCHANGED <<chainVars, contracts, diskVars>>

LEMMA ExitAbandons ==
    ASSUME NotAMember \/ (\E log \in logs : RefuseLog(log)) \/ Crash
    PROVE  Abandon
BY DEF NotAMember, RefuseLog, Crash, Abandon

(* The run begins, by Poll or without the version of AllowTokens. *)
LEMMA BeginType ==
    ASSUME TypeInv, Poll \/ PollWithoutVersion
    PROVE  /\ pc' \in {"page", "idle"} /\ pass' \in {"first", "second", "only"}
           /\ current' = height
           /\ fromBlock' \in Nat /\ toBlock' \in 0..height
BY Constants DEF TypeInv, TypeOK, ChainTypeOK, Poll, PollWithoutVersion, Begin, BeginSecond,
   EndRun, FallbackConfirmations

LEMMA TypeStep == TypeInv /\ [Next]_vars => TypeInv'
<1> SUFFICES ASSUME TypeInv, [Next]_vars PROVE TypeInv'
  OBVIOUS
<1> USE DEF TypeInv, TypeOK, ChainTypeOK, InPage
<1>1. ASSUME Poll \/ PollWithoutVersion PROVE TypeInv'
  BY <1>1, BeginType
  DEF Poll, PollWithoutVersion, chainVars, contracts, diskVars, sideVars
<1>2. ASSUME FetchPage PROVE TypeInv'
  <2>1. logs' \subseteq [event: Events, version: Nat, block: 1..height, form: Forms,
                         unlimited: BOOLEAN]
    <3>1. PastEvents(fromBlock, PageEnd) \subseteq
              [event: Events, version: Nat, block: 1..height]
      BY DEF PastEvents, Logged
    <3>2. ASSUME NEW l \in PastEvents(fromBlock, PageEnd), NEW u \in BOOLEAN
          PROVE  Known(l, u) \in [event: Events, version: Nat, block: 1..height, form: Forms,
                                  unlimited: BOOLEAN]
      BY <3>1, FormsOfContracts DEF Known
    <3>3. logs' = {} \/ \E u \in BOOLEAN : logs' = {Known(l, u) : l \in PastEvents(fromBlock, PageEnd)}
      BY <1>2, Zenon DEF FetchPage
    <3> QED
      BY <3>2, <3>3
  <2>2. cached' \in {"none", "old", "new"}
    BY <1>2, FormsOfContracts DEF FetchPage
  <2> QED
    BY <1>2, <2>1, <2>2 DEF FetchPage, chainVars, contracts, diskVars, sideVars, locals
<1>3. ASSUME Abandon PROVE TypeInv'
  BY <1>3 DEF Abandon, Exit, chainVars, contracts, diskVars, locals
<1>4. ASSUME EndPage PROVE TypeInv'
  <2>1. lastBlock' \in Nat
    BY <1>4, PageEndType DEF EndPage, Progress
  <2>2. /\ pc' \in {"page", "idle"} /\ pass' \in {"first", "second", "only"}
        /\ fromBlock' \in Nat /\ toBlock' \in 0..height
    BY <1>4, PageEndType, Constants DEF EndPage, Begin, BeginSecond, EndRun
  <2> QED
    BY <1>4, <2>1, <2>2 DEF EndPage, chainVars, contracts, sideVars
<1>5. ASSUME NEW log \in logs, SkipLog(log) PROVE TypeInv'
  BY <1>5 DEF SkipLog, chainVars, contracts, diskVars, sideVars, locals
<1>6. ASSUME NEW log \in logs, SendVote(log) PROVE TypeInv'
  <2>1. Id(log) \in Ids
    BY DEF Id, Ids
  <2> QED
    BY <1>6, <2>1 DEF SendVote, chainVars, contracts, diskVars, sideVars, locals
<1>7. ASSUME NEW id \in awaited, VoteMined(id) PROVE TypeInv'
  <2>1. ChainTypeOK'
    BY <1>7, TakenType DEF VoteMined, chainVars
  <2>2. /\ UNCHANGED <<height, contracts, diskVars, cached, locals, logs>>
        /\ pc' = "logs" /\ awaited' = {} /\ InPage
    BY <1>7 DEF VoteMined, chainVars
  <2> QED
    BY <2>1, <2>2 DEF contracts, diskVars, locals
<1>8. ASSUME NEW id \in awaited, VoteReverts(id) \/ VoteFails(id) PROVE TypeInv'
  <2>1. ChainTypeOK' /\ revertedTxns' \subseteq Ids
    BY <1>8 DEF VoteReverts, VoteFails, Recorded, chainVars
  <2>2. /\ UNCHANGED <<height, contracts, lastBlock, cached, locals, logs>>
        /\ pc' = "logs" /\ awaited' = {} /\ InPage
    BY <1>8 DEF VoteReverts, VoteFails, Recorded, chainVars
  <2> QED
    BY <2>1, <2>2 DEF contracts, locals
<1>9. ASSUME Restart PROVE TypeInv'
  BY <1>9 DEF Restart, chainVars, contracts, diskVars, sideVars, locals
<1>10. ASSUME Grow PROVE TypeInv'
  <2>1. ChainTypeOK' /\ height' = height + 1
    BY <1>10 DEF Grow, NewBlock, sideVars
  <2>2. UNCHANGED <<contracts, diskVars, memory>>
    BY <1>10 DEF Grow
  <2> QED
    BY <2>1, <2>2, Constants DEF contracts, diskVars, memory, locals
<1>11. ASSUME NEW e \in Events, OthersProcess(IdNow(e, Home)),
              UNCHANGED <<contracts, diskVars, memory, faults>>
       PROVE  TypeInv'
  <2>1. IdNow(e, Home) \in Ids
    BY FormsOfContracts DEF IdNow, Ids
  <2> QED
    BY <1>11, <2>1 DEF OthersProcess, chainVars, contracts, diskVars, memory, locals
<1>12. ASSUME NEW e \in Events, NEW b \in 1..MaxHeight, Reorganise(e, b),
              UNCHANGED <<contracts, diskVars, memory, faults>>
       PROVE  TypeInv'
  <2>1. b \in 0..height
    BY <1>12, Constants DEF Reorganise
  <2> QED
    BY <1>12, <2>1 DEF Reorganise, sideVars, contracts, diskVars, memory, locals
<1>13. ASSUME NEW id \in late, MineLate(id) \/ RefuseLate(id),
              UNCHANGED <<contracts, diskVars, memory, faults>>
       PROVE  TypeInv'
  BY <1>13, MinedType DEF MineLate, RefuseLate, chainVars, contracts, diskVars, memory, locals
<1>14. ASSUME Govern PROVE TypeInv'
  <2>1. CASE Upgrade \/ Replace
    BY <2>1 DEF Upgrade, Replace, chainVars, sideVars, diskVars, memory, locals
  <2>2. CASE Expel \/ Admit
    BY <2>2 DEF Expel, Admit, chainVars, sideVars, diskVars, memory, locals
  <2>3. ASSUME NEW e \in Events, Disallow(e) PROVE TypeInv'
    BY <2>3 DEF Disallow, chainVars, sideVars, diskVars, memory, locals
  <2>4. ASSUME NEW e \in Events, Allow(e) PROVE TypeInv'
    BY <2>4 DEF Allow, chainVars, sideVars, diskVars, memory, locals
  <2> QED
    BY <1>14, <2>1, <2>2, <2>3, <2>4 DEF Govern
<1>15. ASSUME UNCHANGED vars PROVE TypeInv'
  BY <1>15 DEF vars, chainVars, sideVars, contracts, diskVars, memory, locals
<1> QED
  BY <1>1, <1>2, <1>3, <1>4, <1>5, <1>6, <1>7, <1>8, <1>9, <1>10, <1>11, <1>12, <1>13,
     <1>14, <1>15, ExitAbandons DEF Next, Step, HandleLog, GetReceipt, Others

(* The federator keeps the types of its state (Federator.js). *)
THEOREM TypeCorrect == Spec => []TypeOK
<1>1. TypeInv => TypeOK
  BY DEF TypeInv
<1> QED
  BY <1>1, TypeInit, TypeStep, PTL DEF Spec

-----------------------------------------------------------------------------
(* What is handled stays so, and what is in memory is settled, but for the  *)
(* second pass.                                                             *)

LEMMA HandledStays ==
    ASSUME processed \subseteq processed', voted \subseteq voted',
           revertedTxns \subseteq revertedTxns', UNCHANGED version,
           NEW e, IsHandled(e)
    PROVE  IsHandled(e)'
BY DEF IsHandled, IsDone, IdNow

LEMMA LogIsCurrent ==
    ASSUME Inv, NEW l \in logs, l.block + ReorgDepth <= current
    PROVE  /\ Settled(l.event)
           /\ Id(l) = IdNow(l.event, l.form)
<1> USE DEF Inv, TypeInv, TypeOK, ChainTypeOK
<1>1. /\ l.event \in Events /\ l.block \in 1..height
      /\ l.block = block[l.event] /\ l.version = version[l.event]
  BY DEF LogsInv
<1>2. Settled(l.event)
  BY <1>1, Constants DEF Settled, Logged
<1> QED
  BY <1>1, <1>2 DEF Id, IdNow

LEMMA LogsAreSettled ==
    ASSUME Inv, NEW l \in logs, pass # "second"
    PROVE  l.block + ReorgDepth <= current
<1>1. l.block \in Nat /\ l.block <= PageEnd /\ InPage
  BY DEF Inv, TypeInv, TypeOK, LogsInv, InPage
<1>2. PageEnd \in Nat /\ PageEnd + ReorgDepth <= current
  <2>1. toBlock + ReorgDepth <= current
    BY <1>1 DEF Inv, PageInv
  <2> QED
    BY <2>1, PageEndType, Constants DEF Inv, TypeInv, TypeOK, ChainTypeOK
<1> QED
  BY <1>1, <1>2, Constants DEF Inv, TypeInv, TypeOK, ChainTypeOK

-----------------------------------------------------------------------------
(* The steps of the process, which leave the chain alone. *)

LEMMA PollStep ==
    ASSUME Deep, Inv, TypeInv', Poll \/ PollWithoutVersion
    PROVE  Inv'
<1> USE DEF Inv
<1>1. /\ UNCHANGED <<chainVars, diskVars, sideVars, logs, awaited>> /\ pc = "idle"
      /\ pc' \in {"page", "idle"}
  BY BeginType DEF Poll, PollWithoutVersion
<1>2. logs = {} /\ awaited = {}
  BY <1>1 DEF LogsInv, TypeInv
<1>3. PageInv'
  <2>1. lastBlock' = lastBlock /\ height' = height
    BY <1>1 DEF diskVars, chainVars
  <2>2. ASSUME Poll, InPage'
        PROVE  /\ fromBlock' <= toBlock'
               /\ IF pass' = "second" THEN toBlock' + SmallConf <= current'
                  ELSE fromBlock' = lastBlock + 1 /\ toBlock' + ReorgDepth <= current'
    <3>1. height \in Nat /\ lastBlock \in Nat
      BY DEF TypeInv, TypeOK, ChainTypeOK
    <3>2. CASE lastBlock + 1 < height - LargeConf
      BY <2>2, <3>1, <3>2, Constants DEF Poll, Begin
    <3>3. CASE ~(lastBlock + 1 < height - LargeConf)
      BY <2>2, <3>1, <3>3, Constants DEF Poll, Begin, BeginSecond, EndRun, InPage
    <3> QED
      BY <3>2, <3>3
  <2>3. ASSUME PollWithoutVersion
        PROVE  /\ fromBlock' <= toBlock' /\ pass' = "only"
               /\ fromBlock' = lastBlock + 1 /\ toBlock' + ReorgDepth <= current'
    BY <2>3, Constants
    DEF PollWithoutVersion, Begin, FallbackConfirmations, Deep, TypeInv, TypeOK, ChainTypeOK
  <2> QED
    BY <2>1, <2>2, <2>3 DEF PageInv
<1>4. LogsInv' /\ AwaitInv'
  BY <1>1, <1>2 DEF LogsInv, AwaitInv
<1>5. EventsInv'
  BY <1>1, HandledStays DEF EventsInv, Logged, chainVars, sideVars, diskVars
<1> QED BY <1>3, <1>4, <1>5

LEMMA AbandonStep == ASSUME Inv, TypeInv', Abandon PROVE Inv'
<1> USE DEF Abandon, Exit, Inv, chainVars, diskVars
<1>1. PageInv'
  BY DEF PageInv, InPage
<1>2. LogsInv' /\ AwaitInv'
  BY DEF LogsInv, AwaitInv
<1>3. EventsInv'
  BY HandledStays DEF EventsInv, Logged
<1> QED BY <1>1, <1>2, <1>3

LEMMA FetchPageStep == ASSUME Inv, TypeInv', FetchPage PROVE Inv'
<1> USE DEF Inv
<1>1. /\ UNCHANGED <<chainVars, diskVars, sideVars, locals, awaited>>
      /\ pc = "page" /\ pc' = "logs"
  BY DEF FetchPage
<1>2. \/ pass = "second" /\ logs' = {}
      \/ \E u \in BOOLEAN : logs' = {Known(l, u) : l \in PastEvents(fromBlock, PageEnd)}
  BY Zenon DEF FetchPage
<1>3. PageEnd' = PageEnd /\ PageEnd \in Nat
  BY <1>1, PageEndType DEF PageEnd, locals, TypeInv
<1> USE DEF chainVars, diskVars, sideVars, locals
<1>4. PageInv' /\ AwaitInv'
  BY <1>1 DEF PageInv, InPage, AwaitInv
<1>5. LogsInv'
  <2>1. ASSUME NEW l \in logs'
        PROVE  l.block <= PageEnd /\ l.block = block[l.event] /\ l.version = version[l.event]
    BY <1>2, <1>3, <2>1 DEF Known, PastEvents, TypeInv, TypeOK, ChainTypeOK
  <2> QED
    BY <1>1, <1>3, <2>1 DEF LogsInv
<1>6. EventsInv'
  <2>1. ASSUME NEW e \in Events, Logged(e), block[e] >= fromBlock, block[e] <= PageEnd,
               pass # "second"
        PROVE  \E l \in logs' : l.event = e
    <3> DEFINE found == [event |-> e, version |-> version[e], block |-> block[e]]
    <3>1. found \in PastEvents(fromBlock, PageEnd)
      BY <1>3, <2>1 DEF PastEvents, TypeInv, TypeOK, ChainTypeOK
    <3>2. \A u \in BOOLEAN : Known(found, u).event = e
      BY DEF Known
    <3> QED
      BY <1>2, <2>1, <3>1, <3>2
  <2> QED
    BY <1>1, <1>3, <2>1, HandledStays DEF EventsInv, Logged
<1> QED BY <1>4, <1>5, <1>6

LEMMA EndPageStep == ASSUME Inv, TypeInv', EndPage PROVE Inv'
<1> USE DEF Inv
<1>1. /\ UNCHANGED <<chainVars, sideVars, revertedTxns, current, logs, awaited>>
      /\ pc = "logs" /\ logs = {} /\ awaited = {} /\ InPage
      /\ lastBlock' = IF pass # "second" THEN PageEnd ELSE lastBlock
      /\ pc' \in {"page", "idle"}
  BY DEF EndPage, Progress, Begin, BeginSecond, EndRun, TypeInv, InPage
<1>2. /\ PageEnd \in Nat /\ PageEnd <= toBlock /\ fromBlock <= PageEnd
      /\ PageEnd # toBlock => PageEnd < toBlock
      /\ toBlock \in Nat /\ current \in Nat /\ current <= height /\ height \in Nat
  BY <1>1, PageEndType DEF PageInv, TypeInv, TypeOK, ChainTypeOK
<1>3. PageInv'
  <2>1. lastBlock' = 0 \/ lastBlock' + ReorgDepth <= height'
    BY <1>1, <1>2, Constants DEF PageInv, chainVars
  <2>2. CASE PageEnd # toBlock
    BY <1>1, <1>2, <2>1, <2>2 DEF EndPage, Begin, PageInv
  <2>3. CASE PageEnd = toBlock
    <3>1. ASSUME InPage'
          PROVE  /\ fromBlock' <= toBlock' /\ pass' = "second"
                 /\ toBlock' + SmallConf <= current'
      BY <1>1, <1>2, <2>3, <3>1, Constants DEF EndPage, Begin, BeginSecond, EndRun, InPage
    <3> QED
      BY <2>1, <3>1 DEF PageInv
  <2> QED BY <2>2, <2>3
<1>4. LogsInv' /\ AwaitInv'
  BY <1>1 DEF LogsInv, AwaitInv
<1>5. EventsInv'
  <2>1. ASSUME NEW e \in Events, Logged(e), block[e] <= lastBlock'
        PROVE  IsHandled(e)
    <3>1. CASE block[e] <= lastBlock
      BY <2>1, <3>1 DEF EventsInv
    <3>2. CASE ~(block[e] <= lastBlock)
      <4>1. pass # "second" /\ block[e] <= PageEnd
        BY <1>1, <2>1, <3>2
      <4>2. block[e] >= fromBlock
        BY <1>1, <3>2, <4>1 DEF PageInv, TypeInv, TypeOK, ChainTypeOK
      <4> QED
        BY <1>1, <2>1, <4>1, <4>2 DEF EventsInv, Awaited
    <3> QED BY <3>1, <3>2
  <2> QED
    BY <1>1, <2>1, HandledStays DEF EventsInv, Logged, chainVars, sideVars
<1> QED BY <1>3, <1>4, <1>5

LEMMA SkipLogStep == ASSUME Inv, TypeInv', NEW log \in logs, SkipLog(log) PROVE Inv'
<1> USE DEF Inv
<1>1. /\ UNCHANGED <<chainVars, diskVars, sideVars, pc, locals, awaited>>
      /\ logs' = logs \ {log}
      /\ ~MustWait(log) => IsDone(Id(log))
  BY DEF SkipLog
<1>2. PageEnd' = PageEnd
  BY <1>1 DEF PageEnd, locals
<1> USE DEF chainVars, diskVars, sideVars, locals
<1>3. PageInv' /\ AwaitInv'
  BY <1>1 DEF PageInv, InPage, AwaitInv
<1>4. LogsInv'
  BY <1>1, <1>2 DEF LogsInv
<1>5. EventsInv'
  <2>1. ASSUME pass # "second" PROVE IsHandled(log.event)
    <3>1. Id(log) = IdNow(log.event, log.form) /\ log.form \in Forms
      BY <2>1, LogsAreSettled, LogIsCurrent DEF TypeInv, TypeOK
    <3> QED
      BY <1>1, <2>1, <3>1 DEF MustWait, IsHandled
  <2>2. ASSUME NEW e \in Events PROVE IsHandled(e) => IsHandled(e)'
    BY <1>1, HandledStays
  <2>3. \A e \in Events : Awaited(e)' <=> Awaited(e)
    BY <1>1 DEF Awaited, IdNow
  <2> QED
    BY <1>1, <1>2, <2>1, <2>2, <2>3 DEF EventsInv, Logged
<1> QED BY <1>3, <1>4, <1>5

LEMMA SendVoteStep == ASSUME Inv, TypeInv', NEW log \in logs, SendVote(log) PROVE Inv'
<1> USE DEF Inv
<1>1. /\ UNCHANGED <<chainVars, diskVars, sideVars, locals>>
      /\ logs' = logs \ {log} /\ awaited' = {Id(log)} /\ awaited = {}
      /\ pc = "logs" /\ pc' = "vote"
  BY DEF SendVote, TypeInv
<1>2. PageEnd' = PageEnd
  BY <1>1 DEF PageEnd, locals
<1> USE DEF chainVars, diskVars, sideVars, locals
<1>3. PageInv' /\ AwaitInv'
  BY <1>1 DEF PageInv, InPage, AwaitInv
<1>4. LogsInv'
  BY <1>1, <1>2 DEF LogsInv
<1>5. EventsInv'
  <2>1. ASSUME pass # "second" PROVE Awaited(log.event)'
    <3>1. Id(log) = IdNow(log.event, log.form) /\ log.form \in Forms
      BY <2>1, LogsAreSettled, LogIsCurrent DEF TypeInv, TypeOK
    <3> QED
      BY <1>1, <3>1 DEF Awaited, IdNow
  <2>2. ASSUME NEW e \in Events PROVE IsHandled(e) => IsHandled(e)'
    BY <1>1, HandledStays
  <2>3. \A e \in Events : ~Awaited(e)
    BY <1>1 DEF Awaited
  <2> QED
    BY <1>1, <1>2, <2>1, <2>2, <2>3 DEF EventsInv, Logged
<1> QED BY <1>3, <1>4, <1>5

(* A receipt, or none: what a vote leaves behind answers its event.        *)
LEMMA ReceiptEffect ==
    ASSUME Inv, NEW id \in awaited, VoteMined(id) \/ VoteReverts(id) \/ VoteFails(id)
    PROVE  /\ UNCHANGED <<chainVars, lastBlock, locals, logs>>
           /\ pc = "vote" /\ pc' = "logs" /\ awaited = {id} /\ awaited' = {}
           /\ processed \subseteq processed' /\ voted \subseteq voted'
           /\ revertedTxns \subseteq revertedTxns'
           /\ voted' \cup late' \subseteq voted \cup late \cup {id}
           /\ IsDone(id)' \/ (id.form = "v4" /\ IsDone(Legacy(id))')
<1> USE DEF Inv
<1>1. id \in Ids /\ ChainTypeOK /\ awaited = {id} /\ pc = "vote"
  BY DEF TypeInv, TypeOK, AwaitInv
<1>2. ASSUME VoteMined(id)
      PROVE  /\ UNCHANGED <<chainVars, lastBlock, locals, logs, revertedTxns, late>>
             /\ pc' = "logs" /\ awaited' = {} /\ Taken(id)
  BY <1>2 DEF VoteMined, diskVars
<1>3. ASSUME VoteReverts(id) \/ VoteFails(id)
      PROVE  /\ UNCHANGED <<chainVars, lastBlock, locals, logs, voted, processed>>
             /\ pc' = "logs" /\ awaited' = {}
             /\ revertedTxns' = revertedTxns \cup {id} /\ late' \subseteq late \cup {id}
  BY <1>3 DEF VoteReverts, VoteFails, Recorded
<1>4. CASE VoteMined(id)
  BY <1>1, <1>2, <1>4, TakenType DEF IsDone, Idle
<1>5. CASE VoteReverts(id) \/ VoteFails(id)
  BY <1>1, <1>3, <1>5 DEF IsDone
<1> QED BY <1>4, <1>5

LEMMA ReceiptStep == ASSUME Inv, TypeInv', GetReceipt PROVE Inv'
<1> USE DEF Inv
<1>1. PICK id \in awaited : VoteMined(id) \/ VoteReverts(id) \/ VoteFails(id)
  BY DEF GetReceipt
<1>2. /\ UNCHANGED <<chainVars, lastBlock, locals, logs>>
      /\ pc = "vote" /\ pc' = "logs" /\ awaited = {id} /\ awaited' = {}
      /\ processed \subseteq processed' /\ voted \subseteq voted'
      /\ revertedTxns \subseteq revertedTxns'
      /\ IsDone(id)' \/ (id.form = "v4" /\ IsDone(Legacy(id))')
  BY <1>1, ReceiptEffect
<1>3. PageEnd' = PageEnd
  BY <1>2 DEF PageEnd, locals
<1> USE DEF chainVars, locals
<1>4. PageInv' /\ AwaitInv'
  BY <1>2 DEF PageInv, InPage, AwaitInv
<1>5. LogsInv'
  BY <1>2, <1>3 DEF LogsInv
<1>6. EventsInv'
  <2>1. ASSUME NEW e \in Events PROVE IsHandled(e) => IsHandled(e)'
    BY <1>2, HandledStays
  <2>2. ASSUME NEW e \in Events, NEW form \in Forms, IdNow(e, form) \in awaited
        PROVE  IsHandled(e)'
    <3>1. id = IdNow(e, form) /\ IdNow(e, form)' = IdNow(e, form)
          /\ IdNow(e, "v3")' = IdNow(e, "v3")
      BY <1>2, <2>2 DEF IdNow
    <3>2. CASE IsDone(id)'
      BY <3>1, <3>2 DEF IsHandled
    <3>3. CASE IsDone(Legacy(id))'
      <4>1. Legacy(id) = IdNow(e, "v3")
        BY <3>1 DEF Legacy, IdNow
      <4> QED
        BY <3>1, <3>3, <4>1 DEF IsHandled, Forms
    <3> QED
      BY <1>2, <3>2, <3>3
  <2> QED
    BY <1>2, <1>3, <2>1, <2>2 DEF EventsInv, Logged, Awaited
<1> QED BY <1>4, <1>5, <1>6

(* The process starts again, or governance changes the contracts. *)
LEMMA IdleStep ==
    ASSUME Inv, TypeInv',
           UNCHANGED <<chainVars, sideVars, diskVars, locals, logs, awaited>>,
           pc' = pc \/ (pc = "down" /\ pc' = "idle")
    PROVE  Inv'
<1> USE DEF Inv, chainVars, sideVars, diskVars, locals
<1>1. PageInv' /\ AwaitInv'
  BY DEF PageInv, InPage, AwaitInv
<1>2. LogsInv'
  BY DEF LogsInv, PageEnd
<1>3. EventsInv'
  BY HandledStays DEF EventsInv, PageEnd, Logged, Awaited, IdNow
<1> QED BY <1>1, <1>2, <1>3

-----------------------------------------------------------------------------
(* The steps of the chains.  No reorganisation reaches what is settled, and *)
(* what a block takes up is behind every page whose end is saved.           *)

Same(e)  == block'[e] = block[e] /\ version'[e] = version[e]
Moved(e) == ~Settled(e) /\ block'[e] + ReorgDepth > height

ChainMove ==
    /\ height' >= height
    /\ \A e \in Events : Same(e) \/ Moved(e)
    /\ UNCHANGED <<diskVars, memory>>
    /\ processed \subseteq processed' /\ voted \subseteq voted'
    /\ voted' \cup late' \subseteq voted \cup late

LEMMA SettledStays ==
    ASSUME TypeOK, TypeOK', ChainMove, NEW e \in Events, Settled(e)
    PROVE  Same(e) /\ Settled(e)'
BY Constants DEF ChainMove, Settled, Same, Moved, Logged, TypeOK, ChainTypeOK

LEMMA ChainStep == ASSUME Inv, TypeInv', ChainMove PROVE Inv'
<1> USE DEF Inv, ChainMove, diskVars, memory, locals
<1>1. PageInv' /\ AwaitInv'
  BY Constants DEF PageInv, InPage, AwaitInv, TypeInv, TypeOK, ChainTypeOK
<1>2. PageEnd' = PageEnd /\ PageEnd \in Nat
  BY PageEndType DEF PageEnd, TypeInv
<1>3. LogsInv'
  <2>1. ASSUME NEW l \in logs, l.block + ReorgDepth <= current
        PROVE  Same(l.event)
    BY <2>1, LogIsCurrent, SettledStays DEF TypeInv, TypeOK
  <2> QED
    BY <1>2, <2>1 DEF LogsInv, Same
<1>4. EventsInv'
  <2>1. ASSUME NEW e \in Events, Same(e)
        PROVE  /\ \A form : IdNow(e, form)' = IdNow(e, form)
               /\ IsHandled(e) => IsHandled(e)'
               /\ Logged(e)' <=> Logged(e)
    BY <2>1 DEF Same, IdNow, IsHandled, IsDone, Logged
  <2>2. ASSUME NEW e \in Events, Moved(e), Logged(e)'
        PROVE  /\ ~(block'[e] <= lastBlock)
               /\ pc \in {"logs", "vote"} /\ pass # "second" => ~(block'[e] <= PageEnd)
    <3>1. block'[e] \in Nat \ {0}
      BY <2>2 DEF Logged, TypeInv, TypeOK, ChainTypeOK
    <3>2. ~(block'[e] <= lastBlock)
      BY <2>2, <3>1, Constants DEF Moved, PageInv, TypeInv, TypeOK, ChainTypeOK
    <3>3. ASSUME pc \in {"logs", "vote"}, pass # "second" PROVE ~(block'[e] <= PageEnd)
      <4>1. toBlock + ReorgDepth <= current
        BY <3>3 DEF PageInv, InPage
      <4> QED
        BY <2>2, <3>1, <4>1, PageEndType, Constants DEF Moved, TypeInv, TypeOK, ChainTypeOK
    <3> QED BY <3>2, <3>3
  <2>3. ASSUME NEW e \in Events, pc \in {"logs", "vote"}, pass # "second", Logged(e)',
               block'[e] >= fromBlock, block'[e] <= PageEnd
        PROVE  IsHandled(e)' \/ Awaited(e)' \/ \E l \in logs : l.event = e
    BY <2>1, <2>2, <2>3 DEF EventsInv, Same, Awaited
  <2>4. ASSUME NEW e \in Events, Logged(e)', block'[e] <= lastBlock
        PROVE  IsHandled(e)'
    BY <2>1, <2>2, <2>4 DEF EventsInv, Same
  <2> QED BY <1>2, <2>3, <2>4 DEF EventsInv
<1> QED BY <1>1, <1>3, <1>4

LEMMA ChainsMove == ASSUME TypeOK, Grow \/ Others PROVE ChainMove
<1> USE DEF TypeOK, ChainTypeOK
<1>1. ASSUME Grow PROVE ChainMove
  <2>1. \A e \in Events : block'[e] = block[e] \/ (block[e] = 0 /\ block'[e] = height + 1)
    BY <1>1 DEF Grow, NewBlock
  <2>2. \A e \in Events : Same(e) \/ Moved(e)
    BY <1>1, <2>1, Constants DEF Grow, NewBlock, Same, Moved, Settled, Logged
  <2> QED BY <1>1, <2>2 DEF Grow, NewBlock, ChainMove, sideVars
<1>2. ASSUME NEW d \in Events, NEW b \in 1..MaxHeight, Reorganise(d, b),
             UNCHANGED <<contracts, diskVars, memory, faults>>
      PROVE  ChainMove
  <2>1. height < block[d] + ReorgDepth /\ height < b + ReorgDepth /\ b \in Nat
    BY <1>2, Constants, WatchedChainConstants DEF Reorganise
  <2>2. Moved(d)
    BY <1>2, <2>1, Constants DEF Reorganise, Moved, Settled
  <2>3. \A e \in Events : Same(e) \/ Moved(e)
    BY <1>2, <2>2 DEF Reorganise, Same
  <2> QED BY <1>2, <2>3 DEF Reorganise, ChainMove, sideVars
<1>3. ASSUME NEW e \in Events, OthersProcess(IdNow(e, Home)),
             UNCHANGED <<contracts, diskVars, memory, faults>>
      PROVE  ChainMove
  BY <1>3 DEF OthersProcess, ChainMove, Same, chainVars
<1>4. ASSUME NEW id \in late, MineLate(id) \/ RefuseLate(id),
             UNCHANGED <<contracts, diskVars, memory, faults>>
      PROVE  ChainMove
  BY <1>4, MinedType DEF MineLate, RefuseLate, ChainMove, Same, chainVars
<1> QED
  BY <1>1, <1>2, <1>3, <1>4 DEF Others

-----------------------------------------------------------------------------
LEMMA InvInit == Init => Inv
<1> SUFFICES ASSUME Init PROVE Inv
  OBVIOUS
<1>1. TypeInv
  BY TypeInit
<1>2. \A e \in Events : Logged(e) => ~(block[e] <= lastBlock)
  BY <1>1 DEF Init, Logged, TypeInv, TypeOK, ChainTypeOK
<1>3. lastBlock = 0 /\ logs = {} /\ awaited = {} /\ pc = "idle"
  BY DEF Init
<1> QED
  BY <1>1, <1>2, <1>3 DEF Inv, PageInv, InPage, LogsInv, AwaitInv, EventsInv

LEMMA GovernStep ==
    ASSUME Govern
    PROVE  UNCHANGED <<chainVars, sideVars, diskVars, memory>>
BY DEF Govern, Upgrade, Replace, Expel, Admit, Disallow, Allow

LEMMA InvStep == Deep /\ Inv /\ [Next]_vars => Inv'
<1> SUFFICES ASSUME Deep, Inv, [Next]_vars PROVE Inv'
  OBVIOUS
<1>1. TypeInv'
  BY TypeStep DEF Inv
<1>2. ASSUME HandleLog PROVE Inv'
  BY <1>1, <1>2, SkipLogStep, SendVoteStep, ExitAbandons, AbandonStep DEF HandleLog
<1>3. ASSUME NotAMember \/ Crash PROVE Inv'
  BY <1>1, <1>3, ExitAbandons, AbandonStep
<1>4. ASSUME Restart \/ Govern \/ UNCHANGED vars PROVE Inv'
  BY <1>1, <1>4, GovernStep, IdleStep DEF Restart, vars, memory
<1>5. ASSUME Grow \/ Others PROVE Inv'
  BY <1>1, <1>5, ChainsMove, ChainStep DEF Inv, TypeInv
<1> QED
  BY <1>1, <1>2, <1>3, <1>4, <1>5, PollStep, FetchPageStep, EndPageStep, ReceiptStep
  DEF Next, Step

(* Between the two passes, the pages, crashes and changes of the contracts  *)
(* no event behind the saved block was left without an answer, as long as   *)
(* reorganisations are not deeper than the confirmations that count when    *)
(* the version of AllowTokens cannot be read (_saveProgress).               *)
THEOREM NothingSkippedCorrect == ASSUME Deep PROVE Spec => []NothingSkipped
<1>1. Inv => NothingSkipped
  BY DEF Inv, EventsInv, NothingSkipped
<1>2. Deep /\ Inv /\ [Next]_vars => Inv'
  BY InvStep
<1> QED
  BY <1>1, <1>2, InvInit, PTL DEF Spec

-----------------------------------------------------------------------------
(* Votes *)

(* A vote is sent when the log was settled as the run began, if that is     *)
(* what the confirmations of the amount ask for.                            *)
LEMMA SentIsFinal ==
    ASSUME Inv, Deep, Units, NEW log \in logs, pc = "logs", ~MustWait(log)
    PROVE  Final(Id(log))
<1> DEFINE e == log.event
<1>1. /\ e \in Events /\ log.block \in Nat /\ Id(log).event = e
      /\ current \in Nat /\ Amount[e] \in Nat /\ Size(e) = Amount[e]
  BY FederatorConstants DEF Inv, TypeInv, TypeOK, ChainTypeOK, Id, Size, Units
<1>2. ASSUME ConfirmationsOf(e) >= ReorgDepth PROVE log.block + ReorgDepth <= current
  <2>1. CASE pass # "second"
    BY <2>1, LogsAreSettled
  <2>2. CASE pass = "second" /\ Amount[e] >= MediumAmount
    <3>1. current - log.block >= MediumConf /\ ConfirmationsOf(e) = MediumConf
      BY <1>1, <2>2, FederatorConstants DEF MustWait, ConfirmationsOf
    <3> QED
      BY <1>1, <1>2, <3>1, Constants
  <2>3. CASE pass = "second" /\ ~(Amount[e] >= MediumAmount)
    <3>1. ConfirmationsOf(e) = SmallConf
      BY <1>1, <2>3, FederatorConstants DEF ConfirmationsOf
    <3>2. log.block <= PageEnd /\ toBlock + SmallConf <= current
      BY <2>3 DEF Inv, LogsInv, PageInv, InPage
    <3> QED
      BY <1>1, <1>2, <3>1, <3>2, PageEndType, Constants DEF Inv, TypeInv, TypeOK
  <2> QED BY <2>1, <2>2, <2>3
<1>3. ASSUME log.block + ReorgDepth <= current PROVE IsNow(Id(log)) /\ Settled(e)
  BY <1>3, LogIsCurrent DEF Id, IdNow, IsNow
<1> QED
  BY <1>1, <1>2, <1>3 DEF Final

(* As long as the chain stays, so does what the votes stand by. *)
LEMMA VotesStay ==
    ASSUME VotesInv, UNCHANGED chainVars,
           \A id \in voted' \cup late' \cup awaited' :
               id \in voted \cup late \cup awaited \/ Final(id)
    PROVE  VotesInv'
BY DEF VotesInv, Final, IsNow, Settled, Logged, chainVars, ConfirmationsOf, Size

LEMMA VotesStep == Deep /\ Units /\ Inv /\ VotesInv /\ [Next]_vars => VotesInv'
<1> SUFFICES ASSUME Deep, Units, Inv, VotesInv, [Next]_vars PROVE VotesInv'
  OBVIOUS
<1>1. ASSUME NEW log \in logs, SendVote(log) PROVE VotesInv'
  <2>1. Final(Id(log))
    BY <1>1, SentIsFinal DEF SendVote
  <2> QED
    BY <1>1, <2>1, VotesStay DEF SendVote, sideVars
<1>2. ASSUME GetReceipt PROVE VotesInv'
  BY <1>2, ReceiptEffect, VotesStay DEF GetReceipt
<1>3. ASSUME Abandon PROVE VotesInv'
  BY <1>3, VotesStay DEF Abandon, Exit
<1>4. ASSUME Grow \/ Others PROVE VotesInv'
  <2>1. ChainMove /\ TypeOK /\ TypeOK'
    BY <1>4, ChainsMove, TypeStep DEF Inv, TypeInv
  <2>2. ASSUME NEW id \in voted \cup late \cup awaited PROVE Final(id)'
    <3>1. id.event \in Events
      BY <2>1 DEF TypeOK, ChainTypeOK, Ids
    <3>2. Final(id)
      BY DEF VotesInv
    <3> QED
      BY <2>1, <3>1, <3>2, SettledStays DEF Final, IsNow, Same, ConfirmationsOf, Size
  <2> QED
    BY <2>1, <2>2 DEF VotesInv, ChainMove, memory
<1>5. ASSUME Govern PROVE VotesInv'
  BY <1>5, GovernStep, VotesStay DEF sideVars, memory
<1>6. ASSUME Poll \/ PollWithoutVersion \/ FetchPage \/ EndPage \/ Restart
             \/ (\E log \in logs : SkipLog(log)) \/ UNCHANGED vars
      PROVE  VotesInv'
  <2>1. UNCHANGED <<chainVars, sideVars, awaited>>
    BY <1>6 DEF Poll, PollWithoutVersion, FetchPage, EndPage, Restart, SkipLog, vars, memory
  <2> QED
    BY <2>1, VotesStay DEF sideVars
<1> QED
  BY <1>1, <1>2, <1>3, <1>4, <1>5, <1>6, ExitAbandons DEF Next, Step, HandleLog

(* For tokens of 18 decimals, and if no reorganisation exceeds the          *)
(* confirmations that count without the version of AllowTokens, a vote for  *)
(* an amount whose confirmations no reorganisation exceeds is final         *)
(* (_processLogs).                                                          *)
THEOREM VotesCorrect == ASSUME Deep, Units PROVE Spec => []VotesAreFinal
<1>1. VotesInv => VotesAreFinal
  BY DEF VotesInv, Final, VotesAreFinal
<1>2. Init => Inv /\ VotesInv
  BY InvInit DEF Init, ChainInit, VotesInv
<1>3. Inv /\ VotesInv /\ [Next]_vars => (Inv /\ VotesInv)'
  BY InvStep, VotesStep
<1> QED
  BY <1>1, <1>2, <1>3, PTL DEF Spec
=============================================================================
