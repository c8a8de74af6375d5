------------------------- MODULE FederatorNFTProofs -------------------------
(***************************************************************************)
(* That the federator of NFTs skips no event and votes for no version of   *)
(* an event that the chain gives up, for every number of events, blocks,   *)
(* pages, retries and faults, as long as reorganisations are not deeper    *)
(* than the confirmations of its chain.                                    *)
(***************************************************************************)
EXTENDS FederatorNFT, TLAPS

Conf == NftConfirmations(ChainId)

(* No reorganisation reaches the block of e any more. *)
Settled(e) == Logged(e) /\ block[e] + Conf <= height

Handled(e) == IsDone(IdNow(e, "v3"))

InPage == pc \in {"page", "logs", "vote"}

(* The page begins behind the saved block, and what is saved, or will be,   *)
(* is settled.                                                              *)
PageInv ==
    /\ lastBlock = 0 \/ lastBlock + Conf <= height
    /\ InPage => /\ fromBlock = lastBlock + 1
                 /\ fromBlock <= toBlock
                 /\ toBlock + Conf <= current

(* The logs in memory are what the chain still holds. *)
LogsInv ==
    \A l \in logs : /\ pc \in {"logs", "vote"}
                    /\ l.block <= PageEnd
                    /\ l.block = block[l.event]
                    /\ l.version = version[l.event]

AwaitInv ==
    /\ \A id, other \in awaited : id = other
    /\ awaited # {} => pc = "vote"

VotesInv ==
    \A id \in voted \cup late \cup awaited : IsNow(id) /\ Settled(id.event)

(* Each event of the page is handled, about to be, or awaits its receipt. *)
EventsInv ==
    /\ pc \in {"logs", "vote"} =>
          \A e \in Events :
              Logged(e) /\ block[e] >= fromBlock /\ block[e] <= PageEnd =>
                  \/ Handled(e)
                  \/ IdNow(e, "v3") \in awaited
                  \/ \E l \in logs : l.event = e
    /\ \A e \in Events : Logged(e) /\ block[e] <= lastBlock => Handled(e)

Inv == TypeOK /\ PageInv /\ LogsInv /\ AwaitInv /\ VotesInv /\ EventsInv

-----------------------------------------------------------------------------
(* Types *)

LEMMA Constants ==
    /\ Conf \in Nat /\ ReorgDepth \in Nat
    /\ RecordsPerPage \in Nat \ {0} /\ Retries \in Nat \ {0}
<1>1. Conf \in Nat
  BY FederatorNFTConstants DEF Conf, NftConfirmations
<1> QED
  BY <1>1, FederatorNFTConstants, WatchedChainConstants

(* A page ends where the blocks to read end, or before. *)
LEMMA PageEndType ==
    ASSUME TypeOK
    PROVE  /\ PageEnd \in Nat /\ PageEnd <= toBlock
           /\ fromBlock <= toBlock => fromBlock <= PageEnd
           /\ PageEnd # toBlock => PageEnd < toBlock
BY Constants DEF TypeOK, PageEnd

LEMMA TypeInit == Init => TypeOK
BY Constants DEF Init, ChainInit, TypeOK, ChainTypeOK

(* What a step of the process does to the votes. *)
LEMMA MinedType ==
    ASSUME ChainTypeOK, NEW id \in Ids, Mined(id)
    PROVE  /\ voted' \subseteq Ids /\ processed' \subseteq Ids
           /\ voted \subseteq voted' /\ voted' \subseteq voted \cup {id}
           /\ processed \subseteq processed'
           /\ id \in voted' \cup processed'
BY DEF Mined, ChainTypeOK

(* An attempt that ends without a result keeps the files and the chain. *)
Abandon ==
    /\ pc' \in {"retry", "down"} /\ retries' \in 1..Retries
    /\ Forget
    /\ UNCHANGED <<chainVars, federation, disk>>

LEMMA ThrowAbandons ==
    ASSUME TypeOK, NotAMember \/ (\E log \in logs : RefusedByFederation(log))
                   \/ CallFails \/ Crash
    PROVE  Abandon
BY Constants DEF TypeOK, NotAMember, RefusedByFederation, CallFails, Crash, Throw, Abandon

LEMMA TypeStep == TypeOK /\ [Next]_vars => TypeOK'
<1> SUFFICES ASSUME TypeOK, [Next]_vars PROVE TypeOK'
  OBVIOUS
<1> USE DEF TypeOK, ChainTypeOK
<1>1. ASSUME Attempt PROVE TypeOK'
  BY <1>1, Constants DEF Attempt, HasPage, Idle, Conf, chainVars, sideVars, federation, disk
<1>2. ASSUME FetchPage PROVE TypeOK'
  <2>1. logs' \subseteq [event: Events, version: Nat, block: 1..height]
    BY <1>2 DEF FetchPage, PastEvents, Logged
  <2> QED BY <1>2, <2>1 DEF FetchPage, chainVars, sideVars, federation, disk, locals
<1>3. ASSUME Abandon PROVE TypeOK'
  BY <1>3 DEF Abandon, Forget, chainVars, federation, disk
<1>4. ASSUME EndPage PROVE TypeOK'
  BY <1>4, PageEndType, Constants DEF EndPage, Idle, chainVars, sideVars, federation
<1>5. ASSUME NEW log \in logs, SkipLog(log) PROVE TypeOK'
  BY <1>5 DEF SkipLog, chainVars, sideVars, federation, disk, locals
<1>6. ASSUME NEW log \in logs, SendVote(log) PROVE TypeOK'
  <2>1. Id(log) \in Ids
    BY DEF Id, Ids, Forms
  <2> QED BY <1>6, <2>1 DEF SendVote, chainVars, sideVars, federation, disk, locals
<1>7. ASSUME NEW id \in awaited, VoteMined(id) PROVE TypeOK'
  BY <1>7, MinedType DEF VoteMined, chainVars, federation, disk, locals
<1>8. ASSUME NEW id \in awaited, VoteReverts(id) \/ VoteFails(id) PROVE TypeOK'
  BY <1>8 DEF VoteReverts, VoteFails, Recorded, chainVars, federation, locals
<1>9. ASSUME Restart PROVE TypeOK'
  BY <1>9 DEF Restart, chainVars, sideVars, federation, disk, locals
<1>10. ASSUME Grow PROVE TypeOK'
  BY <1>10 DEF Grow, NewBlock, sideVars, federation, disk, memory, locals
<1>11. ASSUME NEW e \in Events, OthersProcess(IdNow(e, IF legacy THEN "v3" ELSE "v4")),
              UNCHANGED <<federation, disk, memory, faults>>
       PROVE  TypeOK'
  <2>1. IdNow(e, IF legacy THEN "v3" ELSE "v4") \in Ids
    BY DEF IdNow, Ids, Forms
  <2> QED BY <1>11, <2>1 DEF OthersProcess, chainVars, federation, disk, memory, locals
<1>12. ASSUME NEW e \in Events, NEW b \in 1..MaxHeight, Reorganise(e, b),
              UNCHANGED <<federation, disk, memory, faults>>
       PROVE  TypeOK'
  <2>1. b \in 0..height
    BY <1>12, Constants DEF Reorganise
  <2> QED BY <1>12, <2>1 DEF Reorganise, sideVars, federation, disk, memory, locals
<1>13. ASSUME NEW id \in late, MineLate(id) \/ RefuseLate(id),
              UNCHANGED <<federation, disk, memory, faults>>
       PROVE  TypeOK'
  BY <1>13, MinedType DEF MineLate, RefuseLate, chainVars, federation, disk, memory, locals
<1>14. ASSUME Govern PROVE TypeOK'
  BY <1>14 DEF Govern, chainVars, sideVars, disk, memory, locals
<1>15. ASSUME UNCHANGED vars PROVE TypeOK'
  BY <1>15 DEF vars, chainVars, sideVars, federation, disk, memory, locals
<1> QED
  BY <1>1, <1>2, <1>3, <1>4, <1>5, <1>6, <1>7, <1>8, <1>9, <1>10, <1>11, <1>12, <1>13,
     <1>14, <1>15, ThrowAbandons DEF Next, Step, HandleLog, GetReceipt, Others

(* The federator keeps the types of its state (FederatorNFT.ts). *)
THEOREM TypeCorrect == Spec => []TypeOK
BY TypeInit, TypeStep, PTL DEF Spec

-----------------------------------------------------------------------------
(* What is handled stays so, and what is in memory is settled. *)

LEMMA HandledStays ==
    ASSUME processed \subseteq processed', voted \subseteq voted',
           revertedTxns \subseteq revertedTxns',
           NEW id, IsDone(id)
    PROVE  IsDone(id)'
BY DEF IsDone

LEMMA LogsAreSettled ==
    ASSUME Inv, NEW l \in logs
    PROVE  /\ l.event \in Events /\ Settled(l.event)
           /\ Id(l) = IdNow(l.event, "v3")
           /\ Confirmed(l)
<1> USE DEF Inv, TypeOK, ChainTypeOK
<1>1. /\ l.event \in Events /\ l.block \in 1..height
      /\ l.block = block[l.event] /\ l.version = version[l.event]
      /\ l.block <= PageEnd /\ InPage
  BY DEF LogsInv, InPage
<1>2. PageEnd \in Nat /\ PageEnd + Conf <= current
  BY <1>1, PageEndType, Constants DEF PageInv
<1>3. Confirmed(l)
  BY <1>1, <1>2, Constants DEF Confirmed, Conf
<1>4. Settled(l.event)
  BY <1>1, <1>2, Constants DEF Settled, Logged
<1> QED
  BY <1>1, <1>3, <1>4 DEF Id, IdNow

-----------------------------------------------------------------------------
(* The steps of the process, which leave the chain alone. *)

LEMMA AttemptStep == ASSUME Inv, TypeOK', Attempt PROVE Inv'
<1> USE DEF Attempt, Inv, chainVars, sideVars, federation, disk
<1>1. logs = {} /\ awaited = {}
  BY DEF LogsInv, AwaitInv
<1>2. PageInv'
  BY Constants DEF PageInv, InPage, HasPage, Idle, Conf, TypeOK, ChainTypeOK
<1>3. LogsInv' /\ AwaitInv'
  BY <1>1 DEF LogsInv, AwaitInv
<1>4. VotesInv'
  BY DEF VotesInv, IsNow, Settled, Logged
<1>5. EventsInv'
  BY DEF EventsInv, Idle, Handled, IsDone, IdNow, Logged
<1> QED BY <1>2, <1>3, <1>4, <1>5

LEMMA AbandonStep == ASSUME Inv, TypeOK', Abandon PROVE Inv'
<1> USE DEF Abandon, Forget, Inv, chainVars, federation, disk
<1>1. PageInv'
  BY DEF PageInv, InPage
<1>2. LogsInv' /\ AwaitInv'
  BY DEF LogsInv, AwaitInv
<1>3. VotesInv'
  BY DEF VotesInv, IsNow, Settled, Logged
<1>4. EventsInv'
  BY DEF EventsInv, Handled, IsDone, IdNow, Logged
<1> QED BY <1>1, <1>2, <1>3, <1>4

LEMMA FetchPageStep == ASSUME Inv, TypeOK', FetchPage PROVE Inv'
<1> USE DEF FetchPage, Inv, chainVars, sideVars, federation, disk, locals
<1>1. PageInv'
  BY DEF PageInv, InPage
<1>2. LogsInv'
  <2>1. PageEnd' = PageEnd /\ PageEnd \in Nat /\ fromBlock \in Nat
    BY PageEndType DEF PageEnd, TypeOK
  <2> QED BY <2>1 DEF LogsInv, PastEvents, Logged, TypeOK, ChainTypeOK
<1>3. AwaitInv'
  BY DEF AwaitInv
<1>4. VotesInv'
  BY DEF VotesInv, IsNow, Settled, Logged
<1>5. EventsInv'
  <2>1. PageEnd' = PageEnd
    BY DEF PageEnd
  <2>2. ASSUME NEW e \in Events, Logged(e), block[e] >= fromBlock, block[e] <= PageEnd
        PROVE  \E l \in logs' : l.event = e
    <3>1. block[e] \in fromBlock..PageEnd
      BY <2>2, PageEndType DEF TypeOK, ChainTypeOK
    <3>2. [event |-> e, version |-> version[e], block |-> block[e]] \in logs'
      BY <2>2, <3>1 DEF PastEvents
    <3> QED BY <3>2
  <2> QED BY <2>1, <2>2 DEF EventsInv, Handled, IsDone, IdNow, Logged
<1> QED BY <1>1, <1>2, <1>3, <1>4, <1>5

LEMMA EndPageStep == ASSUME Inv, TypeOK', EndPage PROVE Inv'
<1> USE DEF EndPage, AllHandled, Inv, chainVars, sideVars, federation
<1>1. /\ PageEnd \in Nat /\ PageEnd <= toBlock /\ fromBlock <= PageEnd
      /\ PageEnd # toBlock => PageEnd < toBlock
      /\ fromBlock = lastBlock + 1 /\ toBlock + Conf <= current
  BY PageEndType DEF PageInv, InPage
<1>2. PageInv'
  BY <1>1, Constants DEF PageInv, InPage, Idle, TypeOK, ChainTypeOK, Conf
<1>3. LogsInv' /\ AwaitInv'
  BY DEF LogsInv, AwaitInv
<1>4. VotesInv'
  BY DEF VotesInv, IsNow, Settled, Logged
<1>5. EventsInv'
  <2>1. awaited = {} /\ logs = {}
    BY DEF AwaitInv
  <2>2. ASSUME NEW e \in Events, Logged(e), block[e] <= PageEnd
        PROVE  Handled(e)
    <3>1. CASE block[e] <= lastBlock
      BY <2>2, <3>1 DEF EventsInv
    <3>2. CASE ~(block[e] <= lastBlock)
      <4>1. block[e] >= fromBlock
        BY <1>1, <3>2 DEF TypeOK, ChainTypeOK
      <4> QED BY <2>1, <2>2, <4>1 DEF EventsInv
    <3> QED BY <3>1, <3>2
  <2>3. \A e \in Events : Handled(e) => Handled(e)'
    BY DEF Handled, IsDone, IdNow
  <2> QED BY <2>2, <2>3 DEF EventsInv, Logged, Idle
<1> QED BY <1>2, <1>3, <1>4, <1>5

LEMMA SkipLogStep == ASSUME Inv, TypeOK', NEW log \in logs, SkipLog(log) PROVE Inv'
<1> USE DEF SkipLog, Inv, chainVars, sideVars, federation, disk, locals
<1>1. PageInv' /\ AwaitInv'
  BY DEF PageInv, InPage, AwaitInv
<1>2. LogsInv'
  BY DEF LogsInv, PageEnd
<1>3. VotesInv'
  BY DEF VotesInv, IsNow, Settled, Logged
<1>4. EventsInv'
  <2>1. Handled(log.event)
    BY LogsAreSettled DEF Handled
  <2>2. PageEnd' = PageEnd /\ \A e \in Events : Handled(e) => Handled(e)'
    BY DEF PageEnd, Handled, IsDone, IdNow
  <2> QED BY <2>1, <2>2 DEF EventsInv, Logged, IdNow
<1> QED BY <1>1, <1>2, <1>3, <1>4

LEMMA SendVoteStep == ASSUME Inv, TypeOK', NEW log \in logs, SendVote(log) PROVE Inv'
<1> USE DEF SendVote, Inv, chainVars, sideVars, federation, disk, locals
<1>1. PageInv' /\ AwaitInv'
  BY DEF PageInv, InPage, AwaitInv
<1>2. LogsInv'
  BY DEF LogsInv, PageEnd
<1>3. VotesInv'
  <2>1. IsNow(Id(log)) /\ Settled(Id(log).event)
    BY LogsAreSettled DEF Id, IdNow, IsNow
  <2> QED BY <2>1 DEF VotesInv, IsNow, Settled, Logged, AwaitInv
<1>4. EventsInv'
  <2>1. IdNow(log.event, "v3") \in awaited'
    BY LogsAreSettled
  <2>2. PageEnd' = PageEnd /\ \A e \in Events : Handled(e) => Handled(e)'
    BY DEF PageEnd, Handled, IsDone, IdNow
  <2>3. awaited = {}
    BY DEF AwaitInv
  <2> QED BY <2>1, <2>2, <2>3 DEF EventsInv, Logged, IdNow
<1> QED BY <1>1, <1>2, <1>3, <1>4

(* A receipt, or none: the vote is cast, counted by others, or on record.  *)
LEMMA ReceiptStep == ASSUME Inv, TypeOK', GetReceipt PROVE Inv'
<1> USE DEF Inv
<1>1. PICK id \in awaited : VoteMined(id) \/ VoteReverts(id) \/ VoteFails(id)
  BY DEF GetReceipt
<1>2. /\ UNCHANGED <<chainVars, federation, lastBlock, locals, logs>>
      /\ pc = "vote" /\ pc' = "logs" /\ awaited = {id} /\ awaited' = {}
  BY <1>1 DEF VoteMined, VoteReverts, VoteFails, Recorded, federation, disk, AwaitInv
<1>3. /\ processed \subseteq processed' /\ voted \subseteq voted'
      /\ revertedTxns \subseteq revertedTxns'
      /\ voted' \cup late' \subseteq voted \cup late \cup {id}
      /\ IsDone(id)'
  BY <1>1, MinedType DEF VoteMined, VoteReverts, VoteFails, Recorded, TypeOK, IsDone, disk
<1> USE DEF chainVars, locals
<1>4. PageInv' /\ AwaitInv'
  BY <1>2 DEF PageInv, InPage, AwaitInv
<1>5. LogsInv'
  BY <1>2 DEF LogsInv, PageEnd
<1>6. VotesInv'
  BY <1>2, <1>3 DEF VotesInv, IsNow, Settled, Logged
<1>7. EventsInv'
  <2>1. PageEnd' = PageEnd /\ \A e \in Events : IdNow(e, "v3")' = IdNow(e, "v3")
    BY <1>2 DEF PageEnd, IdNow
  <2>2. \A e \in Events : Handled(e) \/ IdNow(e, "v3") \in awaited => Handled(e)'
    BY <1>2, <1>3, <2>1 DEF Handled, IsDone
  <2> QED BY <1>2, <2>1, <2>2 DEF EventsInv, Logged
<1> QED BY <1>4, <1>5, <1>6, <1>7

(* The process starts again, or governance changes the federation. *)
LEMMA IdleStep ==
    ASSUME Inv, TypeOK',
           UNCHANGED <<chainVars, sideVars, disk, locals, logs, awaited>>,
           pc' = pc \/ (pc = "down" /\ pc' = "idle")
    PROVE  Inv'
<1> USE DEF Inv, chainVars, sideVars, disk, locals
<1>1. PageInv' /\ AwaitInv'
  BY DEF PageInv, InPage, AwaitInv
<1>2. LogsInv'
  BY DEF LogsInv, PageEnd
<1>3. VotesInv'
  BY DEF VotesInv, IsNow, Settled, Logged
<1>4. EventsInv'
  BY DEF EventsInv, PageEnd, Handled, IsDone, IdNow, Logged
<1> QED BY <1>1, <1>2, <1>3, <1>4

-----------------------------------------------------------------------------
(* The steps of the chains.  No reorganisation reaches what is settled, and *)
(* what a block takes up is behind every page.                              *)

Same(e)  == block'[e] = block[e] /\ version'[e] = version[e]
Moved(e) == ~Settled(e) /\ block'[e] + Conf > height

ChainMove ==
    /\ height' >= height
    /\ \A e \in Events : Same(e) \/ Moved(e)
    /\ UNCHANGED <<federation, disk, memory>>
    /\ processed \subseteq processed' /\ voted \subseteq voted'
    /\ voted' \cup late' \subseteq voted \cup late

LEMMA ChainStep == ASSUME Inv, TypeOK', ChainMove PROVE Inv'
<1> USE DEF Inv, ChainMove, disk, memory, locals
<1>1. PageInv'
  BY Constants DEF PageInv, InPage, TypeOK, ChainTypeOK
<1>2. AwaitInv'
  BY DEF AwaitInv
<1>3. LogsInv'
  <2>1. \A l \in logs : Same(l.event)
    BY LogsAreSettled DEF Moved
  <2> QED BY <2>1 DEF LogsInv, PageEnd, Same
<1>4. ASSUME NEW e \in Events, Settled(e) PROVE Settled(e)'
  BY <1>4, Constants DEF Settled, Same, Moved, Logged, TypeOK, ChainTypeOK
<1>5. VotesInv'
  <2>1. ASSUME NEW id \in voted \cup late \cup awaited
        PROVE  IsNow(id)' /\ Settled(id.event)'
    <3>1. IsNow(id) /\ Settled(id.event) /\ id.event \in Events
      BY DEF VotesInv, TypeOK, ChainTypeOK, Ids
    <3> QED BY <1>4, <3>1 DEF IsNow, Same, Moved
  <2> QED BY <2>1 DEF VotesInv
<1>6. EventsInv'
  <2>1. PageEnd' = PageEnd /\ PageEnd \in Nat
    BY PageEndType DEF PageEnd
  <2>2. ASSUME NEW e \in Events, Same(e)
        PROVE  /\ IdNow(e, "v3")' = IdNow(e, "v3")
               /\ Handled(e) => Handled(e)'
               /\ Logged(e)' <=> Logged(e)
    BY <2>2, HandledStays DEF Same, IdNow, Handled, Logged
  <2>3. ASSUME NEW e \in Events, Moved(e), Logged(e)'
        PROVE  /\ ~(block'[e] <= lastBlock)
               /\ pc \in {"logs", "vote"} => ~(block'[e] <= PageEnd)
    <3>1. block'[e] \in Nat \ {0}
      BY <2>3 DEF Logged, TypeOK, ChainTypeOK
    <3>2. ~(block'[e] <= lastBlock)
      BY <2>3, <3>1, Constants DEF Moved, PageInv, TypeOK, ChainTypeOK
    <3>3. ASSUME pc \in {"logs", "vote"} PROVE ~(block'[e] <= PageEnd)
      BY <2>3, <3>1, <3>3, PageEndType, Constants
      DEF Moved, PageInv, InPage, TypeOK, ChainTypeOK
    <3> QED BY <3>2, <3>3
  <2>4. ASSUME NEW e \in Events, pc \in {"logs", "vote"}, Logged(e)',
               block'[e] >= fromBlock, block'[e] <= PageEnd
        PROVE  Handled(e)' \/ IdNow(e, "v3")' \in awaited \/ \E l \in logs : l.event = e
    BY <2>2, <2>3, <2>4 DEF EventsInv, Same
  <2>5. ASSUME NEW e \in Events, Logged(e)', block'[e] <= lastBlock
        PROVE  Handled(e)'
    BY <2>2, <2>3, <2>5 DEF EventsInv, Same
  <2> QED BY <2>1, <2>4, <2>5 DEF EventsInv
<1> QED BY <1>1, <1>2, <1>3, <1>5, <1>6

(* The chains move so when reorganisations are not deeper than the          *)
(* confirmations.                                                           *)
LEMMA ChainsMove ==
    ASSUME TypeOK, ReorgDepth <= Conf, Grow \/ Others
    PROVE  ChainMove
<1> USE DEF TypeOK, ChainTypeOK, federation, disk, memory
<1>1. ASSUME Grow PROVE ChainMove
  <2>1. \A e \in Events : block'[e] = block[e] \/ (block[e] = 0 /\ block'[e] = height + 1)
    BY <1>1 DEF Grow, NewBlock
  <2>2. \A e \in Events : Same(e) \/ Moved(e)
    BY <1>1, <2>1, Constants DEF Grow, NewBlock, Same, Moved, Settled, Logged
  <2> QED BY <1>1, <2>2 DEF Grow, NewBlock, ChainMove, sideVars
<1>2. ASSUME NEW d \in Events, NEW b \in 1..MaxHeight, Reorganise(d, b),
             UNCHANGED <<federation, disk, memory, faults>>
      PROVE  ChainMove
  <2>1. height < block[d] + ReorgDepth /\ height < b + ReorgDepth /\ b \in Nat
    BY <1>2, Constants, WatchedChainConstants DEF Reorganise
  <2>2. Moved(d)
    BY <1>2, <2>1, Constants DEF Reorganise, Moved, Settled
  <2>3. \A e \in Events : Same(e) \/ Moved(e)
    BY <1>2, <2>2 DEF Reorganise, Same
  <2> QED BY <1>2, <2>3 DEF Reorganise, ChainMove, sideVars
<1>3. ASSUME NEW e \in Events, OthersProcess(IdNow(e, IF legacy THEN "v3" ELSE "v4")),
             UNCHANGED <<federation, disk, memory, faults>>
      PROVE  ChainMove
  BY <1>3 DEF OthersProcess, ChainMove, Same, chainVars
<1>4. ASSUME NEW id \in late, MineLate(id) \/ RefuseLate(id),
             UNCHANGED <<federation, disk, memory, faults>>
      PROVE  ChainMove
  BY <1>4, MinedType DEF MineLate, RefuseLate, ChainMove, Same, chainVars
<1> QED
  BY <1>1, <1>2, <1>3, <1>4 DEF Others

-----------------------------------------------------------------------------
LEMMA InvInit == Init => Inv
<1> SUFFICES ASSUME Init PROVE Inv
  OBVIOUS
<1>1. TypeOK
  BY TypeInit
<1>2. \A e \in Events : ~Logged(e)
  BY DEF Init, ChainInit, Logged
<1> QED
  BY <1>1, <1>2 DEF Init, ChainInit, Inv, PageInv, InPage, LogsInv, AwaitInv, VotesInv, EventsInv

LEMMA InvStep == ReorgDepth <= Conf /\ Inv /\ [Next]_vars => Inv'
<1> SUFFICES ASSUME ReorgDepth <= Conf, Inv, [Next]_vars PROVE Inv'
  OBVIOUS
<1>1. TypeOK'
  BY TypeStep DEF Inv
<1>2. ASSUME HandleLog PROVE Inv'
  BY <1>1, <1>2, SkipLogStep, SendVoteStep, ThrowAbandons, AbandonStep DEF HandleLog, Inv
<1>3. ASSUME NotAMember \/ CallFails \/ Crash PROVE Inv'
  BY <1>1, <1>3, ThrowAbandons, AbandonStep DEF Inv
<1>4. ASSUME Restart \/ Govern \/ UNCHANGED vars PROVE Inv'
  BY <1>1, <1>4, IdleStep DEF Restart, Govern, vars, memory
<1>5. ASSUME Grow \/ Others PROVE Inv'
  BY <1>1, <1>5, ChainsMove, ChainStep DEF Inv
<1> QED
  BY <1>1, <1>2, <1>3, <1>4, <1>5, AttemptStep, FetchPageStep, EndPageStep, ReceiptStep
  DEF Next, Step

(* However often the process fails, retries and starts again, no event      *)
(* behind the saved block was left without an answer, as long as            *)
(* reorganisations are not deeper than the confirmations (_saveProgress).   *)
THEOREM NothingSkippedCorrect == Spec => []NothingSkipped
<1>1. Inv => NothingSkipped
  BY DEF Inv, EventsInv, NothingSkipped, Handled
<1>2. CASE ReorgDepth <= Conf
  BY <1>1, <1>2, InvInit, InvStep, PTL DEF Spec
<1>3. CASE ~(ReorgDepth <= Conf)
  <2>1. NothingSkipped
    BY <1>3 DEF NothingSkipped, Conf
  <2> QED BY <2>1, PTL
<1> QED BY <1>2, <1>3

(* On every chain that the table of confirmations lists, and with           *)
(* reorganisations of at most two blocks, each vote that was cast, or may   *)
(* still be mined, names the version of the event that the chain keeps.     *)
THEOREM VotesCorrect == Spec => []VotesAreFinal
<1>1. Inv => VotesAreFinal
  BY DEF Inv, VotesInv, VotesAreFinal
<1>2. CASE ReorgDepth <= Conf
  BY <1>1, <1>2, InvInit, InvStep, PTL DEF Spec
<1>3. CASE ~(ReorgDepth <= Conf)
  <2>1. ChainId \in {1, 30, 31, 42} => Conf >= 2
    BY DEF Conf, NftConfirmations
  <2>2. VotesAreFinal
    BY <1>3, <2>1, Constants DEF VotesAreFinal
  <2> QED BY <2>2, PTL
<1> QED BY <1>2, <1>3
=============================================================================
