----------------------------- MODULE Federator -----------------------------
(***************************************************************************)
(* One federator process (federator/src/lib/Federator.js) that watches the *)
(* Cross events of a chain and votes for them on the other chain.  A run   *)
(* makes two passes over the chain: the first over the blocks that have    *)
(* the confirmations of large amounts, whose progress it keeps in          *)
(* lastBlock.txt, the second over the newer blocks, for the small and      *)
(* medium amounts.  A vote whose transaction fails is kept in              *)
(* revertedTxns.json and never sent again.                                 *)
(*                                                                         *)
(* It looks up the contracts it talks to: the version of AllowTokens, and  *)
(* the federation that the bridge of the other chain obeys, and its        *)
(* version, once per page.  But ContractFactory keeps the first contract   *)
(* of every ABI: once the process has seen a federation it stays with it.  *)
(*                                                                         *)
(* The chain grows and reorganises, votes of other federators arrive,      *)
(* governance upgrades the federation or replaces it, and the process dies *)
(* (also of any exception) and restarts between any two of its awaits.     *)
(***************************************************************************)
EXTENDS WatchedChain

CONSTANTS
    Amount,       \* Amount[e], as the event carries it
    Unit,         \* Unit[e]: 10^(18 - decimals) of the token
    MediumAmount, \* limits of the token's type, in units of 18 decimals
    LargeAmount,
    SmallConf,    \* confirmations that AllowTokens asks for
    MediumConf,
    LargeConf,
    RecordsPerPage,
    V0Conf,       \* confirmations of the watched chain for AllowTokens v0
    MaxFaults     \* bounds failed calls, crashes and changes of the federation

ASSUME FederatorConstants ==
    /\ Amount \in [Events -> Nat] /\ Unit \in [Events -> Nat \ {0}]
    /\ MediumAmount \in Nat /\ LargeAmount \in Nat /\ MediumAmount < LargeAmount
    /\ SmallConf \in Nat /\ MediumConf \in Nat /\ LargeConf \in Nat
    /\ SmallConf <= MediumConf /\ MediumConf <= LargeConf
    /\ RecordsPerPage \in Nat \ {0}
    /\ V0Conf \in Nat
    /\ ReorgDepth <= LargeConf
    /\ MaxFaults \in Nat

VARIABLES
    old,          \* version of the federation there was at first
    replaced,     \* whether the bridge obeys a new one
    member,       \* whether the account is a member
    disallowed,   \* events whose token AllowTokens does not allow any more
    cached,       \* the federation that ContractFactory holds: "none", "old", "new"
    lastBlock,    \* lastBlock.txt
    revertedTxns, \* revertedTxns.json
    pc,           \* where the process is; "down" when it does not run
    current,      \* currentBlock, read when the run began
    pass,         \* "first" or "second" (medmiumAndSmall), or "only" if
                  \* all amounts have the same confirmations
    fromBlock, toBlock,
    logs,         \* the logs of the page that are not handled yet
    awaited,      \* the vote whose receipt the process awaits, in a set
    faults

contracts == <<old, replaced, member, disallowed>>
diskVars  == <<lastBlock, revertedTxns>>
locals    == <<current, pass, fromBlock, toBlock>>
memory    == <<pc, cached, locals, logs, awaited>>
vars == <<chainVars, contracts, diskVars, sideVars, memory, faults>>

Init ==
    /\ ChainInit(LargeConf)
    /\ old = "v3" /\ replaced = FALSE /\ member = TRUE /\ disallowed = {}
    /\ cached = "none"
    /\ lastBlock = 0 /\ revertedTxns = {}
    /\ pc = "idle"
    /\ current = 0 /\ pass = "first" /\ fromBlock = 0 /\ toBlock = 0
    /\ logs = {} /\ awaited = {}
    /\ faults = 0

Fault == faults < MaxFaults /\ faults' = faults + 1

-----------------------------------------------------------------------------
(* The federation of the other chain, and what ContractFactory,             *)
(* FederationFactory and AllowTokensFactory make of the contracts.          *)

Upgrade ==
    /\ ~replaced /\ old = "v3"
    /\ Fault
    /\ old' = "v4"
    /\ UNCHANGED <<chainVars, sideVars, replaced, member, disallowed, diskVars, memory>>

(* setFederation *)
Replace ==
    /\ ~replaced
    /\ Fault
    /\ replaced' = TRUE
    /\ UNCHANGED <<chainVars, sideVars, old, member, disallowed, diskVars, memory>>

(* removeMember, addMember *)
Expel ==
    /\ member
    /\ Fault
    /\ member' = FALSE
    /\ UNCHANGED <<chainVars, sideVars, old, replaced, disallowed, diskVars, memory>>

Admit ==
    /\ ~member
    /\ member' = TRUE
    /\ UNCHANGED <<chainVars, sideVars, old, replaced, disallowed, diskVars, memory, faults>>

(* AllowTokens.setToken, removeAllowedToken.  Events of tokens that come    *)
(* home are never disallowed: that their side token is not allowed is only  *)
(* logged.                                                                  *)
Disallow(e) ==
    /\ e \notin disallowed
    /\ Fault
    /\ disallowed' = disallowed \cup {e}
    /\ UNCHANGED <<chainVars, sideVars, old, replaced, member, diskVars, memory>>

Allow(e) ==
    /\ e \in disallowed
    /\ disallowed' = disallowed \ {e}
    /\ UNCHANGED <<chainVars, sideVars, old, replaced, member, diskVars, memory, faults>>

(* The form of the ids in the federation that the bridge obeys. *)
Home == IF replaced THEN "new" ELSE old

(* A contract of an older version does not know the calls of a later one,   *)
(* nor the other way round.                                                 *)
Answers(form) == form \in {old, "new"}

(* getContractByAbi: the first address asked for stays. *)
Contract == IF cached = "none" THEN (IF replaced THEN "new" ELSE "old") ELSE cached

(* createInstance asks that contract for its version. *)
FormOf(contract) == IF contract = "new" THEN "new" ELSE old

(* When the version of AllowTokens cannot be read it counts as v0: the      *)
(* confirmations are those of a table, the same for all amounts.            *)
FallbackConfirmations == V0Conf

-----------------------------------------------------------------------------
(* The run *)

Begin(p, from, to) ==
    /\ pc' = "page"
    /\ pass' = p
    /\ fromBlock' = from
    /\ toBlock' = to

EndRun == pc' = "idle" /\ UNCHANGED <<pass, fromBlock, toBlock>>

(* Mutant: the second pass begins behind the block where the first ended.   *)
BeginSecondAfter(cur) ==
    IF cur - LargeConf + 1 < cur - SmallConf
    THEN Begin("second", cur - LargeConf + 1, cur - SmallConf)
    ELSE EndRun

(* A pass without blocks does nothing. *)
BeginSecond(cur) ==
    IF cur - LargeConf < cur - SmallConf
    THEN Begin("second", cur - LargeConf, cur - SmallConf)
    ELSE EndRun

Poll ==
    LET to == height - LargeConf
    IN  /\ pc = "idle"
        /\ to > 0 \/ height - SmallConf > 0
        /\ lastBlock < to \/ lastBlock < height - SmallConf
        /\ current' = height
        /\ IF lastBlock + 1 < to THEN Begin("first", lastBlock + 1, to)
                                 ELSE BeginSecond(height)
        /\ UNCHANGED <<chainVars, contracts, cached, diskVars, sideVars, logs, awaited, faults>>

PollWithoutVersion ==
    LET to == height - FallbackConfirmations
    IN  /\ pc = "idle"
        /\ Fault
        /\ lastBlock + 1 < to
        /\ current' = height
        /\ Begin("only", lastBlock + 1, to)
        /\ UNCHANGED <<chainVars, contracts, cached, diskVars, sideVars, logs, awaited>>

PageEnd == IF toBlock - fromBlock <= RecordsPerPage
           THEN toBlock ELSE fromBlock + RecordsPerPage - 1

(* What _processLogs knows of a log. *)
Known(log, unlimited) ==
    [event |-> log.event, version |-> log.version, block |-> log.block,
     form |-> FormOf(Contract), unlimited |-> unlimited]

(* getPastEvents of a page, getSideFederationContract and                   *)
(* getMainAllowTokensContract.  Without the version of AllowTokens every    *)
(* token is allowed, and every amount is a large one, which the second pass *)
(* leaves alone.                                                            *)
FetchPage ==
    LET found == PastEvents(fromBlock, PageEnd)
    IN  /\ pc = "page" /\ member
        /\ pc' = "logs"
        /\ cached' = Contract
        /\ \/ /\ logs' = {Known(l, FALSE) : l \in found}
              /\ UNCHANGED faults
           \/ /\ found # {}
              /\ Fault
              /\ logs' = IF pass = "second" THEN {} ELSE {Known(l, TRUE) : l \in found}
        /\ UNCHANGED <<chainVars, contracts, diskVars, sideVars, locals, awaited>>

(* Mutant: the second pass saves its progress, too. *)
Saved == PageEnd

(* What _saveProgress writes after a page: the second pass saves nothing. *)
Progress == IF pass # "second" THEN PageEnd ELSE lastBlock

(* _saveProgress, after every page of the first pass; then the next page,   *)
(* or the next pass.                                                        *)
EndPage ==
    /\ pc = "logs" /\ logs = {}
    /\ lastBlock' = Progress
    /\ \/ PageEnd # toBlock /\ Begin(pass, PageEnd + 1, toBlock)
       \/ PageEnd = toBlock /\ pass = "first" /\ BeginSecond(current)
       \/ PageEnd = toBlock /\ pass # "first" /\ EndRun
    /\ UNCHANGED <<chainVars, contracts, cached, revertedTxns, sideVars, current, logs,
                   awaited, faults>>

-----------------------------------------------------------------------------
(* _processLogs: the logs of a page in the order of their blocks *)

IsNext(log) == log \in logs /\ \A l \in logs : log.block <= l.block

(* Mutant: medium amounts do not wait. *)
MustWaitIfLarge(log) == pass = "second" /\ Amount[log.event] >= LargeAmount

(* The limits are compared with the amount of the event. *)
MustWait(log) ==
    /\ pass = "second"
    /\ \/ Amount[log.event] >= LargeAmount
       \/ /\ Amount[log.event] >= MediumAmount
          /\ current - log.block < MediumConf

(* process.exit: what is only in memory is lost, but a vote that was sent   *)
(* may still be mined.                                                      *)
Exit ==
    /\ pc' = "down" /\ cached' = "none"
    /\ logs' = {}
    /\ awaited' = {}
    /\ late' = late \cup awaited
    /\ UNCHANGED <<locals, voted, processed>>

Id(log) == [event |-> log.event, version |-> log.version, form |-> log.form]

NotAMember ==
    /\ pc = "page" /\ ~member
    /\ Exit
    /\ UNCHANGED <<chainVars, contracts, diskVars, faults>>

Allowed(log) == log.unlimited \/ log.event \notin disallowed

(* A token that is not allowed ends the process, and so does a federation   *)
(* whose getTransactionId has changed.                                      *)
RefuseLog(log) ==
    /\ pc = "logs" /\ IsNext(log)
    /\ Allowed(log) => ~MustWait(log) /\ ~Answers(log.form)
    /\ Exit
    /\ UNCHANGED <<chainVars, contracts, diskVars, faults>>

IsDone(id) == id \in processed \cup voted \cup revertedTxns

SkipLog(log) ==
    /\ pc = "logs" /\ IsNext(log)
    /\ Allowed(log)
    /\ ~MustWait(log) => Answers(log.form) /\ IsDone(Id(log))
    /\ logs' = logs \ {log}
    /\ UNCHANGED <<chainVars, contracts, diskVars, sideVars, pc, cached, locals, awaited,
                   faults>>

(* _voteTransaction sends the vote and awaits its receipt. *)
SendVote(log) ==
    /\ pc = "logs" /\ IsNext(log)
    /\ Allowed(log)
    /\ ~MustWait(log) /\ Answers(log.form) /\ ~IsDone(Id(log))
    /\ pc' = "vote"
    /\ logs' = logs \ {log}
    /\ awaited' = {Id(log)}
    /\ UNCHANGED <<chainVars, contracts, diskVars, sideVars, cached, locals, faults>>

(* voteTransaction of version 4 does nothing for a transfer that is         *)
(* processed, or was voted for, in the form of version 3.                   *)
Legacy(id) == [id EXCEPT !.form = "v3"]

Idle(id) == id.form = "v4" /\ Legacy(id) \in voted \cup processed

(* The bridge does not obey a federation that was replaced, so the vote     *)
(* that completes its quorum reverts.                                       *)
Taken(id) ==
    /\ member /\ Answers(id.form)
    /\ IF Idle(id) THEN UNCHANGED <<voted, processed>> ELSE Mined(id)
    /\ id.form # Home => processed' = processed

VoteMined(id) ==
    /\ id \in awaited
    /\ Taken(id)
    /\ pc' = "logs" /\ awaited' = {}
    /\ UNCHANGED <<chainVars, contracts, diskVars, late, cached, locals, logs, faults>>

Recorded(id) ==
    /\ revertedTxns' = revertedTxns \cup {id}
    /\ pc' = "logs" /\ awaited' = {}
    /\ UNCHANGED <<chainVars, contracts, lastBlock, voted, processed, cached, locals, logs>>

VoteReverts(id) ==
    /\ id \in awaited
    /\ ~member \/ ~Answers(id.form) \/ id.form # Home
    /\ Recorded(id)
    /\ UNCHANGED <<late, faults>>

(* sendTransaction reports status false: the vote reverts, or its gas       *)
(* could not be estimated, or its nonce was used; or no receipt came in     *)
(* 750 seconds ("it might still be mined").                                 *)
VoteFails(id) ==
    /\ id \in awaited
    /\ Fault
    /\ late' \in {late, late \cup {id}}
    /\ Recorded(id)

-----------------------------------------------------------------------------
(* The process dies and is started again *)

Crash ==
    /\ pc # "down"
    /\ Fault
    /\ Exit
    /\ UNCHANGED <<chainVars, contracts, diskVars>>

Restart ==
    /\ pc = "down"
    /\ pc' = "idle"
    /\ UNCHANGED <<chainVars, contracts, diskVars, sideVars, cached, locals, logs, awaited,
                   faults>>

-----------------------------------------------------------------------------
(* The two chains *)

Grow == NewBlock /\ UNCHANGED <<contracts, diskVars, memory, faults>>

Others ==
    /\ \/ \E e \in Events :
             \/ OthersProcess(IdNow(e, Home))
             \/ \E b \in 1..MaxHeight : Reorganise(e, b)
       \/ \E id \in late :
             IF member /\ Answers(id.form) /\ id.form = Home /\ ~Idle(id) THEN MineLate(id)
                                                                ELSE RefuseLate(id)
    /\ UNCHANGED <<contracts, diskVars, memory, faults>>

Govern ==
    \/ Upgrade \/ Replace \/ Expel \/ Admit
    \/ \E e \in Events : Disallow(e) \/ Allow(e)

-----------------------------------------------------------------------------
HandleLog == \E log \in logs : RefuseLog(log) \/ SkipLog(log) \/ SendVote(log)

GetReceipt == \E id \in awaited : VoteMined(id) \/ VoteReverts(id) \/ VoteFails(id)

Step == Poll \/ FetchPage \/ NotAMember \/ EndPage \/ HandleLog \/ GetReceipt \/ Restart

Next == Step \/ PollWithoutVersion \/ Crash \/ Grow \/ Others \/ Govern

Spec == Init /\ [][Next]_vars

(* The process takes its steps: the scheduler polls for ever, a promise is  *)
(* settled or times out, and a supervisor starts the process again.  The    *)
(* chain grows to the bound.                                                *)
FairSpec == Spec /\ WF_vars(Step) /\ WF_vars(Grow)

-----------------------------------------------------------------------------
(* Properties *)

TypeOK ==
    /\ ChainTypeOK
    /\ old \in {"v3", "v4"} /\ {replaced, member} \subseteq BOOLEAN
    /\ disallowed \subseteq Events
    /\ cached \in {"none", "old", "new"}
    /\ lastBlock \in Nat
    /\ revertedTxns \subseteq Ids /\ awaited \subseteq Ids
    /\ pc \in {"idle", "page", "logs", "vote", "down"}
    /\ pass \in {"first", "second", "only"}
    /\ current \in 0..height
    /\ fromBlock \in Nat /\ toBlock \in 0..height
    /\ logs \subseteq [event: Events, version: Nat, block: 1..height,
                        form: Forms, unlimited: BOOLEAN]

(* No event is lost between the two passes, the pages and the restarts:     *)
(* whatever lies behind the block that lastBlock.txt names was voted for,   *)
(* is processed, or is on record as a failed vote, with the federation that *)
(* the process held at the time.                                            *)
IsHandled(e) == \E form \in Forms : IsDone(IdNow(e, form))

NothingSkipped ==
    \A e \in Events : Logged(e) /\ block[e] <= lastBlock => IsHandled(e)

(* The confirmations an amount needs by the limits of AllowTokens.          *)
Size(e) == Amount[e] * Unit[e]

ConfirmationsOf(e) == IF Size(e) >= LargeAmount THEN LargeConf
                      ELSE IF Size(e) >= MediumAmount THEN MediumConf
                      ELSE SmallConf

(* A vote for an amount whose confirmations exceed every reorganisation is  *)
(* final: the federator never stands by a version of the event that its     *)
(* chain dropped.  The federator must neither use logs too early nor hold   *)
(* on to logs that are replaced while it votes.                             *)
VotesAreFinal ==
    \A id \in voted \cup late \cup awaited :
        ConfirmationsOf(id.event) >= ReorgDepth => IsNow(id)

(* "We consider the amount before fees converted to 18 decimals to check    *)
(* the limits" (Bridge.sol:542): a vote is not sent before the event has    *)
(* the confirmations of its amount in 18 decimals.                          *)
LimitsAreIn18Decimals ==
    \A id \in voted \cup awaited :
        height - block[id.event] >= ConfirmationsOf(id.event)

(* When the chain is long enough for the confirmations of an event, it is   *)
(* handled in the end, in spite of crashes, paging, waiting for             *)
(* confirmations and reorganisations.  A large amount may need one block    *)
(* more (the first pass leaves a single new block to the next run).  A log  *)
(* of a token that is not allowed any more ends every run that reads it and *)
(* so holds up the logs of its own block and of later ones, but no others.  *)
Deadline(e) == IF Amount[e] >= LargeAmount THEN LargeConf + 1 ELSE ConfirmationsOf(e)

HeldUp(e) == \E r \in disallowed : Logged(r) /\ block[r] <= block[e]

EventuallyHandled ==
    \A e \in Events :
        []<>(Logged(e) /\ block[e] + Deadline(e) <= MaxHeight /\ ~HeldUp(e) /\ member
             => IsHandled(e))
=============================================================================
