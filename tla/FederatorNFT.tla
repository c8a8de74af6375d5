---------------------------- MODULE FederatorNFT ----------------------------
(***************************************************************************)
(* The federator of NFTs (federator/src/lib/FederatorNFT.ts).  It makes    *)
(* one pass over the blocks that have the confirmations of its chain,      *)
(* which a table in the code gives, and saves its progress after every     *)
(* page.  Any exception, of a node that does not answer, of a federation   *)
(* that does not know the call, or because the account is not a member,    *)
(* starts the run again from the number of the last block; the third one   *)
(* ends the process.                                                       *)
(*                                                                         *)
(* It talks to every federation with the ABI of version 3.  Version 4 has  *)
(* no getTransactionId of that form, and so refuses every transfer.        *)
(***************************************************************************)
EXTENDS WatchedChain

CONSTANTS
    ChainId,      \* of the watched chain
    Retries,      \* 3 in the code
    RecordsPerPage,
    MaxFaults     \* bounds the faults: failed calls, crashes, changes of the federation

ASSUME FederatorNFTConstants ==
    /\ ChainId \in Nat
    /\ {Retries, RecordsPerPage} \subseteq Nat \ {0}
    /\ MaxFaults \in Nat

VARIABLES
    member,       \* whether the account is a member of the federation
    legacy,       \* whether the federation still has the calls of version 3
    lastBlock,    \* lastBlock.txt
    revertedTxns, \* revertedTxns.json
    pc,           \* where the process is; "down" when it does not run
    retries,      \* attempts left
    current,      \* currentBlock, read when the attempt began
    fromBlock, toBlock,
    logs,         \* the logs of the page that are not handled yet
    awaited,      \* the vote whose receipt the process awaits, in a set
    faults

federation == <<member, legacy>>
disk   == <<lastBlock, revertedTxns>>
locals == <<retries, current, fromBlock, toBlock>>
memory == <<pc, locals, logs, awaited>>
vars == <<chainVars, sideVars, federation, disk, memory, faults>>

(* Mutant: the table has no entry for the testnet of RSK. *)
ConfirmationsOfMainnets(chain) ==
    CASE chain = 1 -> 240 [] chain = 30 -> 120 [] OTHER -> 0

(* A chain that the table does not list needs no confirmations. *)
NftConfirmations(chain) ==
    CASE chain = 31 -> 2
      [] chain = 42 -> 10
      [] chain = 1  -> 240
      [] chain = 30 -> 120
      [] OTHER -> 0

Init ==
    /\ ChainInit(0)
    /\ member = TRUE /\ legacy = TRUE
    /\ lastBlock = 0 /\ revertedTxns = {}
    /\ pc = "idle" /\ retries = Retries
    /\ current = 0 /\ fromBlock = 0 /\ toBlock = 0
    /\ logs = {} /\ awaited = {}
    /\ faults = 0

Fault == faults < MaxFaults /\ faults' = faults + 1

-----------------------------------------------------------------------------
(* An attempt *)

(* Mutant: the run leaves two blocks for later. *)
HasLongPage(to) == lastBlock + 2 < to

(* getLogsAndProcess leaves a single new block for later. *)
HasPage(to) == lastBlock + 1 < to

Idle == pc' = "idle" /\ retries' = Retries

Attempt ==
    LET to == height - NftConfirmations(ChainId)
    IN  /\ \/ pc = "idle" /\ HasPage(to)
           \/ pc = "retry"
        /\ IF HasPage(to)
           THEN /\ pc' = "page"
                /\ current' = height
                /\ fromBlock' = lastBlock + 1
                /\ toBlock' = to
                /\ UNCHANGED retries
           ELSE Idle /\ UNCHANGED <<current, fromBlock, toBlock>>
        /\ UNCHANGED <<chainVars, sideVars, federation, disk, logs, awaited, faults>>

PageEnd == IF toBlock - fromBlock <= RecordsPerPage
           THEN toBlock ELSE fromBlock + RecordsPerPage - 1

(* Memory is lost, but a vote that was sent may still be mined. *)
Forget ==
    /\ logs' = {} /\ awaited' = {}
    /\ late' = late \cup awaited
    /\ UNCHANGED <<current, fromBlock, toBlock, voted, processed>>

(* An exception: try again, or process.exit. *)
Throw ==
    /\ IF retries > 1 THEN pc' = "retry" /\ retries' = retries - 1
                      ELSE pc' = "down" /\ retries' = Retries
    /\ Forget
    /\ UNCHANGED <<chainVars, federation, disk>>

(* getPastEvents of a page; then _processLogs, which first asks whether the *)
(* account is a member.                                                     *)
FetchPage ==
    /\ pc = "page" /\ member
    /\ pc' = "logs"
    /\ logs' = PastEvents(fromBlock, PageEnd)
    /\ UNCHANGED <<chainVars, sideVars, federation, disk, locals, awaited, faults>>

NotAMember ==
    /\ pc = "page" /\ ~member
    /\ Throw
    /\ UNCHANGED faults

(* Mutant: the progress is saved before the logs are handled. *)
SavedAtOnce == logs \subseteq PastEvents(fromBlock, PageEnd)

AllHandled == logs = {}

(* _saveProgress, after every page *)
EndPage ==
    /\ pc = "logs" /\ AllHandled
    /\ logs' = {}
    /\ lastBlock' = PageEnd
    /\ IF PageEnd = toBlock
       THEN Idle /\ UNCHANGED <<current, fromBlock, toBlock>>
       ELSE /\ pc' = "page"
            /\ fromBlock' = PageEnd + 1
            /\ UNCHANGED <<retries, current, toBlock>>
    /\ UNCHANGED <<chainVars, sideVars, federation, revertedTxns, awaited, faults>>

-----------------------------------------------------------------------------
(* _processLogs: the logs of a page in the order of their blocks *)

Id(log) == [event |-> log.event, version |-> log.version, form |-> "v3"]

IsNext(log) == log \in logs /\ \A l \in logs : log.block <= l.block

Confirmed(log) == current - log.block >= NftConfirmations(ChainId)

IsDone(id) == id \in processed \cup voted \cup revertedTxns

SkipLog(log) ==
    /\ pc = "logs" /\ IsNext(log)
    /\ Confirmed(log) => legacy /\ IsDone(Id(log))
    /\ logs' = logs \ {log}
    /\ UNCHANGED <<chainVars, sideVars, federation, disk, pc, locals, awaited, faults>>

(* getTransactionId reverts. *)
RefusedByFederation(log) ==
    /\ pc = "logs" /\ IsNext(log)
    /\ Confirmed(log) /\ ~legacy
    /\ Throw
    /\ UNCHANGED faults

(* _voteTransaction, handleRevertedTxns: the vote is sent. *)
SendVote(log) ==
    /\ pc = "logs" /\ IsNext(log)
    /\ Confirmed(log) /\ legacy /\ ~IsDone(Id(log))
    /\ pc' = "vote"
    /\ logs' = logs \ {log}
    /\ awaited' = {Id(log)}
    /\ UNCHANGED <<chainVars, sideVars, federation, disk, locals, faults>>

HandleLog == \E log \in logs : SkipLog(log) \/ RefusedByFederation(log) \/ SendVote(log)

(* The federation takes a vote of a member in the form it knows. *)
VoteMined(id) ==
    /\ id \in awaited
    /\ member /\ legacy
    /\ Mined(id)
    /\ pc' = "logs" /\ awaited' = {}
    /\ UNCHANGED <<chainVars, late, federation, disk, locals, logs, faults>>

(* sendTransaction reports status false; the vote may be mined later. *)
Recorded(id) ==
    /\ revertedTxns' = revertedTxns \cup {id}
    /\ pc' = "logs" /\ awaited' = {}
    /\ UNCHANGED <<chainVars, lastBlock, voted, processed, federation, locals, logs>>

VoteReverts(id) ==
    /\ id \in awaited
    /\ ~(member /\ legacy)
    /\ Recorded(id)
    /\ UNCHANGED <<late, faults>>

VoteFails(id) ==
    /\ id \in awaited
    /\ Fault
    /\ late' \in {late, late \cup {id}}
    /\ Recorded(id)

GetReceipt == \E id \in awaited : VoteMined(id) \/ VoteReverts(id) \/ VoteFails(id)

-----------------------------------------------------------------------------
(* Faults *)

(* A node does not answer one of the calls before the vote is sent. *)
CallFails ==
    /\ pc \in {"page", "logs"}
    /\ Fault
    /\ Throw

Crash ==
    /\ pc # "down"
    /\ Fault
    /\ pc' = "down" /\ retries' = Retries
    /\ Forget
    /\ UNCHANGED <<chainVars, federation, disk>>

Restart ==
    /\ pc = "down"
    /\ pc' = "idle"
    /\ UNCHANGED <<chainVars, sideVars, federation, disk, locals, logs, awaited, faults>>

-----------------------------------------------------------------------------
(* The chains: late votes are mined only while the federation takes them. *)

Grow == NewBlock /\ UNCHANGED <<federation, disk, memory, faults>>

Others ==
    /\ \/ \E e \in Events :
             \/ OthersProcess(IdNow(e, IF legacy THEN "v3" ELSE "v4"))
             \/ \E b \in 1..MaxHeight : Reorganise(e, b)
       \/ \E id \in late : IF member /\ legacy THEN MineLate(id) ELSE RefuseLate(id)
    /\ UNCHANGED <<federation, disk, memory, faults>>

(* Governance removes the member or adds it again; the federation is        *)
(* upgraded.                                                                *)
Govern ==
    /\ \/ member /\ member' = FALSE /\ UNCHANGED legacy /\ Fault
       \/ ~member /\ member' = TRUE /\ UNCHANGED <<legacy, faults>>
       \/ legacy /\ legacy' = FALSE /\ UNCHANGED member /\ Fault
    /\ UNCHANGED <<chainVars, sideVars, disk, memory>>

-----------------------------------------------------------------------------
Step == Attempt \/ FetchPage \/ NotAMember \/ EndPage \/ HandleLog \/ GetReceipt \/ Restart

Next == Step \/ CallFails \/ Crash \/ Grow \/ Others \/ Govern

Spec == Init /\ [][Next]_vars

(* The scheduler polls for ever, a promise is settled or times out, and a   *)
(* supervisor starts the process again.  The chain grows to the bound.      *)
FairSpec == Spec /\ WF_vars(Step) /\ WF_vars(Grow)

-----------------------------------------------------------------------------
(* Properties *)

TypeOK ==
    /\ ChainTypeOK
    /\ {member, legacy} \subseteq BOOLEAN
    /\ lastBlock \in 0..height /\ current \in 0..height
    /\ revertedTxns \subseteq Ids /\ awaited \subseteq Ids
    /\ pc \in {"idle", "retry", "page", "logs", "vote", "down"}
    /\ retries \in 1..Retries
    /\ fromBlock \in Nat /\ toBlock \in 0..height
    /\ logs \subseteq [event: Events, version: Nat, block: 1..height]

(* Exceptions, restarts, pages and reorganisations lose no event: every     *)
(* event behind the block that lastBlock.txt names was voted for, is        *)
(* processed, or is on record as a failed vote.  Reorganisations must not   *)
(* be deeper than the confirmations of the chain.                           *)
NothingSkipped ==
    ReorgDepth <= NftConfirmations(ChainId) =>
        \A e \in Events :
            Logged(e) /\ block[e] <= lastBlock => IsDone(IdNow(e, "v3"))

(* A vote for an NFT stands by the version of the event that the chain      *)
(* keeps, however the process retries: two confirmations are the least of   *)
(* the chains that the table lists.                                         *)
VotesAreFinal ==
    ReorgDepth <= 2 /\ ChainId \in {1, 30, 31, 42} =>
        \A id \in voted \cup late \cup awaited : IsNow(id)

(* While the account is a member of a federation of version 3, every event  *)
(* that has its confirmations and a block behind them is handled in the     *)
(* end, in spite of exceptions, crashes and members that come and go.       *)
EventuallyHandled ==
    \A e \in Events :
        []<>(/\ Logged(e) /\ block[e] + NftConfirmations(ChainId) < MaxHeight
             /\ member /\ legacy
             => IsDone(IdNow(e, "v3")))
=============================================================================
