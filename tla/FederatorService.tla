-------------------------- MODULE FederatorService --------------------------
(***************************************************************************)
(* The process that main.js starts: two schedulers, one of which runs the  *)
(* federators and then reads the heartbeats, one after the other, while    *)
(* the other one emits a heartbeat.  All jobs send from one account        *)
(* (TransactionSender): they ask the node for the nonce, for gas price and *)
(* gas limit, and then send.  The federator of the side chain and the      *)
(* heartbeat both send to the main chain, and nothing keeps them apart.    *)
(*                                                                         *)
(* What a federator votes for is left to modules Federator and             *)
(* FederatorNFT; here a job sends any number of transactions.  Gas price   *)
(* and gas limit are module GasPrice.                                      *)
(***************************************************************************)
EXTENDS GasPrice, Sequences, FiniteSets

CONSTANTS
    UseNft,       \* config.useNft
    RecordsPerPage,
    MaxBlocks, MaxSends, MaxFaults      \* bounds

ASSUME ServiceConstants ==
    /\ UseNft \in BOOLEAN
    /\ RecordsPerPage \in Nat \ {0}
    /\ {MaxBlocks, MaxSends, MaxFaults} \subseteq Nat

Schedulers == {"federators", "heartbeat"}
Chains == {"main", "side"}

(* run() of main.js, and what the second scheduler runs *)
Jobs(s) ==
    IF s = "heartbeat" THEN <<"emit">>
    ELSE IF UseNft THEN <<"mainNFT", "sideNFT", "main", "side", "readLogs">>
    ELSE <<"main", "side", "readLogs">>

(* The chain a job sends to. *)
Target(j) == IF j \in {"mainNFT", "main"} THEN "side" ELSE "main"

Kind(j) == IF j = "emit" THEN "heartbeat" ELSE "vote"

(* A transaction of the account, and what a block without one holds. *)
Transactions == [nonce : Nat, kind : {"vote", "heartbeat"}]
Empty == [nonce |-> 0, kind |-> "none"]

VARIABLES
    up,           \* the process runs
    running,      \* running[s], of the scheduler
    timer,        \* timer[s]: a next poll is scheduled
    stopped,      \* stop() was called on the scheduler of the federators
    runs,         \* the polls in progress
    chain,        \* chain[c]: what its blocks hold of this account
    pool,         \* pool[c]: the account's transactions that wait for a block
    sends,        \* transactions sent on each chain
    collisions,   \* transactions that met another one with their nonce
    lastRead,     \* heartBeatLastBlock.txt
    logged,       \* blocks of the main chain whose heartbeat was logged
    page,         \* the blocks readLogs still reads: <<first, last>>
    faults

schedulerVars == <<running, timer, stopped>>
chainVars == <<chain, pool, sends, collisions>>
readVars == <<lastRead, logged, page>>
vars == <<up, schedulerVars, runs, chainVars, readVars, faults>>

Init ==
    /\ up = TRUE
    /\ running = [s \in Schedulers |-> FALSE]
    /\ timer = [s \in Schedulers |-> FALSE]
    /\ stopped = FALSE
    /\ runs = {}
    /\ chain = [c \in Chains |-> <<>>]
    /\ pool = [c \in Chains |-> {}]
    /\ sends = [c \in Chains |-> 0]
    /\ collisions = {}
    /\ lastRead = 0 /\ logged = {} /\ page = <<1, 0>>
    /\ faults = 0

Fault == faults < MaxFaults /\ faults' = faults + 1

-----------------------------------------------------------------------------
(* Scheduler *)

NewRun(s) == [scheduler |-> s, at |-> 1, phase |-> "begin", nonce |-> 0]

Job(r) == Jobs(r.scheduler)[r.at]

Again(r) == [r EXCEPT !.phase = "begin", !.nonce = 0]

Change(r, new) == runs' = (runs \ {r}) \cup new

(* start() is refused while the scheduler runs. *)
Start(s) ==
    /\ up /\ ~running[s]
    /\ running' = [running EXCEPT ![s] = TRUE]
    /\ runs' = runs \cup {NewRun(s)}
    /\ UNCHANGED <<up, timer, stopped, chainVars, readVars, faults>>

Poll(s) ==
    /\ timer[s]
    /\ timer' = [timer EXCEPT ![s] = FALSE]
    /\ runs' = IF running[s] THEN runs \cup {NewRun(s)} ELSE runs
    /\ UNCHANGED <<up, running, stopped, chainVars, readVars, faults>>

(* stop() leaves running as it is. *)
Stop ==
    /\ running["federators"]
    /\ stopped' = TRUE
    /\ timer' = [timer EXCEPT !["federators"] = FALSE]
    /\ UNCHANGED <<up, running, runs, chainVars, readVars, faults>>

(* Mutants: the next poll is scheduled when the first job is done; only the *)
(* heartbeat schedules itself again.                                        *)
ScheduledAfterFirstJob(r) == [timer EXCEPT ![r.scheduler] = TRUE]
ScheduledByHeartbeat(r) == [timer EXCEPT ![r.scheduler] = Job(r) = "emit"]

(* The next poll is scheduled when the service has run. *)
ScheduledBy(r) ==
    IF r.at = Len(Jobs(r.scheduler)) THEN [timer EXCEPT ![r.scheduler] = TRUE]
                                     ELSE timer

(* A job returns: the next one begins, or the run ends. *)
EndJob(r) ==
    /\ \/ r.phase = "begin" /\ Job(r) # "readLogs"
       \/ r.phase = "begin" /\ lastRead + 1 >= Len(chain["main"])
       \/ r.phase = "done"
    /\ timer' = ScheduledBy(r)
    /\ Change(r, IF r.at = Len(Jobs(r.scheduler)) THEN {}
                 ELSE {[Again(r) EXCEPT !.at = @ + 1]})
    /\ UNCHANGED <<up, running, stopped, chainVars, readVars, faults>>

-----------------------------------------------------------------------------
(* TransactionSender *)

Nonces(c) == {tx.nonce : tx \in pool[c]}

(* The transactions of the account in blocks; their number is the next nonce *)
(* that a block takes.                                                       *)
Own(c) == {chain[c][b] : b \in DOMAIN chain[c]} \ {Empty}
Count(c) == Cardinality(Own(c))

(* getTransactionCount(address, "pending") *)
PendingCount(c) ==
    CHOOSE n \in Count(c)..(Count(c) + Cardinality(pool[c])) :
        n \notin Nonces(c) /\ \A k \in Count(c)..(n - 1) : k \in Nonces(c)

(* Mutant: the count without the transactions that are pending. *)
CountOfBlocks(r) == Count(Target(Job(r)))

GetNonce(r) == PendingCount(Target(Job(r)))

CreateRawTransaction(r) ==
    /\ r.phase = "begin" /\ Job(r) # "readLogs"
    /\ sends[Target(Job(r))] < MaxSends
    /\ Change(r, {[r EXCEPT !.phase = "nonce", !.nonce = GetNonce(r)]})
    /\ UNCHANGED <<up, schedulerVars, chainVars, readVars, faults>>

(* The transactions that have the nonce already. *)
Rivals(r) ==
    LET c == Target(Job(r))
    IN  {tx.kind : tx \in {p \in pool[c] \cup Own(c) : p.nonce = r.nonce}}

(* sendSignedTransaction: a nonce that is used is refused; one that is      *)
(* pending is refused, or the better price replaces it.                     *)
Send(r) ==
    LET c == Target(Job(r))
        this == [nonce |-> r.nonce, kind |-> Kind(Job(r))]
    IN  /\ r.phase = "nonce"
        /\ sends' = [sends EXCEPT ![c] = @ + 1]
        /\ collisions' = collisions \cup
               {[chain |-> c, kinds |-> {k, this.kind}] : k \in Rivals(r)}
        /\ \/ /\ Count(c) <= r.nonce
              /\ pool' = [pool EXCEPT ![c] =
                             {tx \in @ : tx.nonce # r.nonce} \cup {this}]
              /\ Change(r, {[r EXCEPT !.phase = "sent"]})
           \/ /\ Rivals(r) # {}
              /\ Change(r, {Again(r)})
              /\ UNCHANGED pool
        /\ UNCHANGED <<up, schedulerVars, chain, readVars, faults>>

(* The receipt comes; or none comes in 750 seconds, also because another    *)
(* transaction took the nonce.                                              *)
Settle(r) ==
    /\ r.phase = "sent"
    /\ Change(r, {Again(r)})
    /\ UNCHANGED <<up, schedulerVars, chainVars, readVars, faults>>

-----------------------------------------------------------------------------
(* Heartbeat.readLogs reads to the last block, without confirmations. *)

BeginRead(r) ==
    /\ r.phase = "begin" /\ Job(r) = "readLogs"
    /\ lastRead + 1 < Len(chain["main"])
    /\ page' = <<lastRead + 1, Len(chain["main"])>>
    /\ Change(r, {[r EXCEPT !.phase = "read"]})
    /\ UNCHANGED <<up, schedulerVars, chainVars, lastRead, logged, faults>>

PageEnd == IF page[2] - page[1] <= RecordsPerPage
           THEN page[2] ELSE page[1] + RecordsPerPage - 1

Heartbeats(from, to) == {b \in from..to : chain["main"][b].kind = "heartbeat"}

(* _processHeartbeatLogs *)
LogPage(r) ==
    /\ r.phase = "read"
    /\ logged' = logged \cup Heartbeats(page[1], PageEnd)
    /\ Change(r, {[r EXCEPT !.phase = "save"]})
    /\ UNCHANGED <<up, schedulerVars, chainVars, lastRead, page, faults>>

(* Mutants: what is saved is the end of the last page, or the block behind  *)
(* the page.                                                                *)
LastOfPages == page[2]
BehindPage == PageEnd + 1

Progress == PageEnd

(* _saveProgress, after every page *)
SavePage(r) ==
    /\ r.phase = "save"
    /\ lastRead' = Progress
    /\ IF PageEnd = page[2]
       THEN page' = <<1, 0>> /\ Change(r, {[r EXCEPT !.phase = "done"]})
       ELSE page' = <<PageEnd + 1, page[2]>> /\ Change(r, {[r EXCEPT !.phase = "read"]})
    /\ UNCHANGED <<up, schedulerVars, chainVars, logged, faults>>

-----------------------------------------------------------------------------
(* Faults: an exception makes a job begin again, the third one, or a signal,*)
(* ends the process, which is then started again.                           *)

Retry(r) ==
    /\ r.phase \in {"begin", "read", "save"}
    /\ Fault
    /\ page' = IF Job(r) = "readLogs" THEN <<1, 0>> ELSE page
    /\ Change(r, {Again(r)})
    /\ UNCHANGED <<up, schedulerVars, chainVars, lastRead, logged>>

Exit ==
    /\ up
    /\ Fault
    /\ up' = FALSE
    /\ running' = [s \in Schedulers |-> FALSE]
    /\ timer' = [s \in Schedulers |-> FALSE]
    /\ stopped' = FALSE
    /\ runs' = {} /\ page' = <<1, 0>>
    /\ UNCHANGED <<chainVars, lastRead, logged>>

Restart ==
    /\ ~up
    /\ up' = TRUE
    /\ UNCHANGED <<schedulerVars, runs, chainVars, readVars, faults>>

-----------------------------------------------------------------------------
(* The chains: a block takes the account's next transaction, or none; a     *)
(* node forgets one that waits.                                             *)

NewBlock(c) ==
    /\ Len(chain[c]) < MaxBlocks
    /\ \/ /\ c = "main"        \* nobody counts the blocks of the other one
          /\ chain' = [chain EXCEPT ![c] = Append(@, Empty)]
          /\ UNCHANGED pool
       \/ \E tx \in pool[c] :
             /\ tx.nonce = Count(c)
             /\ chain' = [chain EXCEPT ![c] = Append(@, tx)]
             /\ pool' = [pool EXCEPT ![c] = @ \ {tx}]
    /\ UNCHANGED <<up, schedulerVars, runs, sends, collisions, readVars, faults>>

Drop(c) ==
    /\ Fault
    /\ \E tx \in pool[c] : pool' = [pool EXCEPT ![c] = @ \ {tx}]
    /\ UNCHANGED <<up, schedulerVars, runs, chain, sends, collisions, readVars>>

-----------------------------------------------------------------------------
Step(r) ==
    \/ CreateRawTransaction(r) \/ Send(r) \/ Settle(r)
    \/ BeginRead(r) \/ LogPage(r) \/ SavePage(r)
    \/ EndJob(r)

Next ==
    \/ \E s \in Schedulers : Start(s) \/ Poll(s)
    \/ Stop
    \/ \E r \in runs : Step(r) \/ Retry(r)
    \/ Exit \/ Restart
    \/ \E c \in Chains : NewBlock(c) \/ Drop(c)

Spec == Init /\ [][Next]_vars

Proceed(s) == \E r \in runs : r.scheduler = s /\ Step(r)

(* The process starts its schedulers, timers fire, every promise is settled *)
(* or times out, and a supervisor starts the process again.                 *)
FairSpec ==
    /\ Spec
    /\ WF_vars(Restart)
    /\ \A s \in Schedulers :
          WF_vars(Start(s)) /\ WF_vars(Poll(s)) /\ WF_vars(Proceed(s))
    /\ \A c \in Chains : WF_vars(NewBlock(c))

-----------------------------------------------------------------------------
(* Properties *)

TypeOK ==
    /\ up \in BOOLEAN /\ stopped \in BOOLEAN
    /\ running \in [Schedulers -> BOOLEAN]
    /\ timer \in [Schedulers -> BOOLEAN]
    /\ \A r \in runs :
          /\ r.scheduler \in Schedulers
          /\ r.at \in 1..Len(Jobs(r.scheduler))
          /\ r.phase \in {"begin", "nonce", "sent", "read", "save", "done"}
          /\ r.nonce \in Nat
    /\ chain \in [Chains -> Seq(Transactions \cup {Empty})]
    /\ \A c \in Chains : /\ pool[c] \subseteq Transactions
                         /\ Cardinality(Nonces(c)) = Cardinality(pool[c])
    /\ lastRead \in 0..Len(chain["main"])

(* The federators keep their progress in memory from a read of their file   *)
(* to the next write, so two polls must never be in progress together, nor  *)
(* may one be scheduled while another is in progress: whatever is started,  *)
(* stopped, retried and restarted.                                          *)
OnePollAtATime ==
    \A s \in Schedulers :
        Cardinality({r \in runs : r.scheduler = s}) + (IF timer[s] THEN 1 ELSE 0) <= 1

(* Two transactions of the account with one nonce are always a vote and a   *)
(* heartbeat on the main chain: votes never take the nonce of other votes,  *)
(* not even after a timeout or a restart, and never on the side chain.  It  *)
(* takes the order of the jobs and the count of the pending transactions.   *)
OnlyHeartbeatsCollide ==
    collisions \subseteq {[chain |-> "main", kinds |-> {"vote", "heartbeat"}]}

(* Every heartbeat of the blocks that are marked as read was logged, in     *)
(* spite of pages, exceptions and restarts between log and mark.            *)
NothingUnread == Heartbeats(1, lastRead) \subseteq logged

(* Every job runs again and again, unless the scheduler was stopped.        *)
EveryJobRuns ==
    \A s \in Schedulers : \A i \in DOMAIN Jobs(s) :
        []<>(\/ stopped
             \/ \E r \in runs : r.scheduler = s /\ r.at = i)
=============================================================================
