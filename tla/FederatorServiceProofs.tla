----------------------- MODULE FederatorServiceProofs -----------------------
(***************************************************************************)
(* Theorems about FederatorService, for every number of blocks, sends and  *)
(* faults and every length of a page, with the jobs for NFTs or without;   *)
(* and about the prices that its transactions offer (GasPrice).            *)
(***************************************************************************)
EXTENDS FederatorService, FiniteSetTheorems, WellFoundedInduction, TLAPS

(* What a run of a scheduler is.                                            *)
Phases == {"begin", "nonce", "sent", "read", "save", "done"}
Polls == [scheduler : Schedulers, at : Nat, phase : Phases, nonce : Nat]

(* Which job a run is at: what it sends, and to which chain.                *)
LEMMA JobOf ==
    ASSUME NEW r \in Polls, r.at \in 1..Len(Jobs(r.scheduler))
    PROVE  /\ Target(Job(r)) \in Chains
           /\ r.scheduler = "heartbeat" =>
                  /\ Job(r) = "emit" /\ r.at = Len(Jobs(r.scheduler))
                  /\ Kind(Job(r)) = "heartbeat" /\ Target(Job(r)) = "main"
           /\ r.scheduler = "federators" => Kind(Job(r)) = "vote"
<1> DEFINE j == Job(r)
<1>1. CASE r.scheduler = "heartbeat"
  <2>1. Jobs(r.scheduler) = <<"emit">>
    BY <1>1 DEF Jobs
  <2>2. r.at = 1 /\ Len(Jobs(r.scheduler)) = 1
    BY <2>1
  <2>3. j = "emit"
    BY <2>1, <2>2 DEF Job
  <2> QED
    BY <1>1, <2>2, <2>3 DEF Target, Kind, Chains
<1>2. CASE r.scheduler = "federators"
  <2>1. CASE UseNft
    <3>1. Jobs(r.scheduler) = <<"mainNFT", "sideNFT", "main", "side", "readLogs">>
      BY <1>2, <2>1 DEF Jobs
    <3>2. j \in {"mainNFT", "sideNFT", "main", "side", "readLogs"}
      BY <3>1 DEF Job
    <3> QED
      BY <1>2, <3>2 DEF Target, Kind, Chains
  <2>2. CASE ~UseNft
    <3>1. Jobs(r.scheduler) = <<"main", "side", "readLogs">>
      BY <1>2, <2>2 DEF Jobs
    <3>2. j \in {"main", "side", "readLogs"}
      BY <3>1 DEF Job
    <3> QED
      BY <1>2, <3>2 DEF Target, Kind, Chains
  <2> QED
    BY <2>1, <2>2
<1> QED
  BY <1>1, <1>2 DEF Polls, Schedulers

(* A set of numbers has a least one.                                        *)
LEMMA LeastNumber ==
    ASSUME NEW T, T \subseteq Nat, T # {}
    PROVE  \E x \in T : \A y \in T : x <= y
<1> DEFINE R == OpToRel(<, Nat)
<1>1. IsWellFoundedOn(R, Nat)
  BY NatLessThanWellFounded
<1>2. \A x, y \in Nat : x < y => <<x, y>> \in R
  BY DEF OpToRel
<1> HIDE DEF R
<1>3. PICK x \in T : \A y \in T : <<y, x>> \notin R
  BY <1>1, WFMin
<1>4. \A y \in T : x <= y
  <2> TAKE y \in T
  <2>1. x \in Nat /\ y \in Nat
    OBVIOUS
  <2>2. ~(y < x)
    BY <1>2, <1>3, <2>1, Zenon
  <2> QED
    BY <2>1, <2>2
<1> QED
  BY <1>4

(* A pool of k transactions leaves a nonce free among any k + 1, and there  *)
(* is a first one: PendingCount always exists.                              *)
LEMMA FirstFree ==
    ASSUME NEW N, IsFiniteSet(N), NEW k \in Nat, Cardinality(N) <= k, NEW m \in Nat
    PROVE  \E n \in m..(m + k) : n \notin N /\ \A j \in m..(n - 1) : j \in N
<1> DEFINE S == {n \in m..(m + k) : n \notin N}
<1>1. S # {}
  <2> SUFFICES ASSUME S = {} PROVE FALSE
    OBVIOUS
  <2>1. m..(m + k) \subseteq N
    OBVIOUS
  <2>2. Cardinality(m..(m + k)) = k + 1
    BY FS_Interval
  <2>3. Cardinality(m..(m + k)) <= Cardinality(N)
    BY <2>1, FS_Subset
  <2> QED
    BY <2>2, <2>3, FS_CardinalityType
<1>2. S \subseteq Nat
  OBVIOUS
<1>3. PICK n \in S : \A j \in S : n <= j
  BY <1>1, <1>2, LeastNumber
<1>4. n \in Nat /\ n \in m..(m + k) /\ n \notin N
  OBVIOUS
<1>5. ASSUME NEW j \in m..(n - 1) PROVE j \in N
  <2>1. j \in m..(m + k) /\ ~(n <= j)
    BY <1>4
  <2> QED
    BY <1>3, <2>1
<1> QED
  BY <1>4, <1>5
-----------------------------------------------------------------------------
(* The schedulers: a poll is scheduled, or in progress, or neither, and only *)
(* if the scheduler runs.                                                    *)

RunsOK ==
    \A r \in runs :
        /\ r \in Polls
        /\ r.at \in 1..Len(Jobs(r.scheduler))
        /\ r.phase \in {"nonce", "sent"} => Job(r) # "readLogs"
        /\ r.phase \in {"read", "save", "done"} => Job(r) = "readLogs"

OnePoll ==
    /\ \A s \in Schedulers :
          timer[s] \/ ~running[s] => \A r \in runs : r.scheduler # s
    /\ \A s \in Schedulers : timer[s] => running[s]
    /\ \A r, q \in runs : r.scheduler = q.scheduler => r = q

PollInv ==
    /\ up \in BOOLEAN /\ stopped \in BOOLEAN
    /\ running \in [Schedulers -> BOOLEAN]
    /\ timer \in [Schedulers -> BOOLEAN]
    /\ RunsOK
    /\ OnePoll

(* The nonces: a chain holds the first ones and the pool others, each once;  *)
(* what a run is about to send is not what has its nonce already.            *)

ChainOK(c) ==
    /\ IsFiniteSet(pool[c]) /\ IsFiniteSet(Own(c))
    /\ \A t \in Own(c) : t.nonce < Count(c)
    /\ \A t \in pool[c] : Count(c) <= t.nonce
    /\ \A t, u \in pool[c] : t.nonce = u.nonce => t = u
    /\ c = "side" => \A t \in pool[c] \cup Own(c) : t.kind = "vote"

NoRival(r) ==
    LET c == Target(Job(r))
    IN  \A t \in pool[c] \cup Own(c) : t.nonce = r.nonce => t.kind # Kind(Job(r))

NonceInv ==
    /\ chain \in [Chains -> Seq(Transactions \cup {Empty})]
    /\ pool \in [Chains -> SUBSET Transactions]
    /\ \A c \in Chains : ChainOK(c)
    /\ \A r \in runs : r.phase = "nonce" => NoRival(r)
    /\ OnlyHeartbeatsCollide

(* Reading: what is behind lastRead is on the page that a run reads.         *)

PageOK ==
    /\ page[1] = lastRead + 1
    /\ page[1] <= page[2] /\ page[2] <= Len(chain["main"])

ReadInv ==
    /\ page \in Nat \X Nat
    /\ lastRead \in 0..Len(chain["main"])
    /\ \A r \in runs : r.phase \in {"read", "save"} => PageOK
    /\ \A r \in runs : r.phase = "save" => Heartbeats(page[1], PageEnd) \subseteq logged
    /\ NothingUnread
-----------------------------------------------------------------------------
(* What the blocks hold besides nothing are transactions.                   *)
LEMMA OwnIsOfAccount ==
    ASSUME NonceInv, NEW c \in Chains
    PROVE  Own(c) \subseteq Transactions
BY DEF NonceInv, Own

(* The nonce that a transaction gets is one that no other has.              *)
LEMMA PendingIsFree ==
    ASSUME NonceInv, NEW c \in Chains
    PROVE  /\ PendingCount(c) \in Nat
           /\ \A t \in pool[c] \cup Own(c) : t.nonce # PendingCount(c)
<1> DEFINE m == Count(c)
           k == Cardinality(pool[c])
           N == Nonces(c)
           f == [t \in pool[c] |-> t.nonce]
<1>1. m \in Nat /\ k \in Nat
  BY FS_CardinalityType DEF NonceInv, ChainOK, Count
<1>2. IsFiniteSet(N) /\ Cardinality(N) <= k
  <2>1. f \in Surjection(pool[c], N)
    BY DEF Surjection, Nonces
  <2> QED
    BY <2>1, FS_Surjection DEF NonceInv, ChainOK
<1>3. \E n \in m..(m + k) : n \notin N /\ \A j \in m..(n - 1) : j \in N
  BY <1>1, <1>2, FirstFree
<1>4. PendingCount(c) \in m..(m + k) /\ PendingCount(c) \notin N
  BY <1>3 DEF PendingCount
<1>5. \A t \in Own(c) : t.nonce # PendingCount(c)
  BY <1>1, <1>4 DEF NonceInv, ChainOK
<1> QED
  BY <1>1, <1>4, <1>5 DEF Nonces

(* What a step of a run, other than its end, leaves of it.                  *)
MovesTo(r, q) ==
    /\ q \in Polls
    /\ q.scheduler = r.scheduler /\ q.at = r.at
    /\ q.phase \in {"nonce", "sent"} => Job(r) # "readLogs"
    /\ q.phase \in {"read", "save", "done"} => Job(r) = "readLogs"
    /\ Change(r, {q})

(* Every step of a run but its end only moves this run.                     *)
LEMMA RunMoves ==
    ASSUME NonceInv, RunsOK, NEW r \in runs, Step(r) \/ Retry(r), ~EndJob(r)
    PROVE  /\ \E q : MovesTo(r, q)
           /\ UNCHANGED <<up, schedulerVars>>
<1>1. r \in Polls /\ Target(Job(r)) \in Chains
  BY JobOf DEF RunsOK
<1>2. CASE CreateRawTransaction(r)
  <2>1. GetNonce(r) \in Nat
    BY <1>1, PendingIsFree DEF GetNonce
  <2> QED
    BY <1>1, <1>2, <2>1 DEF CreateRawTransaction, MovesTo, Polls, Phases
<1>3. CASE Send(r)
  BY <1>1, <1>3 DEF Send, MovesTo, Polls, Phases, Again, RunsOK
<1>4. CASE Settle(r)
  BY <1>1, <1>4 DEF Settle, MovesTo, Polls, Phases, Again
<1>5. CASE BeginRead(r)
  BY <1>1, <1>5 DEF BeginRead, MovesTo, Polls, Phases
<1>6. CASE LogPage(r)
  BY <1>1, <1>6 DEF LogPage, MovesTo, Polls, Phases, RunsOK
<1>7. CASE SavePage(r)
  BY <1>1, <1>7 DEF SavePage, MovesTo, Polls, Phases, RunsOK
<1>8. CASE Retry(r)
  BY <1>1, <1>8 DEF Retry, MovesTo, Polls, Phases, Again
<1> QED
  BY <1>2, <1>3, <1>4, <1>5, <1>6, <1>7, <1>8 DEF Step

(* A run that moves leaves one poll at a time.                              *)
LEMMA MovesKeepPolls ==
    ASSUME PollInv, NEW r \in runs, NEW q, MovesTo(r, q), UNCHANGED <<up, schedulerVars>>
    PROVE  PollInv'
<1>1. runs' = (runs \ {r}) \cup {q} /\ q.scheduler = r.scheduler
  BY DEF MovesTo, Change
<1>2. Job(q) = Job(r)
  BY DEF MovesTo, Job
<1>3. RunsOK'
  BY <1>1, <1>2 DEF PollInv, RunsOK, MovesTo, Job
<1>4. OnePoll'
  BY <1>1 DEF PollInv, OnePoll, schedulerVars
<1> QED
  BY <1>3, <1>4 DEF PollInv, schedulerVars

(* Nothing that the schedulers do lets two polls meet.                      *)
LEMMA PollInvStep ==
    ASSUME NonceInv, PollInv, [Next]_vars
    PROVE  PollInv'
<1> USE DEF PollInv
<1>1. ASSUME NEW s \in Schedulers, Start(s) \/ (Poll(s) /\ running[s])
      PROVE  PollInv'
  <2>1. runs' = runs \cup {NewRun(s)} /\ \A r \in runs : r.scheduler # s
    BY <1>1 DEF Start, Poll, OnePoll
  <2>2. NewRun(s) \in Polls /\ NewRun(s).scheduler = s /\ NewRun(s).at = 1
        /\ NewRun(s).phase = "begin"
    BY DEF NewRun, Polls, Phases
  <2>3. 1 \in 1..Len(Jobs(s))
    BY DEF Jobs
  <2>4. RunsOK'
    BY <2>1, <2>2, <2>3 DEF RunsOK, Job
  <2>5. timer' = [timer EXCEPT ![s] = FALSE] /\ running' = [running EXCEPT ![s] = TRUE]
    BY <1>1, <2>1 DEF Start, Poll, OnePoll
  <2>6. OnePoll'
    BY <2>1, <2>2, <2>5 DEF OnePoll
  <2> QED
    BY <1>1, <2>4, <2>5, <2>6 DEF Start, Poll
<1>2. ASSUME NEW s \in Schedulers, Poll(s), ~running[s]
      PROVE  PollInv'
  BY <1>2 DEF Poll, OnePoll
<1>3. CASE Stop
  BY <1>3 DEF Stop, OnePoll, RunsOK, Job, Schedulers
<1>4. ASSUME NEW r \in runs, Step(r) \/ Retry(r), ~EndJob(r)
      PROVE  PollInv'
  BY <1>4, RunMoves, MovesKeepPolls
<1>5. ASSUME NEW r \in runs, EndJob(r)
      PROVE  PollInv'
  <2>1. CASE r.at = Len(Jobs(r.scheduler))
    <3>1. runs' = runs \ {r} /\ timer' = [timer EXCEPT ![r.scheduler] = TRUE]
          /\ UNCHANGED <<up, running, stopped>>
      BY <1>5, <2>1 DEF EndJob, Change, ScheduledBy
    <3>2. r.scheduler \in Schedulers
      BY DEF RunsOK, Polls
    <3>3. RunsOK'
      BY <3>1 DEF RunsOK, Job
    <3>4. OnePoll'
      BY <3>1, <3>2 DEF OnePoll
    <3> QED
      BY <3>1, <3>3, <3>4
  <2>2. CASE r.at # Len(Jobs(r.scheduler))
    <3> DEFINE q == [Again(r) EXCEPT !.at = @ + 1]
    <3>1. runs' = (runs \ {r}) \cup {q} /\ UNCHANGED <<up, running, timer, stopped>>
      BY <1>5, <2>2 DEF EndJob, Change, ScheduledBy
    <3>2. q \in Polls /\ q.scheduler = r.scheduler /\ q.phase = "begin" /\ q.at = r.at + 1
      <4>1. r \in Polls
        BY DEF RunsOK
      <4>2. Again(r) \in Polls /\ Again(r).scheduler = r.scheduler
            /\ Again(r).phase = "begin" /\ Again(r).at = r.at
        BY <4>1 DEF Again, Polls, Phases
      <4> QED
        BY <4>2 DEF Polls
    <3> HIDE DEF q
    <3>3. q.at \in 1..Len(Jobs(q.scheduler))
      <4>1. Len(Jobs(q.scheduler)) \in {1, 3, 5}
        BY DEF Jobs
      <4> QED
        BY <2>2, <3>2, <4>1 DEF RunsOK
    <3>4. RunsOK'
      BY <3>1, <3>2, <3>3 DEF RunsOK, Job
    <3>5. OnePoll'
      BY <3>1, <3>2 DEF OnePoll
    <3> QED
      BY <3>1, <3>4, <3>5
  <2> QED
    BY <2>1, <2>2
<1>6. CASE Exit
  BY <1>6 DEF Exit, RunsOK, OnePoll
<1>7. CASE Restart
  BY <1>7 DEF Restart, RunsOK, OnePoll, schedulerVars, Job
<1>8. ASSUME NEW c \in Chains, NewBlock(c) \/ Drop(c)
      PROVE  PollInv'
  BY <1>8 DEF NewBlock, Drop, RunsOK, OnePoll, schedulerVars, Job
<1>9. CASE UNCHANGED vars
  BY <1>9 DEF vars, schedulerVars, RunsOK, OnePoll, Job
<1> QED
  BY <1>1, <1>2, <1>3, <1>4, <1>5, <1>6, <1>7, <1>8, <1>9 DEF Next, Step
-----------------------------------------------------------------------------
(* A block adds to the transactions of the account what it takes.           *)
LEMMA OwnGrows ==
    ASSUME NonceInv, NEW c \in Chains, NEW t \in Transactions \cup {Empty},
           chain' = [chain EXCEPT ![c] = Append(@, t)]
    PROVE  /\ chain' \in [Chains -> Seq(Transactions \cup {Empty})]
           /\ Len(chain[c]) \in Nat /\ Len(chain'[c]) = Len(chain[c]) + 1
           /\ \A b \in 1..Len(chain[c]) : chain'[c][b] = chain[c][b]
           /\ Own(c)' = Own(c) \cup ({t} \ {Empty})
           /\ \A d \in Chains : d # c => chain'[d] = chain[d] /\ Own(d)' = Own(d)
<1>1. PICK s \in Seq(Transactions \cup {Empty}) : s = chain[c]
  BY DEF NonceInv
<1>2. PICK n \in Nat : n = Len(s)
  OBVIOUS
<1>3. chain'[c] = Append(s, t) /\ \A d \in Chains : d # c => chain'[d] = chain[d]
  BY <1>1 DEF NonceInv
<1>4. /\ Append(s, t) \in Seq(Transactions \cup {Empty})
      /\ Len(Append(s, t)) = n + 1
      /\ \A b \in 1..n : Append(s, t)[b] = s[b]
      /\ Append(s, t)[n + 1] = t
  BY <1>2
<1>5. chain' \in [Chains -> Seq(Transactions \cup {Empty})]
  BY <1>3, <1>4 DEF NonceInv
<1>6. {Append(s, t)[b] : b \in 1..(n + 1)} = {s[b] : b \in 1..n} \cup {t}
  <2>1. ASSUME NEW x \in {Append(s, t)[b] : b \in 1..(n + 1)} PROVE x \in {s[b] : b \in 1..n} \cup {t}
    <3>1. PICK b \in 1..(n + 1) : x = Append(s, t)[b]
      OBVIOUS
    <3>2. b \in 1..n \/ b = n + 1
      BY <1>2
    <3> QED
      BY <1>4, <3>1, <3>2
  <2>2. ASSUME NEW x \in {s[b] : b \in 1..n} PROVE x \in {Append(s, t)[b] : b \in 1..(n + 1)}
    <3>1. PICK b \in 1..n : x = s[b]
      OBVIOUS
    <3>2. b \in 1..(n + 1) /\ x = Append(s, t)[b]
      BY <1>2, <1>4, <3>1
    <3> QED
      BY <3>2
  <2>3. n + 1 \in 1..(n + 1)
    BY <1>2
  <2> QED
    BY <1>4, <2>1, <2>2, <2>3
<1>7. DOMAIN s = 1..n /\ DOMAIN Append(s, t) = 1..(n + 1)
  BY <1>2, <1>4
<1>8. Own(c)' = {Append(s, t)[b] : b \in 1..(n + 1)} \ {Empty}
  BY <1>3, <1>7 DEF Own
<1>9. Own(c) = {s[b] : b \in 1..n} \ {Empty}
  BY <1>1, <1>7 DEF Own
<1>10. \A d \in Chains : d # c => Own(d)' = Own(d)
  BY <1>3 DEF Own
<1> QED
  BY <1>1, <1>2, <1>3, <1>4, <1>5, <1>6, <1>8, <1>9, <1>10

(* What leaves the chains and the pools alone, and asks for no nonce.       *)
LEMMA NoncesStay ==
    ASSUME NonceInv, UNCHANGED <<chain, pool, collisions>>,
           \A r \in runs' : r.phase = "nonce" => r \in runs
    PROVE  NonceInv'
<1>1. \A c \in Chains : Own(c)' = Own(c) /\ Count(c)' = Count(c)
  BY DEF Own, Count
<1>2. \A c \in Chains : ChainOK(c)'
  BY <1>1 DEF NonceInv, ChainOK
<1>3. ASSUME NEW r \in runs', r.phase = "nonce" PROVE NoRival(r)'
  <2>1. r \in runs /\ NoRival(r)
    BY <1>3 DEF NonceInv
  <2>2. Own(Target(Job(r)))' = Own(Target(Job(r))) /\ Job(r)' = Job(r)
    BY DEF Own, Job
  <2> QED
    BY <2>1, <2>2 DEF NoRival
<1> QED
  BY <1>2, <1>3 DEF NonceInv, OnlyHeartbeatsCollide

(* Of two runs, one is of the heartbeat: they send different kinds.         *)
LEMMA OtherRun ==
    ASSUME PollInv, NEW r \in runs, NEW q \in runs, q # r
    PROVE  /\ Kind(Job(q)) # Kind(Job(r))
           /\ r.phase \in {"read", "save"} => q.phase \notin {"read", "save"}
<1>1. q.scheduler # r.scheduler
  BY DEF PollInv, OnePoll
<1>2. \A p \in {q, r} : p \in Polls /\ p.at \in 1..Len(Jobs(p.scheduler))
  BY DEF PollInv, RunsOK
<1>3. \A p \in {q, r} : p.scheduler = "heartbeat" => Job(p) = "emit" /\ Kind(Job(p)) = "heartbeat"
  BY <1>2, JobOf
<1>4. \A p \in {q, r} : p.scheduler = "federators" => Kind(Job(p)) = "vote"
  BY <1>2, JobOf
<1> QED
  BY <1>1, <1>2, <1>3, <1>4 DEF Polls, Schedulers, PollInv, RunsOK

(* Sending adds a transaction that has no rival of its kind.                *)
LEMMA SendKeepsNonces ==
    ASSUME PollInv, NonceInv, NEW r \in runs, Send(r)
    PROVE  NonceInv'
<1> DEFINE c == Target(Job(r))
           this == [nonce |-> r.nonce, kind |-> Kind(Job(r))]
<1>1. r \in Polls /\ c \in Chains /\ Kind(Job(r)) \in {"vote", "heartbeat"}
      /\ (c = "side" => Kind(Job(r)) = "vote")
  BY JobOf DEF PollInv, RunsOK, Polls, Schedulers
<1>2. this \in Transactions
  BY <1>1 DEF Transactions, Polls
<1>3. r.phase = "nonce" /\ NoRival(r)
  BY DEF Send, NonceInv
<1>4. \A k \in Rivals(r) : c = "main" /\ {k, Kind(Job(r))} = {"vote", "heartbeat"}
  <2> TAKE k \in Rivals(r)
  <2>1. PICK t \in pool[c] \cup Own(c) : t.nonce = r.nonce /\ t.kind = k
    BY DEF Rivals
  <2>2. k # Kind(Job(r))
    BY <1>3, <2>1 DEF NoRival
  <2>3. t \in Transactions
    BY <1>1, <2>1, OwnIsOfAccount DEF NonceInv
  <2>4. k \in {"vote", "heartbeat"} /\ (c = "side" => k = "vote")
    BY <1>1, <2>1, <2>3 DEF Transactions, NonceInv, ChainOK
  <2> QED
    BY <1>1, <2>2, <2>4 DEF Chains
<1>5. OnlyHeartbeatsCollide'
  BY <1>4 DEF Send, OnlyHeartbeatsCollide, NonceInv
<1>6. ASSUME NEW q \in runs', q.phase = "nonce"
      PROVE  q \in runs /\ q # r /\ Kind(Job(q)) # Kind(Job(r)) /\ NoRival(q)
  <2>1. q \in runs /\ q # r
    BY <1>1, <1>3, <1>6 DEF Send, Change, Again, Polls
  <2> QED
    BY <1>6, <2>1, OtherRun DEF NonceInv
<1>7. CASE pool' = pool
  <2>1. UNCHANGED chain
    BY DEF Send
  <2>2. \A d \in Chains : Own(d)' = Own(d) /\ Count(d)' = Count(d)
    BY <2>1 DEF Own, Count
  <2>3. \A d \in Chains : ChainOK(d)'
    BY <1>7, <2>2 DEF NonceInv, ChainOK
  <2>4. ASSUME NEW q \in runs', q.phase = "nonce" PROVE NoRival(q)'
    <3>1. NoRival(q)
      BY <1>6, <2>4
    <3>2. Own(Target(Job(q)))' = Own(Target(Job(q))) /\ Job(q)' = Job(q)
      BY <2>1 DEF Own, Job
    <3> QED
      BY <1>7, <3>1, <3>2 DEF NoRival
  <2> QED
    BY <1>5, <1>7, <2>1, <2>3, <2>4 DEF NonceInv
<1>8. CASE /\ Count(c) <= r.nonce
           /\ pool' = [pool EXCEPT ![c] = {tx \in @ : tx.nonce # r.nonce} \cup {this}]
  <2>1. chain' = chain /\ \A d \in Chains : Own(d)' = Own(d) /\ Count(d)' = Count(d)
    BY DEF Send, Own, Count
  <2>2. /\ pool'[c] = {tx \in pool[c] : tx.nonce # r.nonce} \cup {this}
        /\ \A d \in Chains : d # c => pool'[d] = pool[d]
    BY <1>1, <1>8 DEF NonceInv
  <2>3. pool' \in [Chains -> SUBSET Transactions]
    BY <1>1, <1>2, <1>8 DEF NonceInv
  <2>4. ASSUME NEW d \in Chains PROVE ChainOK(d)'
    <3>1. CASE d # c
      BY <2>1, <2>2, <3>1 DEF ChainOK, NonceInv
    <3>2. CASE d = c
      <4>1. IsFiniteSet(pool'[c])
        <5>1. IsFiniteSet({tx \in pool[c] : tx.nonce # r.nonce})
          BY <1>1, FS_Subset DEF NonceInv, ChainOK
        <5>2. IsFiniteSet({tx \in pool[c] : tx.nonce # r.nonce} \cup {this})
          <6> HIDE DEF this
          <6> QED
            BY <5>1, FS_AddElement
        <5> QED
          BY <2>2, <5>2
      <4>2. this.nonce = r.nonce /\ this.kind = Kind(Job(r))
        OBVIOUS
      <4> HIDE DEF this
      <4>3. \A t \in pool'[c] : Count(c)' <= t.nonce
        BY <1>1, <1>8, <2>1, <2>2, <4>2 DEF NonceInv, ChainOK
      <4>4. \A t, u \in pool'[c] : t.nonce = u.nonce => t = u
        BY <1>1, <2>2, <4>2 DEF NonceInv, ChainOK
      <4>5. c = "side" => \A t \in pool'[c] \cup Own(c)' : t.kind = "vote"
        BY <1>1, <2>1, <2>2, <4>2 DEF NonceInv, ChainOK
      <4> QED
        BY <1>1, <2>1, <3>2, <4>1, <4>3, <4>4, <4>5 DEF NonceInv, ChainOK
    <3> QED
      BY <3>1, <3>2
  <2>5. ASSUME NEW q \in runs', q.phase = "nonce" PROVE NoRival(q)'
    <3>1. Target(Job(q)) \in Chains
      BY <1>6, <2>5, JobOf DEF PollInv, RunsOK
    <3>2. this.kind # Kind(Job(q)) /\ NoRival(q)
      BY <1>6, <2>5
    <3> HIDE DEF this
    <3> QED
      BY <1>1, <2>1, <2>2, <3>1, <3>2 DEF NoRival, Job
  <2> QED
    BY <1>5, <2>1, <2>3, <2>4, <2>5 DEF NonceInv
<1> QED
  BY <1>7, <1>8 DEF Send

(* Asking for the nonce: nothing has it yet.                                *)
LEMMA AskingKeepsNonces ==
    ASSUME PollInv, NonceInv, NEW r \in runs, CreateRawTransaction(r)
    PROVE  NonceInv'
<1> DEFINE c == Target(Job(r))
           q == [r EXCEPT !.phase = "nonce", !.nonce = GetNonce(r)]
<1>1. r \in Polls /\ c \in Chains
  BY JobOf DEF PollInv, RunsOK
<1>2. UNCHANGED <<chain, pool, collisions>> /\ runs' = (runs \ {r}) \cup {q}
  BY DEF CreateRawTransaction, chainVars, Change
<1>3. q.nonce = PendingCount(c) /\ q.at = r.at /\ q.scheduler = r.scheduler
  BY <1>1 DEF GetNonce, Polls
<1> HIDE DEF q
<1>4. NoRival(q)
  BY <1>1, <1>3, PendingIsFree DEF NoRival, Job
<1>5. \A d \in Chains : Own(d)' = Own(d) /\ Count(d)' = Count(d)
  BY <1>2 DEF Own, Count
<1>6. \A d \in Chains : ChainOK(d)'
  BY <1>2, <1>5 DEF NonceInv, ChainOK
<1>7. ASSUME NEW p \in runs', p.phase = "nonce" PROVE NoRival(p)'
  <2>1. NoRival(p)
    BY <1>2, <1>4, <1>7 DEF NonceInv
  <2>2. Own(Target(Job(p)))' = Own(Target(Job(p))) /\ Job(p)' = Job(p)
    BY <1>2 DEF Own, Job
  <2> QED
    BY <1>2, <2>1, <2>2 DEF NoRival
<1> QED
  BY <1>2, <1>6, <1>7 DEF NonceInv, OnlyHeartbeatsCollide

(* A block moves the next transaction from the pool.                        *)
LEMMA BlockKeepsNonces ==
    ASSUME PollInv, NonceInv, NEW c \in Chains, NewBlock(c)
    PROVE  NonceInv'
<1>1. /\ \A r \in runs : Target(Job(r)) \in Chains
      /\ UNCHANGED <<runs, collisions>>
  BY JobOf DEF PollInv, RunsOK, NewBlock
<1>2. PICK t \in Transactions \cup {Empty} :
          /\ chain' = [chain EXCEPT ![c] = Append(@, t)]
          /\ \/ t = Empty /\ pool' = pool
             \/ /\ t \in pool[c] /\ t.nonce = Count(c)
                /\ pool' = [pool EXCEPT ![c] = @ \ {t}]
  BY DEF NewBlock, NonceInv
<1>3. /\ chain' \in [Chains -> Seq(Transactions \cup {Empty})]
      /\ Own(c)' = Own(c) \cup ({t} \ {Empty})
      /\ \A d \in Chains : d # c => chain'[d] = chain[d] /\ Own(d)' = Own(d)
  BY <1>2, OwnGrows
<1>4. CASE t = Empty
  <2>1. pool' = pool
    BY <1>2, <1>4, OwnIsOfAccount DEF NonceInv, Empty, Transactions
  <2>2. \A d \in Chains : Own(d)' = Own(d) /\ Count(d)' = Count(d)
    BY <1>3, <1>4 DEF Count
  <2>3. \A d \in Chains : ChainOK(d)'
    BY <2>1, <2>2 DEF NonceInv, ChainOK
  <2>4. \A r \in runs' : r.phase = "nonce" => NoRival(r)'
    BY <1>1, <2>1, <2>2 DEF NonceInv, NoRival, Job
  <2> QED
    BY <1>1, <1>3, <2>1, <2>3, <2>4 DEF NonceInv, OnlyHeartbeatsCollide
<1>5. CASE t # Empty
  <2>1. t \in pool[c] /\ t.nonce = Count(c) /\ t \in Transactions
    BY <1>2, <1>5
  <2>2. pool' \in [Chains -> SUBSET Transactions] /\ pool'[c] = pool[c] \ {t}
        /\ \A d \in Chains : d # c => pool'[d] = pool[d]
    BY <1>2, <1>5 DEF NonceInv
  <2>3. Own(c)' = Own(c) \cup {t}
    BY <1>3, <1>5
  <2>4. t \notin Own(c) /\ Count(c) \in Nat
    BY <2>1, FS_CardinalityType DEF NonceInv, ChainOK, Count
  <2>5. IsFiniteSet(Own(c)') /\ Count(c)' = Count(c) + 1
    BY <2>3, <2>4, FS_AddElement DEF NonceInv, ChainOK, Count
  <2>6. ChainOK(c)'
    <3>1. IsFiniteSet(pool'[c])
      <4>1. IsFiniteSet(pool[c])
        BY DEF NonceInv, ChainOK
      <4> QED
        BY <2>2, <4>1, FS_RemoveElement
    <3>2. \A u \in Own(c)' : u.nonce < Count(c)'
      <4> TAKE u \in Own(c)'
      <4>1. u.nonce \in Nat
        BY <2>1, <2>3, OwnIsOfAccount DEF Transactions
      <4>2. u = t \/ u.nonce < Count(c)
        BY <2>3 DEF NonceInv, ChainOK
      <4> QED
        BY <2>1, <2>4, <2>5, <4>1, <4>2
    <3>3. \A u \in pool'[c] : Count(c)' <= u.nonce
      <4> TAKE u \in pool'[c]
      <4>1. u \in pool[c] /\ u # t /\ u.nonce \in Nat
        BY <2>2 DEF NonceInv, Transactions
      <4>2. u.nonce # t.nonce /\ Count(c) <= u.nonce
        BY <2>1, <4>1 DEF NonceInv, ChainOK
      <4> QED
        BY <2>1, <2>4, <2>5, <4>1, <4>2
    <3>4. \A u, v \in pool'[c] : u.nonce = v.nonce => u = v
      BY <2>2 DEF NonceInv, ChainOK
    <3>5. c = "side" => \A u \in pool'[c] \cup Own(c)' : u.kind = "vote"
      BY <2>1, <2>2, <2>3 DEF NonceInv, ChainOK
    <3> QED
      BY <2>5, <3>1, <3>2, <3>3, <3>4, <3>5 DEF ChainOK
  <2>7. \A d \in Chains : d # c => ChainOK(d)'
    BY <1>3, <2>2 DEF NonceInv, ChainOK, Count
  <2>8. \A d \in Chains : pool'[d] \cup Own(d)' = pool[d] \cup Own(d)
    BY <1>3, <2>1, <2>2, <2>3
  <2>9. \A r \in runs' : r.phase = "nonce" => NoRival(r)'
    BY <1>1, <2>8 DEF NonceInv, NoRival, Job
  <2> QED
    BY <1>1, <1>3, <2>2, <2>6, <2>7, <2>9 DEF NonceInv, OnlyHeartbeatsCollide
<1> QED
  BY <1>4, <1>5

(* A node that forgets a transaction frees its nonce.                       *)
LEMMA DropKeepsNonces ==
    ASSUME PollInv, NonceInv, NEW c \in Chains, Drop(c)
    PROVE  NonceInv'
<1>1. \A r \in runs : Target(Job(r)) \in Chains
  BY JobOf DEF PollInv, RunsOK
<1>2. PICK t \in pool[c] : pool' = [pool EXCEPT ![c] = @ \ {t}]
  BY DEF Drop
<1>3. UNCHANGED <<chain, runs, collisions>>
      /\ \A d \in Chains : Own(d)' = Own(d) /\ Count(d)' = Count(d)
  BY DEF Drop, Own, Count
<1>4. pool' \in [Chains -> SUBSET Transactions] /\ pool'[c] = pool[c] \ {t}
      /\ \A d \in Chains : d # c => pool'[d] = pool[d]
  BY <1>2 DEF NonceInv
<1>5. ASSUME NEW d \in Chains PROVE ChainOK(d)'
  <2>1. IsFiniteSet(pool'[d]) /\ pool'[d] \subseteq pool[d]
    <3>1. IsFiniteSet(pool[d])
      BY DEF NonceInv, ChainOK
    <3>2. IsFiniteSet(pool[d] \ {t})
      BY <3>1, FS_RemoveElement
    <3>3. pool'[d] = pool[d] \ {t} \/ pool'[d] = pool[d]
      BY <1>4
    <3> QED
      BY <3>1, <3>2, <3>3
  <2> QED
    BY <1>3, <2>1 DEF NonceInv, ChainOK
<1>6. \A d \in Chains : pool'[d] \cup Own(d)' \subseteq pool[d] \cup Own(d)
  BY <1>3, <1>4
<1>7. \A r \in runs' : r.phase = "nonce" => NoRival(r)'
  BY <1>1, <1>3, <1>6 DEF NonceInv, NoRival, Job
<1> QED
  BY <1>3, <1>4, <1>5, <1>7 DEF NonceInv, OnlyHeartbeatsCollide

(* Whatever happens, nobody but the heartbeat takes the nonce of a vote.    *)
LEMMA NonceInvStep ==
    ASSUME PollInv, NonceInv, [Next]_vars
    PROVE  NonceInv'
<1>1. ASSUME NEW s \in Schedulers, Start(s) \/ Poll(s)
      PROVE  NonceInv'
  <2>1. /\ UNCHANGED <<chain, pool, collisions>>
        /\ runs' = runs \/ runs' = runs \cup {NewRun(s)}
    BY <1>1 DEF Start, Poll, chainVars
  <2>2. NewRun(s).phase = "begin"
    BY DEF NewRun
  <2> QED
    BY <2>1, <2>2, NoncesStay
<1>2. ASSUME NEW r \in runs, \/ Settle(r) \/ BeginRead(r) \/ LogPage(r)
                             \/ SavePage(r) \/ EndJob(r) \/ Retry(r)
      PROVE  NonceInv'
  <2>1. r \in Polls
    BY DEF PollInv, RunsOK
  <2>2. UNCHANGED <<chain, pool, collisions>>
    BY <1>2 DEF Settle, BeginRead, LogPage, SavePage, EndJob, Retry, chainVars
  <2>3. \A q \in runs' : q.phase = "nonce" => q \in runs
    <3>1. CASE EndJob(r)
      <4> DEFINE q == [Again(r) EXCEPT !.at = @ + 1]
      <4>1. Again(r) \in Polls /\ Again(r).phase = "begin"
        BY <2>1 DEF Again, Polls, Phases
      <4>2. q.phase = "begin"
        BY <4>1 DEF Polls
      <4>3. runs' = runs \ {r} \/ runs' = (runs \ {r}) \cup {q}
        BY <3>1 DEF EndJob, Change
      <4> QED
        BY <4>2, <4>3
    <3>2. CASE ~EndJob(r)
      BY <1>2, <2>1, <3>2
         DEF Settle, BeginRead, LogPage, SavePage, Retry, Change, Again, Polls
    <3> QED
      BY <3>1, <3>2
  <2> QED
    BY <2>2, <2>3, NoncesStay
<1>3. CASE Stop \/ Exit \/ Restart \/ UNCHANGED vars
  BY <1>3, NoncesStay DEF Stop, Exit, Restart, vars, chainVars
<1> QED
  BY <1>1, <1>2, <1>3, SendKeepsNonces, AskingKeepsNonces, BlockKeepsNonces, DropKeepsNonces
     DEF Next, Step
-----------------------------------------------------------------------------
(* Reading: a step that leaves file, page, log and chain alone, and after   *)
(* which no other run reads or saves.                                       *)
LEMMA ReadingStays ==
    ASSUME ReadInv, UNCHANGED <<lastRead, logged, page, chain>>,
           \A r \in runs' : r.phase \in {"read", "save"} => r \in runs
    PROVE  ReadInv'
<1>1. PageOK' <=> PageOK
  BY DEF PageOK
<1>2. /\ Heartbeats(page[1], PageEnd)' = Heartbeats(page[1], PageEnd)
      /\ (NothingUnread' <=> NothingUnread)
  BY DEF Heartbeats, PageEnd, NothingUnread
<1> QED
  BY <1>1, <1>2 DEF ReadInv

(* A page ends behind its beginning and within the chain.                   *)
LEMMA PageEnds ==
    ASSUME PageOK, lastRead \in Nat, page \in Nat \X Nat, Len(chain["main"]) \in Nat
    PROVE  /\ page[1] \in Nat \ {0} /\ page[2] \in Nat
           /\ PageEnd \in Nat /\ page[1] <= PageEnd
           /\ PageEnd <= page[2] /\ PageEnd <= Len(chain["main"])
BY ServiceConstants DEF PageOK, PageEnd

(* A block that is added is behind everything that is read.                 *)
LEMMA BlockKeepsReading ==
    ASSUME NonceInv, ReadInv, NEW c \in Chains, NewBlock(c)
    PROVE  ReadInv'
<1>1. PICK t \in Transactions \cup {Empty} : chain' = [chain EXCEPT ![c] = Append(@, t)]
  BY DEF NewBlock, NonceInv
<1>2. /\ Len(chain["main"]) \in Nat /\ Len(chain["main"]) <= Len(chain'["main"])
      /\ Len(chain'["main"]) \in Nat
      /\ \A b \in 1..Len(chain["main"]) : chain'["main"][b] = chain["main"][b]
  <2>1. CASE c = "main"
    BY <1>1, <2>1, OwnGrows
  <2>2. CASE c # "main"
    <3>1. chain'["main"] = chain["main"]
      BY <1>1, <2>2, OwnGrows DEF Chains
    <3>2. chain["main"] \in Seq(Transactions \cup {Empty})
      BY DEF NonceInv, Chains
    <3> QED
      BY <3>1, <3>2
  <2> QED
    BY <2>1, <2>2
<1>3. ASSUME NEW from \in Nat \ {0}, NEW to \in Nat, to <= Len(chain["main"])
      PROVE  Heartbeats(from, to)' = Heartbeats(from, to)
  BY <1>2, <1>3 DEF Heartbeats
<1>4. UNCHANGED <<lastRead, logged, page, runs>> /\ PageEnd' = PageEnd
  BY DEF NewBlock, readVars, PageEnd
<1>5. lastRead \in Nat /\ lastRead <= Len(chain["main"]) /\ page \in Nat \X Nat
  BY <1>2 DEF ReadInv
<1>6. NothingUnread'
  BY <1>3, <1>4, <1>5 DEF ReadInv, NothingUnread
<1>7. PageOK => PageOK'
  BY <1>2, <1>4, <1>5 DEF PageOK
<1>8. PageOK => Heartbeats(page[1], PageEnd)' = Heartbeats(page[1], PageEnd)
  <2> SUFFICES ASSUME PageOK PROVE Heartbeats(page[1], PageEnd)' = Heartbeats(page[1], PageEnd)
    OBVIOUS
  <2>1. page[1] \in Nat \ {0} /\ PageEnd \in Nat /\ PageEnd <= Len(chain["main"])
    BY <1>2, <1>5, PageEnds
  <2>2. Heartbeats(page[1], PageEnd)' = {b \in page[1]..PageEnd : chain'["main"][b].kind = "heartbeat"}
    BY <1>4 DEF Heartbeats
  <2> QED
    BY <1>2, <2>1, <2>2 DEF Heartbeats
<1> QED
  BY <1>2, <1>4, <1>5, <1>6, <1>7, <1>8 DEF ReadInv

(* Every step of readLogs, and what interrupts it, keeps unread heartbeats  *)
(* before the file's block from being missed.                               *)
LEMMA ReadInvStep ==
    ASSUME PollInv, NonceInv, ReadInv, [Next]_vars
    PROVE  ReadInv'
<1>1. \A r \in runs : r \in Polls
  BY DEF PollInv, RunsOK
<1>2. chain["main"] \in Seq(Transactions \cup {Empty})
  BY DEF NonceInv, Chains
<1>3. PICK len \in Nat : len = Len(chain["main"])
  BY <1>2
<1>4. lastRead \in Nat /\ lastRead <= len /\ page \in Nat \X Nat
  BY <1>3 DEF ReadInv
<1>5. ASSUME NEW s \in Schedulers, Start(s) \/ Poll(s)
      PROVE  ReadInv'
  <2>1. /\ UNCHANGED <<lastRead, logged, page, chain>>
        /\ runs' = runs \/ runs' = runs \cup {NewRun(s)}
    BY <1>5 DEF Start, Poll, chainVars, readVars
  <2>2. NewRun(s).phase = "begin"
    BY DEF NewRun
  <2> QED
    BY <2>1, <2>2, ReadingStays
<1>6. ASSUME NEW r \in runs, \/ CreateRawTransaction(r) \/ Send(r) \/ Settle(r) \/ EndJob(r)
      PROVE  ReadInv'
  <2>1. UNCHANGED <<lastRead, logged, page, chain>>
    BY <1>6 DEF CreateRawTransaction, Send, Settle, EndJob, chainVars, readVars
  <2>2. \A q \in runs' : q.phase \in {"read", "save"} => q \in runs
    <3>1. CASE EndJob(r)
      <4> DEFINE q == [Again(r) EXCEPT !.at = @ + 1]
      <4>1. Again(r) \in Polls /\ Again(r).phase = "begin"
        BY <1>1 DEF Again, Polls, Phases
      <4>2. q.phase = "begin"
        BY <4>1 DEF Polls
      <4>3. runs' = runs \ {r} \/ runs' = (runs \ {r}) \cup {q}
        BY <3>1 DEF EndJob, Change
      <4> QED
        BY <4>2, <4>3
    <3>2. CASE CreateRawTransaction(r)
      <4> DEFINE q == [r EXCEPT !.phase = "nonce", !.nonce = GetNonce(r)]
      <4>1. q.phase = "nonce" /\ runs' = (runs \ {r}) \cup {q}
        BY <1>1, <3>2 DEF CreateRawTransaction, Change, Polls
      <4> QED
        BY <4>1
    <3>3. CASE Send(r) \/ Settle(r)
      <4> DEFINE q == [r EXCEPT !.phase = "sent"]
      <4>1. q.phase = "sent" /\ Again(r).phase = "begin"
        BY <1>1 DEF Polls, Again
      <4>2. runs' = (runs \ {r}) \cup {q} \/ runs' = (runs \ {r}) \cup {Again(r)}
        BY <3>3 DEF Send, Settle, Change
      <4> QED
        BY <4>1, <4>2
    <3> QED
      BY <1>6, <3>1, <3>2, <3>3
  <2> QED
    BY <2>1, <2>2, ReadingStays
<1>7. ASSUME NEW r \in runs, BeginRead(r)
      PROVE  ReadInv'
  <2>1. /\ page' = <<lastRead + 1, len>> /\ lastRead + 1 < len
        /\ UNCHANGED <<chain, lastRead, logged>>
        /\ runs' = (runs \ {r}) \cup {[r EXCEPT !.phase = "read"]}
    BY <1>3, <1>7 DEF BeginRead, chainVars, Change
  <2>2. PageOK' /\ page' \in Nat \X Nat
    BY <1>3, <1>4, <2>1 DEF PageOK
  <2>3. NothingUnread'
    BY <2>1 DEF ReadInv, NothingUnread, Heartbeats
  <2>4. \A q \in runs' : q.phase # "save"
    <3> TAKE q \in runs'
    <3>1. CASE q \in runs /\ q # r
      <4>1. r.scheduler = "federators"
        BY <1>1, <1>7, JobOf DEF BeginRead, PollInv, RunsOK, Polls, Schedulers
      <4>2. q.scheduler # "federators"
        BY <3>1, <4>1 DEF PollInv, OnePoll
      <4>3. Job(q) # "readLogs"
        BY <1>1, <3>1, <4>2, JobOf DEF PollInv, RunsOK, Polls, Schedulers
      <4> QED
        BY <3>1, <4>3 DEF PollInv, RunsOK
    <3>2. CASE q = [r EXCEPT !.phase = "read"]
      BY <1>1, <3>2 DEF Polls
    <3> QED
      BY <2>1, <3>1, <3>2
  <2> QED
    BY <1>4, <1>3, <2>1, <2>2, <2>3, <2>4 DEF ReadInv
<1>8. ASSUME NEW r \in runs, LogPage(r)
      PROVE  ReadInv'
  <2>1. /\ logged' = logged \cup Heartbeats(page[1], PageEnd)
        /\ UNCHANGED <<chain, lastRead, page>> /\ r.phase = "read"
        /\ runs' = (runs \ {r}) \cup {[r EXCEPT !.phase = "save"]}
    BY <1>8 DEF LogPage, chainVars, Change
  <2>2. PageOK'
    BY <2>1 DEF ReadInv, PageOK
  <2>3. PageEnd' = PageEnd /\ Heartbeats(page[1], PageEnd)' = Heartbeats(page[1], PageEnd)
    BY <2>1 DEF PageEnd, Heartbeats
  <2>4. NothingUnread'
    BY <2>1 DEF ReadInv, NothingUnread, Heartbeats
  <2> QED
    BY <1>3, <1>4, <2>1, <2>2, <2>3, <2>4 DEF ReadInv
<1>9. ASSUME NEW r \in runs, SavePage(r)
      PROVE  ReadInv'
  <2>1. r.phase = "save" /\ lastRead' = PageEnd /\ UNCHANGED <<chain, logged>>
    BY <1>9 DEF SavePage, chainVars, Progress
  <2>2. PageOK /\ Heartbeats(page[1], PageEnd) \subseteq logged
    BY <2>1 DEF ReadInv
  <2>3. /\ page[1] \in Nat \ {0} /\ page[2] \in Nat /\ PageEnd \in Nat
        /\ page[1] <= PageEnd /\ PageEnd <= page[2] /\ page[2] <= len
        /\ page[1] = lastRead + 1
    BY <1>3, <1>4, <2>2, PageEnds DEF PageOK
  <2>4. NothingUnread'
    <3>1. \A b \in 1..PageEnd : b \in 1..lastRead \/ b \in page[1]..PageEnd
      BY <1>4, <2>3
    <3>2. Heartbeats(1, PageEnd) \subseteq Heartbeats(1, lastRead) \cup Heartbeats(page[1], PageEnd)
      BY <3>1 DEF Heartbeats
    <3>3. Heartbeats(1, lastRead)' = Heartbeats(1, PageEnd)
      BY <2>1 DEF Heartbeats
    <3> QED
      BY <2>1, <2>2, <3>2, <3>3 DEF ReadInv, NothingUnread
  <2>5. page' \in Nat \X Nat
    BY <1>9, <2>3 DEF SavePage
  <2>6. ASSUME NEW q \in runs', q.phase \in {"read", "save"}
        PROVE  PageOK' /\ q.phase = "read"
    <3>1. q \notin runs \/ q = r
      BY <2>1, <2>6, OtherRun
    <3>2. CASE PageEnd = page[2]
      <4> DEFINE p == [r EXCEPT !.phase = "done"]
      <4>1. runs' = (runs \ {r}) \cup {p}
        BY <1>9, <3>2 DEF SavePage, Change
      <4>2. p.phase = "done"
        BY <1>1 DEF Polls
      <4> QED
        BY <2>6, <3>1, <4>1, <4>2
    <3>3. CASE PageEnd # page[2]
      <4>1. page' = <<PageEnd + 1, page[2]>>
            /\ runs' = (runs \ {r}) \cup {[r EXCEPT !.phase = "read"]}
        BY <1>9, <3>3 DEF SavePage, Change
      <4>2. q.phase = "read"
        BY <1>1, <3>1, <4>1 DEF Polls
      <4>3. PageOK'
        BY <1>3, <2>1, <2>3, <3>3, <4>1 DEF PageOK
      <4> QED
        BY <4>2, <4>3
    <3> QED
      BY <3>2, <3>3
  <2> QED
    BY <1>3, <2>1, <2>3, <2>4, <2>5, <2>6 DEF ReadInv
<1>10. ASSUME NEW r \in runs, Retry(r)
       PROVE  ReadInv'
  <2>1. UNCHANGED <<chain, lastRead, logged>> /\ runs' = (runs \ {r}) \cup {Again(r)}
    BY <1>10 DEF Retry, chainVars, Change
  <2>2. Again(r).phase = "begin"
    BY <1>1 DEF Again, Polls
  <2>3. CASE Job(r) # "readLogs"
    BY <1>10, <2>1, <2>2, <2>3, ReadingStays DEF Retry
  <2>4. CASE Job(r) = "readLogs"
    <3>1. \A q \in runs' : q.phase \notin {"read", "save"}
      <4> TAKE q \in runs'
      <4>1. CASE q \in runs /\ q # r
        <5>1. r.scheduler = "federators"
          BY <1>1, <2>4, JobOf DEF PollInv, RunsOK, Polls, Schedulers
        <5>2. q.scheduler # "federators"
          BY <4>1, <5>1 DEF PollInv, OnePoll
        <5>3. Job(q) # "readLogs"
          BY <1>1, <4>1, <5>2, JobOf DEF PollInv, RunsOK, Polls, Schedulers
        <5> QED
          BY <4>1, <5>3 DEF PollInv, RunsOK
      <4> QED
        BY <2>1, <2>2, <4>1
    <3>2. page' = <<1, 0>>
      BY <1>10, <2>4 DEF Retry
    <3> QED
      BY <1>3, <1>4, <2>1, <3>1, <3>2 DEF ReadInv, NothingUnread, Heartbeats
  <2> QED
    BY <2>3, <2>4
<1>11. CASE Exit
  <2>1. runs' = {} /\ page' = <<1, 0>> /\ UNCHANGED <<chain, lastRead, logged>>
    BY <1>11 DEF Exit, chainVars
  <2> QED
    BY <1>3, <1>4, <2>1 DEF ReadInv, NothingUnread, Heartbeats
<1>12. CASE Stop \/ Restart \/ (\E c \in Chains : Drop(c)) \/ UNCHANGED vars
  BY <1>12, ReadingStays DEF Stop, Restart, Drop, vars, chainVars, readVars
<1> QED
  BY <1>5, <1>6, <1>7, <1>8, <1>9, <1>10, <1>11, <1>12, BlockKeepsReading DEF Next, Step
-----------------------------------------------------------------------------
(* Nothing runs and nothing is sent at the beginning.                       *)
LEMMA AtTheBeginning == Init => PollInv /\ NonceInv /\ ReadInv
<1> SUFFICES ASSUME Init PROVE PollInv /\ NonceInv /\ ReadInv
  OBVIOUS
<1>1. PollInv
  BY DEF Init, PollInv, RunsOK, OnePoll
<1>2. \A c \in Chains : Own(c) = {} /\ pool[c] = {} /\ chain[c] = <<>>
  BY DEF Init, Own
<1>3. NonceInv
  BY <1>2, FS_EmptySet DEF Init, NonceInv, ChainOK, OnlyHeartbeatsCollide
<1>4. chain["main"] = <<>>
  BY <1>2 DEF Chains
<1>5. ReadInv
  BY <1>4 DEF Init, ReadInv, NothingUnread, Heartbeats
<1> QED
  BY <1>1, <1>3, <1>5

(* The three invariants hold together.                                      *)
LEMMA ServiceInv == Spec => [](PollInv /\ NonceInv /\ ReadInv)
<1>1. Init => PollInv /\ NonceInv /\ ReadInv
  BY AtTheBeginning
<1>2. PollInv /\ NonceInv /\ ReadInv /\ [Next]_vars => (PollInv /\ NonceInv /\ ReadInv)'
  BY PollInvStep, NonceInvStep, ReadInvStep
<1> QED
  BY <1>1, <1>2, PTL DEF Spec

(* Neither two polls of a scheduler nor one in progress and one scheduled:  *)
(* Scheduler.poll never overlaps itself, whatever starts, stops and exits.  *)
THEOREM PollsCorrect == Spec => []OnePollAtATime
<1>1. PollInv => OnePollAtATime
  <2> SUFFICES ASSUME PollInv, NEW s \in Schedulers
               PROVE  Cardinality({r \in runs : r.scheduler = s})
                      + (IF timer[s] THEN 1 ELSE 0) <= 1
    BY DEF OnePollAtATime
  <2> DEFINE R == {r \in runs : r.scheduler = s}
  <2>1. CASE R = {}
    BY <2>1, FS_EmptySet
  <2>2. ASSUME NEW r \in R PROVE R = {r} /\ ~timer[s]
    BY DEF PollInv, OnePoll
  <2> QED
    BY <2>1, <2>2, FS_Singleton
<1> QED
  BY <1>1, ServiceInv, PTL

(* With one nonce there are never two votes, nor anything on the side       *)
(* chain: what getTransactionCount and the order of the jobs are for.       *)
THEOREM NoncesCorrect == Spec => []OnlyHeartbeatsCollide
<1>1. NonceInv => OnlyHeartbeatsCollide
  BY DEF NonceInv
<1> QED
  BY <1>1, ServiceInv, PTL

(* Heartbeat.readLogs logs every heartbeat before it marks its block.       *)
THEOREM ReadingCorrect == Spec => []NothingUnread
<1>1. ReadInv => NothingUnread
  BY DEF ReadInv
<1> QED
  BY <1>1, ServiceInv, PTL

(* The state of the process and of its account keeps its type, and two      *)
(* pending transactions never have one nonce.                               *)
THEOREM ServiceTypes == Spec => []TypeOK
<1>1. PollInv /\ NonceInv /\ ReadInv => TypeOK
  <2> SUFFICES ASSUME PollInv, NonceInv, ReadInv PROVE TypeOK
    OBVIOUS
  <2>1. ASSUME NEW c \in Chains PROVE Cardinality(Nonces(c)) = Cardinality(pool[c])
    <3> DEFINE f == [t \in pool[c] |-> t.nonce]
    <3>1. f \in Bijection(pool[c], Nonces(c))
      BY DEF Bijection, Injection, Surjection, IsInjective, Nonces, NonceInv, ChainOK
    <3> QED
      BY <3>1, FS_Bijection DEF ExistsBijection, NonceInv, ChainOK
  <2>2. \A r \in runs : /\ r.scheduler \in Schedulers
                        /\ r.at \in 1..Len(Jobs(r.scheduler))
                        /\ r.phase \in Phases /\ r.nonce \in Nat
    BY DEF PollInv, RunsOK, Polls
  <2> QED
    BY <2>1, <2>2 DEF TypeOK, PollInv, NonceInv, ReadInv, Phases
<1> QED
  BY <1>1, ServiceInv, PTL
-----------------------------------------------------------------------------
(* What a transaction offers, for all prices of the node and of Etherscan.  *)

(* An oracle is consistent when its fast price is not the lower one. *)
Consistent(propose, fast) == propose <= fast

(* Twice rounded up, one and a half of the price is not below it. *)
LEMMA UseIsEnough ==
    ASSUME NEW node \in Nat
    PROVE  /\ UseGasPrice(node) \in Nat \ {0}
           /\ node <= UseGasPrice(node)
BY SMTT(30) DEF UseGasPrice

(* The margin adds 1.3 %, and less than one more. *)
LEMMA MarginIsSmall ==
    ASSUME NEW fast \in Nat
    PROVE  /\ Plus(fast) \in Nat
           /\ fast <= Plus(fast)
           /\ 1000 * Plus(fast) <= 1013 * fast + 999
BY SMTT(30) DEF Plus

(* As long as the node's price is not low, a transaction neither offers     *)
(* less than the node asks for nor much more than five times one and a half *)
(* of it, whatever consistent prices the oracle names (getEthGasPrice).     *)
THEOREM PriceIsBounded ==
    ASSUME NEW id, NEW node \in Nat, NEW propose \in Nat, NEW fast \in Nat,
           Consistent(propose, fast), ~NodeIsLow(node), ~IsRsk(id)
    PROVE  LET price == GetGasPrice(id, node, propose, fast)
           IN  /\ node <= price
               /\ 1000 * price <= 5065 * UseGasPrice(node) + 5000 * Gwei
<1> DEFINE use == UseGasPrice(node)
           price == GetGasPrice(id, node, propose, fast)
<1>1. use \in Nat \ {0} /\ node <= use
  BY UseIsEnough
<1>2. Plus(fast) \in Nat /\ fast <= Plus(fast) /\ 1000 * Plus(fast) <= 1013 * fast + 999
  BY MarginIsSmall
<1>3. Gwei \in Nat \ {0}
  BY GasPriceConstants
<1>4. CASE price = use
  BY <1>1, <1>3, <1>4
<1>5. CASE FastIsBest(node, fast) /\ price = Plus(fast)
  BY <1>1, <1>2, <1>3, <1>5 DEF FastIsBest
<1>6. CASE ProposedIsNeeded(node, propose) /\ fast < 5 * use /\ price = Plus(fast)
  BY <1>1, <1>2, <1>3, <1>6 DEF ProposedIsNeeded, Consistent
<1>7. CASE ProposedIsNeeded(node, propose) /\ price = propose + 5 * Gwei
  BY <1>1, <1>3, <1>7 DEF ProposedIsNeeded
<1> QED
  BY <1>4, <1>5, <1>6, <1>7 DEF GetGasPrice, GetEthGasPrice

(* On RSK a transaction offers at least what the last block asks for.       *)
THEOREM RskPriceIsEnough ==
    ASSUME NEW id, NEW minimum \in Nat, NEW propose, NEW fast, IsRsk(id)
    PROVE  minimum <= GetGasPrice(id, minimum, propose, fast)
BY SMTT(30) DEF GetGasPrice, GetRskGasPrice
=============================================================================
