# Verification of the token bridge

This directory holds TLA+ modules that model the token bridge of this repository,
the TLC configurations that model-check them, and proofs that TLAPS checks.
Paths are relative to `src/`; `Bridge.sol` is `bridge/contracts/Bridge/Bridge.sol`,
and so on for the other contracts.

## 1. The system

A user *crosses* a token on one chain: the bridge contract of that chain keeps
the token (or burns it, when it is a side token) and logs a `Cross` event.
Federators, off-chain processes, read the event after enough confirmations and
call `voteTransaction` of the federation contract on the other chain. The vote
that completes the quorum calls `acceptTransfer` of that chain's bridge, inside
the same transaction. Somebody then *claims* the transfer there, which pays out
kept tokens or mints side tokens.

| component | state | operations | calls |
|---|---|---|---|
| Federation contract (`Federation.sol`) | members, isMember, required, votes, processed, bridge, bridgeNFT | voteTransaction; owner: addMember, removeMember, changeRequirement, setBridge, setNFTBridge | acceptTransfer of the bridge |
| Bridge contract (`Bridge.sol`) | transactionsDataHashes, originalTokenAddresses, claimed, knownTokenByChain, side token maps, feePercentage, isUpgrading, paused, balances | receiveTokensTo, depositTo, tokensReceived; acceptTransfer; claim, claimFallback, claimGasless; createSideToken, pause, setUpgrading, ... | AllowTokens, side tokens, original tokens |
| Side tokens (`SideToken.sol`) | balances, granularity | mint, burn, transfers, permit | |
| AllowTokens (`AllowTokens.sol`) | limits of types, info of tokens, confirmations | updateTokenTransfer; owner's setters | |
| Federator (`federator/src/lib/Federator.js`) | lastBlock.txt, revertedTxns.json, and locals of a run | run, getLogsAndProcess, _processLogs, _voteTransaction | the contract wrappers, TransactionSender, both chains' nodes |
| Contract wrappers (`federator/src/contracts/*.ts`) | one contract object per ABI, kept for the life of the process | createInstance by version, getters | the nodes |
| TransactionSender (`federator/src/lib/TransactionSender.js`) | none of its own: the account's nonce is the node's | sendTransaction, getNonce, gas price and limit | node |
| Heartbeat (`federator/src/lib/Heartbeat.js`) | heartBeatLastBlock.txt | run (emit), readLogs | federation contract, TransactionSender |
| Scheduler and `main.js` | running, timer | start, poll, stop; exit and restart | federators, heartbeat |
| NFTBridge, FederatorNFT | as Bridge and Federator, for ERC721 | as there | as there |
| MultiSigWallet | owners, transactions, confirmations | submit, confirm, revoke, execute; owner changes | the contracts it owns |
| Deployment (`bridge/deploy`, `bridge/hardhat/script`) | records of deployments, the contracts on the chain | the scripts, in order; administration through the wallet | all contracts |

What is hard: votes, governance calls, pauses, claims and crossings interleave
freely across chains; events change their block in a reorganisation, so one
crossing can be voted for under two ids; a federator dies at any await and
restarts from two small files; votes time out and are mined later; the federators
and the heartbeat take their nonces from one account without a lock; a process goes
on using the contract it saw first when governance has replaced it; an interrupted
deployment is started again from its first script; amounts are converted between
decimals three times. `PROJECT.json` lists these hazards at
their lines with the properties that watch them.

What makes each component correct:

* Federation: a transfer is delivered once, only with a quorum of the members of
  that moment, never again after version 3 delivered it; membership data agree.
* Bridge: whatever circulates is backed; each crossing is claimed once, where it
  was sent.
* Federator: no event is lost between passes, pages and restarts; no vote is cast
  before its confirmations; every confirmed event is handled in the end.
* NFT federator: the same as the federator, with one pass, confirmations by chain id
  and retries inside a run.
* Scheduler, heartbeat and TransactionSender: polls never overlap, every job runs again
  and again, only a heartbeat can take the nonce of a vote.
* AllowTokens: limits and confirmations stay ordered, a day's sum forgets nothing.
* MultiSigWallet: each transaction succeeds once, with a quorum of the owners of that
  moment; a confirmed one can always be executed.
* NFT bridge: each NFT is in one place; an accepted one can be claimed.
* Deployment: what is configured has been handed over; nothing in service is replaced.
* System: with a minority of misled federators, the bridges behave as if they saw
  each other directly.

## 2. Modules

| module | models | state |
|---|---|---|
| `Federation` | `Federation.sol`, one contract per chain | as in the contract, and the history `delivered` |
| `FederationProofs` | theorems about it | |
| `CrossTransfer` | the abstract life of a crossing: sent, accepted, claimed, on one chain | `stage` |
| `Bridge` | `Bridge.sol` on all chains with its tokens, and ideal federations | as in the contracts; `locked`, `supply`, `events` |
| `TokenBridge` | Bridge and Federation composed, with federators | both modules' state |
| `WatchedChain` | what a federator watches and where it votes: blocks, events, reorganisations, late votes | height, block and version of each event; votes and marks on the other chain |
| `Federator` | `Federator.js` with the wrappers it uses: one process watching one chain | its files, its locals, the contract it holds; extends `WatchedChain` |
| `FederatorNFT` | `FederatorNFT.ts`, in the same way | the same, with the attempt of a run |
| `FederatorService` | `main.js`, `Scheduler.js`, `Heartbeat.js`, `TransactionSender.js`: the jobs of the process and their account | timers, polls in progress, the account's transactions, heartBeatLastBlock.txt |
| `GasPrice` | price and limit of gas in `TransactionSender.js` | operators only |
| `AllowTokens` | `AllowTokens.sol`: types, limits, daily windows, confirmations | as in the contract; the time `now` and the history `total` |
| `MultiSigWallet` | `MultiSigWallet.sol`, the owner of the contracts | as in the contract; the history `executions` |
| `AddressArray` | removal from an array of addresses, as `Federation` and `MultiSigWallet` both do it | |
| `TokenBridgeProofs`, `FederatorProofs`, `FederatorNFTProofs`, `FederatorServiceProofs`, `AllowTokensProofs`, `NFTBridgeProofs`, `DeploymentProofs` | theorems about these; those on `Bridge` are in `TokenBridgeProofs`, those on `GasPrice` in `FederatorServiceProofs`, those on `MultiSigWallet`, the owner that a deployment ends with, in `DeploymentProofs` | |
| `NFTTravel` | abstract: every NFT is in one place, or on its way to one | `place` |
| `NFTBridge` | `NFTBridge.sol` on two chains with its tokens, and ideal federations | as in the contracts; `withUsers`, `minted`, `events`, `ether` |
| `Deployment` | the scripts of `bridge/deploy` and `bridge/hardhat/script`, on six networks | the recorded contracts, the proxies on the chain and what they point to |
| `MC...` | constants for TLC | |

How code and model correspond:

* A contract call is one action. Every `require` is a guard, since a reverted
  call changes nothing; an early `return` is a stuttering step. A call into
  another contract is a conjunct of the same action: in `TokenBridge` the vote
  that completes a quorum includes `Bridge!AcceptTransfer`, and is impossible
  when the bridge would refuse.
* A keccak hash of a transfer is the record of the hashed fields. `DataHash`
  keeps out the token and the sender, as `getTransactionDataHash` does.
  Receivers are not told apart.
* Token addresses of different chains are different. Of a token, `locked` is
  what its home bridge keeps and `supply` what circulates as a side token,
  holders together; the owner's fees stay in circulation.
* `claimGasless` is a claim with a relayer fee; signatures, deadlines and nonces
  are left out.
* AllowTokens may refuse any crossing, so a crossing that it lets pass is simply
  one that may happen.
* A log index is the place of the event in its transaction. All events of a
  transaction are in one block. In a reorganisation a transaction keeps its
  effects and changes its block; it is not dropped.
* `Relay` reports any logged event, under the present or an earlier block hash,
  as often as it likes and to every other chain, since `acceptTransfer` looks
  neither at the destination nor at the block.
* The owner does not create a side token on the token's home chain, nor write the tables
  of side tokens by hand (`setSideTokenByOriginalAddressByChain` and
  `setOriginalTokenBySideTokenByChain`, `Bridge.sol:139` and `:155`: both `onlyOwner`, neither
  modelled). `setKnownTokenByChain` (`Bridge.sol:169`) asks nobody who he is:
  `SetKnownToken` is an action of anybody. In the run `bridge` owners only create side tokens
  (`CalmNext`) and anybody changes the mark of the token on the side chain; `bridge_tour`
  also administers the home chain in every way and changes all its marks; in
  `token_bridge` owners pause and anybody changes marks.
* In `Federator` an await is a point where anything else may happen: fetching a
  page, sending a vote, its receipt. File writes and the code between two awaits
  are one step. `revertedTxns.json` is read right before the vote is sent.
  A syncing node only delays `Poll`. The retries of `run` are one (`retries = 1`),
  so an exception ends the process, which a supervisor starts again. A crash keeps a
  vote that was sent as `late`: it may be mined later, or never.
* The confirmations and the limits are constants of `Federator`, in the order that
  `AllowTokens._setConfirmations` and `_setTypeLimits` enforce (`SetupOrdered` of
  `AllowTokens`, proved). The permission of a token changes (`disallowed`). When the
  version of AllowTokens cannot be read, `PollWithoutVersion` takes the confirmations
  of the fallback (`IAllowTokensV0.ts`) and no limits. A chain shorter than the large
  confirmations (where the second pass would ask for negative blocks) is left out.
* The federation of the other chain may be upgraded from version 3 to 4 in place, or
  replaced by another contract, and the account may lose and regain its membership.
  `ContractFactory` keeps a contract under its ABI: after a replacement the process
  votes in the one it holds (`cached`) until it is started again. The several reads
  with which `createInstance` finds the version are one step.
* In `FederatorNFT` the run begins again after an exception (up to `Retries` times, then
  the process exits), reads the head again and starts from the saved block. It always
  uses the ABI of version 3; a federation that is upgraded ends its runs at the first
  event. A replaced federation is not modelled there: it is kept as in `Federator`.
* In `FederatorService` a job of a federator sends any number of transactions; what it
  votes for is in the other two modules. `runs` holds the polls in progress. A step is
  what happens between two awaits of `TransactionSender`: asking for the nonce, sending,
  the receipt. A block of the chain holds one transaction of the account (`Transactions`) or
  none (`Empty`), which the order of the nonces allows; the node may forget a pending one.
  After an exception `readLogs` goes on with the page it was at, other jobs leave it alone.
* `GasPrice` has the exact products where the code multiplies floating-point numbers,
  rounded as there. Its definitions follow the code where a comment differs: the proposed
  price gets 5 Gwei (the comment at `TransactionSender.js:89` says 2), and the 25 Gwei are
  compared with one and a half of the node's price.
* In `Deployment` a step is one script, or one of the transactions of a script that
  leaves several states. A command is interrupted before any step, ends at a call that
  reverts, and starts again at its first script: no script returns true, so the `id`
  that is "required to prevent reexecution" (`02_deploy_proxyAdmin.js:26`, for example) has no
  effect. The wallet is the one that script 01 deploys, with the deployer as its only owner.
  The six networks are these:

  | network | named in `hardhat.config.js` | recorded in `bridge/deployments` |
  |---|---|---|
  | development | nothing | nothing; what is recorded is not saved, so there is one command only |
  | bscmainnet | nothing (the wrapped currency apart) | nothing |
  | ethmainnet, for rskmainnet, too | the wallet, ProxyAdmin, the proxies, the factory | nothing |
  | bsctestnet | the wallet and the factory | version 3 with the NFTs |
  | rinkeby | as ethmainnet | version 3 with the NFTs |
  | kovan, for rsktestnet, too | as ethmainnet | version 3 without NFTs and with `FederationV2` in the place of `Federation` |

  On rinkeby, kovan and rsktestnet the named addresses are those of the recorded proxies.
  That is not so on rsktestnetbsc and rsktestnetrinkeby, which are not modelled (section 5).
  A record is reused when code and arguments are the same; the records were made with
  compiler 0.7.6 where `hardhat.config.js:24` says 0.8.0, so none of them is reused: `built`
  keeps the contracts recorded since. `LookedUp` lists for each script the records it cannot
  do without (`deployments.get`, and an address of `address.js` that is not named); one that
  is missing ends the command (`Reverts`), as a call that reverts does. Of the allowed tokens the
  set of the listed ones is kept, not their types.
* `AllowTokens` counts time in units of which `Day` make 24 hours; `Tick` passes one.
  Its actions are the calls by the owner and the bridge. An info that the owner writes
  by hand (`setTokenInfoByTokenAddress`) comes from `OwnerInfos`; it may reset the day
  and name a type that does not exist. The history variable `byHand` keeps these tokens,
  and the properties of the daily sums and of the types speak of all the others.
* A transaction of `MultiSigWallet` is what it does: one of the wallet's own functions,
  or a call of another contract. The wallet's own call succeeds or reverts as its
  modifiers say; any call may run out of gas. The confirmation that completes the
  quorum executes the transaction in the same step. A called contract does not call back.
* In `NFTBridge` neither the event nor the data hash names a chain, so there are two
  chains, with different token addresses. A token is with a user of its home chain
  (`withUsers`), with a user as a side token (`minted`), or neither: then the bridge of
  its home keeps it and, unless it is on its way home, the other chain has it.
  Receivers are not told apart, so claim and claimFallback are one action. `PayFee` is
  the end of `receiveTokensTo` with its early return.

## 3. Runs

| run | module, cfg | shows | bounds |
|---|---|---|---|
| federation | MCFederation | MembersConsistent, DeliveredOnce, NoReplayAfterUpgrade, QuorumBehindDelivery, OnlyGovernanceStrands | 1 chain (chains do not share state in this module), 4 accounts, two readings of one event and its legacy id, 2 bridges, COIN and NFT |
| bridge | MCBridge | TypeOK, Backed, ImplementsCrossTransfer | 2 chains, 1 token of 17 decimals, 3 transactions with up to 2 events each, 2 block hashes, fees 0 and 9.99 %, the mark of the token on the side chain |
| bridge_tour | MCBridge, MCBridgeTour.cfg | Backed, ClaimedOnceAtDestination on three chains under administration | one transaction for each direction, 1 block hash, fees 0 and 0.01 % |
| token_bridge | MCTokenBridge | ProcessedIsAccepted, ImplementsIdealBridge | 2 chains, 3 federators, 1 of them misled, required = 1, a crossing there and one back, 2 block hashes |
| federator | MCFederator | NothingSkipped, VotesAreFinal, EventuallyHandled | confirmations 1, 2, 3 (2 in the fallback), height 6, pages of 1 block, a medium and a large transfer, 1 crash or failed call, 1 reorganisation of up to 2 blocks, an upgrade, a replacement, expulsions and permissions |
| federator_decimals | MCFederator, MCFederatorDecimals.cfg | violation of LimitsAreIn18Decimals | a token of 16 decimals |
| federator_nft | MCFederatorNFT | NothingSkipped, VotesAreFinal, EventuallyHandled | chain 31 with its 2 confirmations, height 5, pages of 1 block, 2 events, 3 attempts, 2 faults, 1 reorganisation of up to 2 blocks |
| service | MCFederatorService | TypeOK, OnePollAtATime, OnlyHeartbeatsCollide, NothingUnread, EveryJobRuns | the jobs without NFTs, 3 blocks on each chain, 2 transactions to each, pages of 1 block, 1 fault |
| deployment | MCDeployment | DeployTypeOK, HandedOver, CanBeRepeated, OnlyStopsAndRepeatsHarm, NamedIsProtected | 3 commands, 1 of them interrupted, 1 administration script, on each of 6 networks |
| allow_tokens | MCAllowTokens | SetupOrdered, AllowedHasType, SpentIsWhatCrossed, TwoDaysAtMost | 1 token, amounts 1 and 2, 2 types with daily limits 1 and 3, limits and confirmations of which some are refused, 2 infos written by hand, days of 3 units, 10 units |
| multisig | MCMultiSigWallet | OwnersConsistent, ExecutedOnce, ConfirmedCanBeExecuted, QuorumBehindExecution | 3 accounts, at most 3 owners, 2 transactions out of every possible call |
| nft_bridge | MCNFTBridge | TypeOK, OneHolder, AcceptedCanBeClaimed, ImplementsNFTTravel | 2 NFTs of one contract, 3 transactions of one event, 2 block hashes, fees and values 0 and 1, every administration step |

The type invariants of `Federation`, `AllowTokens`, `MultiSigWallet`, `Federator` and
`FederatorNFT` are theorems, so their runs do not repeat them.

Why the bounds are enough. Four accounts give memberships of odd and even size,
with a quorum above and below the majority, and room for a removal that makes
votes a quorum. Two readings are what a conflict needs. A granularity of 10 with
amounts 25, 23, 95 leaves remainders on both the fee and the burn. Two versions of
two events in a transaction are what competes for a slot. Three federators, one
misled, is the smallest federation with a tolerated fault, and `required = 1` lets
the majority alone protect it. For the federator, height 6 with confirmations
1, 2, 3 has two runs with several pages in the first pass, and the boundary where
one block is left to the next run; one reorganisation of one event is enough for a vote
under a block that is gone, and one fault for a crash between any two steps. The NFT
federator has room for a page behind the first one and for two exceptions in one run or
an exception and a crash. The service has two sends on each chain, which is what a
collision needs, and three blocks, so that a page of heartbeats has a page behind it; one
fault interrupts it anywhere. Three commands are the interrupted one, one that finds
what that left, and one that repeats a complete deployment.

Ten units of time with days of three hold three windows, so that 24 hours can touch
the end of one and the beginning of the next in every position; the second type has a
lower daily limit than what may already be spent. Three accounts and two transactions
let one transaction change the owners or the requirement under the other. An NFT needs
two crossings to come home and a third to leave again, while the first is reported
under another block, or a second NFT moves in between. That two events of a transaction
compete for its slot is left to `MCBridge`, where `acceptTransfer` is the same.

Deadlock is not checked where the model really ends: `MCBridgeTour` when all
transactions are claimed, the federators and the service when the chain has reached its
bound and everything is handled, the wallet when its transactions are used up, the
deployment when the operator has started its commands.

`Backed` is an equality with two chains: nothing is lost to rounding, because the
bridge burns multiples of the granularity. With three chains amounts come home in
finer units and are rounded down, so that the bridge keeps at least what it owes.

### What the violated property says

`LimitsAreIn18Decimals`: `_processLogs` takes the event's amount as it is, in the units
of the token, where the bridge compares 18 decimals.

Other places where the code and its comments part, met while modelling and described
here without a run:

* After `removeMember` or `changeRequirement` a transfer may have a majority and stay
  unprocessed. Its voters' new calls return early, so only a member that has not voted
  yet can release it. `OnlyGovernanceStrands` shows that nothing else leads there.
* A contract that crosses twice in one transaction gets one of its transfers accepted;
  the other one is refused for ever (`Bridge.sol:193`), since the slot is the
  transaction hash.
* A vote whose transaction fails for a reason that passes (a timeout, a used nonce, a
  paused bridge: `Federator.js:451`) is marked in `revertedTxns.json` and never retried.
* `MultiSigWallet.sol:222` says that anyone may execute a confirmed transaction; only an
  owner that confirmed it can. `ConfirmedCanBeExecuted` shows that there always is one.
* `NFTBridge.sol:245` returns before the "refund of unused value" when there is no fixed
  fee; the ether that came with the call stays in the bridge.
* `NFTBridge.sol:56` calls the mark one of original tokens; `crossTokens` sets it for side
  tokens that cross back, too. `OneHolder` and `AcceptedCanBeClaimed` show that this does
  no harm while the addresses of the two chains differ.
* After an upgrade of the federation every transfer of an NFT ends the runs of the NFT
  federator, which calls it with the ABI of version 3 (`FederationFactory.ts:111`).
* The NFT federator has no confirmations on a chain its table does not list
  (`FederatorNFT.ts:47`), and votes for events of the newest block.
* `Scheduler.stop` leaves `running` set, so that a poll in progress schedules another
  one and `start` is refused from then on. `OnePollAtATime` shows that two polls are
  nevertheless never in progress together.
* A vote and a heartbeat that ask for the nonce at the same time both get it, and one is
  refused or replaces the other. `OnlyHeartbeatsCollide` shows that nothing else collides.

Of the deployment, `OnlyStopsAndRepeatsHarm` and the guards it rests on show:

* `ProxyAdmin` is transferred only by the execution that deploys it. After a stop in
  between it stays with the deployer (`02_deploy_proxyAdmin.js:17`), and
  `bsctestnet/01_upgrade_bridge.js:16` reverts from then on.
* `03_deploy_nftBridgeProxy.js:47` transfers the primary of the factory without asking
  whether it has been transferred, so it reverts in every later execution, and a stop
  before it is never repaired by the rest of the command.
* `07_deploy_federationProxy.js:16` names the recorded NFT bridge in its arguments: the
  execution after the first one deploys another federation.
* An implementation is looked up before it is deployed, wherever its proxy is named
  (`04_deploy_bridge.js:11`, `06_deploy_federation.js:11`). On ethmainnet and rskmainnet, which
  have no records, every command ends at script 04 or 06; on kovan and rsktestnet, which have
  `FederationV2` and no `Federation`, the default command and that for the NFTs end at script 06,
  each time. `CanBeRepeated` shows that these are the only scripts of the ERC-20 bridge
  that end so.
* On bsctestnet version 3 is recorded, the sources are version 4, and the proxies are
  not named: the default command deploys new ones (`05_deploy_bridgeProxy.js:29`) beside those in
  service, and a new ProxyAdmin, which `bsctestnet/01_upgrade_bridge.js` then asks in vain to
  upgrade the old proxy. `NamedIsProtected` shows that where proxies are named the
  bridge in service stays as it is.
* On bscmainnet, live and without a record of WRBTC, the default command ends at
  `bsctestnet/02`, which reads that record.
* The scripts that add and remove federators look for a record `FederationV2` that no
  script makes; those that create side tokens call with the arguments of version 3.
* Where `deployed/<network>.json` has no confirmations, AllowTokens is initialised with 0
  (`09_deploy_allowTokensProxy.js:27`).

### Fairness

`FairSpec` of `Federator` and of `FederatorNFT` assumes weak fairness of the process
(`Step`: the scheduler polls for ever, web3 settles every promise or times out, a
supervisor such as the docker restart policy starts the process again) and of `Grow`, the
growth of the chain up to the bound. Nothing is assumed of the votes that timed out, of
the other federators, of governance, or of crashes and failed calls, which are bounded.
`EventuallyHandled` asks for a vote, a processed transfer, or a mark in
`revertedTxns.json`; a large amount may wait for one block more than its
confirmations, because `getLogsAndProcess` returns when a single block is left. An event
in or behind the block of a token that is not allowed any more is excepted (`HeldUp`):
the process exits there in every run, before it handles what follows. It promises
something only while the account is a member, and for NFTs while the federation has
version 3.

`FairSpec` of `FederatorService` assumes that the process starts its schedulers, that
timers fire, that each scheduler's run goes on (its promises settle or time out), that the
supervisor starts the process again, and that blocks come. The two schedulers are fair
separately, since neither waits for the other. `EveryJobRuns` excepts a scheduler that was
stopped.

## 4. Proofs

`FederationProofs` proves, for every set of chains and accounts, every `MAX_MEMBER_COUNT`
and every set of transfers (assumption `FedConstants`):

* `MembersCorrect`: `TypeOK` and `MembersConsistent`. The two together are inductive. The
  hard step is `RemoveMember`: `SwapAndPopRemoves` shows that the array without the member
  is a list without duplicates and with exactly the other members, which needs that the old
  one had no duplicates.
* `DeliveryCorrect`: `DeliveredOnce` and `NoReplayAfterUpgrade`, inductive with `TypeOK`: a
  delivery happens only when neither id is marked, and marks it.
* `QuorumCorrect`: the action property `QuorumBehindDelivery`. The contract counts array
  positions, the property counts members; `CountByIndex` gives the bijection between them,
  which needs `MembersConsistent`.
* `ConflictCorrect`: `ConflictNeedsDoubleVote` under `FixedSpec`, in which nobody governs.
  While the members are fixed, whoever was counted stays counted (`QuorumStays`), so every
  delivered transfer has a majority behind it, and two majorities of one finite set
  intersect (`MajoritiesMeet`).
* `StrandingCorrect`: the action property `OnlyGovernanceStrands`, from the same lemmas
  (`ValidateIsQuorum`, `VoteOutcome`).

`AllowTokensProofs` proves, for every length of the day, every limit and every set of
amounts and tokens (assumption `AllowTokensConstants`):

* `SetupCorrect`: `TypeOK` and `SetupOrdered`, whatever the owner does.
* `AllowedCorrect`: `AllowedHasType`; types are only ever added.
* `DayCorrect`: `SpentIsWhatCrossed` and `TwoDaysAtMost`, for the tokens outside `byHand`.
  `TwoDaysAtMost` is not inductive: the invariant `DayInv` adds that nothing crossed after
  the window that began at `lastDay`, and that what crossed in the part before `lastDay` of
  any 24 hours is of one window, at most `MaxDaily`. Two lemmas carry the step: `SameDay`
  for a crossing within the window and `NewDay` for one that opens a new window.

`DeploymentProofs` proves of `MultiSigWallet`, for any accounts, `MAX_OWNER_COUNT` and
number of transactions (assumption `WalletConstants`):

* `WalletCorrect`: `TypeOK`, `OwnersConsistent` and `ExecutedOnce`, together inductive.
* `QuorumCorrect`: the action property `QuorumBehindExecution`; the wallet counts array
  positions, the property counts owners, as in the federation, with the same lemmas on
  arrays (`SwapAndPopRemoves`, `AppendAdds`, `CountByIndex`).
* `ExecutableCorrect`: `ConfirmedCanBeExecuted`. The requirement is never zero and nobody
  confirms as the null address, so a quorum contains somebody who can execute.

`TokenBridgeProofs` proves, for any chains, tokens, events and list of federators of whom at
most half are misled (assumptions `BridgeConstants`, `PowersAreNumbers`, `FederatorsDiffer`
and `RequiredIsValid`, which `initialize` requires of a new federation, and `MisledAreFew`).
The chains are finitely many, since a sum over them is stated; that the powers of ten in
`10^(18 - decimals)` are positive numbers is an assumption by name only because the provers
do not know `^`; TLC evaluates it.

* `AgreementCorrect`: `ProcessedIsAccepted`.
* `RefinementCorrect`: the system implements the specification of `Bridge`. The invariant
  `SystemInv` adds that a federator that is not misled voted only for what was logged
  (`HonestVotes`) and that nobody votes under a legacy id. A quorum then holds such a
  federator (`MajorityIsHonest`, by counting), so the vote that completes it is a `Relay` of
  an ideal federation; every other vote leaves the bridges alone. That a logged event stays
  genuine when its block is replaced is `ReorganisationKeeps`.
* `FederationsCorrect`: seen alone, the federations of the system implement `Fed!FixedSpec`,
  the specification of `Federation` while its owner does nothing, whoever is misled. Each
  initial state maps to one of `Federation`, each vote to a vote there, and everything else
  to a stutter; `FederationFits` proves the assumption of `Federation` for the constants
  it is instantiated with. So the theorems of `FederationProofs` hold of the system: a quorum
  stands behind each delivery, nothing is delivered twice, and two readings of one event
  need a double vote. That last step is by hand, since the provers do not use the
  theorems of an instantiated module.
* `ClaimedOnceCorrect`: `ClaimedOnceAtDestination` of the specification of `Bridge`. The
  property is not inductive: it compares claims with logged events, and two claims of one
  crossing are told apart only by the slots they came from. The invariant `ClaimInv` adds
  `EventsInv` (the events of a transaction are on one chain and their log numbers are at
  most their count, so transaction and log number name one event) and `SlotsInv` (a slot
  holds an event of its transaction as logged, up to the block a reorganisation changes, and
  whatever was claimed still stands in its slot and was claimed at its destination). A new
  event is the last of its transaction (`LoggingKeepsOrder`), a reorganisation maps the
  events of a transaction one to one (`ReorganisationKeepsOrder`), a report fills only an
  empty slot (`RelayKeepsSlots`).
* `PromiseCorrect`: `ImplementsCrossTransfer` of the specification of `Bridge`, for all that
  owners may do (the run checks it for calm owners), again from `ClaimInv`. The stage of a
  crossing is read off three sets of chains, where it was sent, is accepted and is claimed.
  They are nested and hold at most one chain (`StagesNest`). A call of crossTokens fills the
  first (`CrossSends`), a report the second or none (`RelayAccepts`: a transfer that is
  accepted on a chain it was not sent to does not count, and cannot be claimed there), a
  claim the third (`ClaimClaims`).
* `BridgeTypesCorrect`: `TypeOK` of `Bridge`. Its part that matters is that what is kept and
  what circulates are natural numbers, where the contract subtracts.
* `BackedCorrect`: `Backed` of the specification of `Bridge`, for all that owners may do.
  The invariant `LedgerInv` adds to `TypeOK`, `ClaimInv` and `Backed` that side tokens stand
  on other chains than their origin and their home and events lead to another chain
  (`RoutesInv`), that only finitely many events were logged, and that between two chains
  nothing comes home that is not whole units of the original token (`WholeInv`, which makes
  the equality hold: a claim at home then rounds nothing down). A crossing of an original
  adds to what is kept what it adds to the debt (`LoggingAddsDebt`); a crossing of a side
  token burns what it adds, which takes that `granularity` divides it; a claim takes from
  the debt what it pays out or mints (`ClaimTakesDebt`), and needs `ClaimInv`, since the
  slot must stand for exactly one logged crossing that nobody claimed yet; a reorganisation
  exchanges events for events worth the same (`ReorganisationKeepsDebt`). `Backed` sums over
  sets of events and of side tokens, and the library's facts about sums have no proof the
  installed provers can use. The lemmas that are needed (a sum exists, unfolds at an
  element, and is the same over sets that match) are therefore proved here, each by the
  smallest set that would contradict it (`SmallestSet`, from the well-foundedness of the
  natural numbers).
* `SystemClaimedOnce`, `SystemPromise`, `SystemIsBacked`: the same of the system with voting
  federators, by `RefinementCorrect`.

`FederatorProofs` proves, for any events, amounts, blocks, pages, confirmations and faults
(assumptions `WatchedChainConstants`, `FederatorConstants`):

* `TypeCorrect`: `TypeOK`.
* `NothingSkippedCorrect`: `NothingSkipped`, if no reorganisation is deeper than the
  confirmations of the fallback (`Deep`). The property is not inductive. `PageInv` says
  which pass may save its progress and that what it reads is settled, `LogsInv` that settled
  logs in memory are those of the chain, `EventsInv` that each event of such a page is
  handled, still in memory, or waiting for its receipt.
* `VotesCorrect`: `VotesAreFinal`, under `Deep` and for tokens of 18 decimals (`Units`),
  without which `federator_decimals` shows a counterexample. `VotesInv` adds that the event
  of a vote is settled, so that no later reorganisation reaches it.

`FederatorNFTProofs` proves `TypeCorrect`, `NothingSkippedCorrect` and `VotesCorrect` in the
same way and without a further assumption: the properties themselves compare the depth of
the reorganisations with the table of confirmations.

`FederatorServiceProofs` proves, for any number of blocks, sends and faults, any page
length, with the jobs for NFTs or without (assumption `ServiceConstants`):

* `PollsCorrect`: `OnePollAtATime`. The invariant `PollInv` says that a scheduler with a
  timer, or one that does not run, has no poll in progress, and that there is one at most;
  `RunsOK` ties the phase of a poll to its job.
* `NoncesCorrect`: `OnlyHeartbeatsCollide`. The invariant `NonceInv` says that the chain
  holds the first nonces and the pool others, each once (`ChainOK`), so that a count of the
  pending transactions is a nonce nobody has (`PendingIsFree`, from `FirstFree`); that what
  has the nonce a run is about to send is of the other kind (`NoRival`), which `PollInv`
  keeps true, since the one scheduler sends votes and the other heartbeats; and that the
  side chain sees votes only.
* `ReadingCorrect`: `NothingUnread`. `ReadInv` adds that the page of a run that reads begins
  behind `lastRead` and that what it is about to save is logged; it needs `PollInv`, because
  two polls share the page.
* `ServiceTypes`: `TypeOK`, from the three.
* `PriceIsBounded`: outside RSK a transaction offers at least the price the node asks for,
  unless that is low, and at most about five times one and a half of it, whatever consistent
  prices the oracle names (assumption `GasPriceConstants`); `RskPriceIsEnough`: on RSK at
  least the minimum of the last block.

`NFTBridgeProofs` proves, for any two chains and any contracts, tokens and transactions
(assumption `NFTBridgeConstants`), from one invariant `Inv`:

* `NFTTypes`, `OneHolderCorrect`, `AcceptedCorrect`: `TypeOK`, `OneHolder` and
  `AcceptedCanBeClaimed`. None of the three is inductive. `EventsInv` says that transaction
  and log number name one event, `SlotsInv` that a slot holds what the other chain logged,
  of a contract known here, and that claims stand in their slots, `HomesInv` that only the
  home of a contract marks it as an original, and `OnePlace` spells `OneHolder` out in its
  three cases.
* `TravelCorrect`: the refinement `ImplementsNFTTravel`. A crossing sends its NFT, a claim
  makes it arrive (`ClaimedIsInSlot` finds the one crossing it belongs to), a reorganisation
  and everything else leave every place as it is.

`DeploymentProofs` proves of `Deployment`, on each of its six networks and for any number of
commands, of interruptions and of administration scripts between them (`MaxRuns`,
`MaxStops` and `MaxEdits` are arbitrary; the proofs need nothing of them), from one invariant
`DeployInv`:

* `HandedOverCorrect`: `HandedOver`. The property speaks of one moment of one command and is
  far from inductive. `CommandInv` says that what is left of a command is a rest of one of
  the lists, and that the steps it has executed have left behind what they should
  (`Reached`): the federation names the recorded bridge once `FederationProxy` has been
  executed, and so on. Each step keeps `Reached` because of what the list puts before and after
  it (`Ordered`, decided for the 47 positions of the three lists in `ScriptsAreOrdered`): a
  script that replaces a proxy comes before those that rely on it.
  `OnlyDefaultConfigures` tells the command from what it has left.
* `RepeatCorrect`: `CanBeRepeated`. A call could revert: `ServiceInv` is what makes the
  transfer of the primary safe, since where nothing was deployed before there is never a
  second bridge, as its record keeps version 4, and where a bridge is in service the script
  does not transfer; `LimitsAccepted` evaluates the two tables of limits. Or a record could be
  missing: `RecordsInv` says that a recorded proxy comes with the record of its implementation
  (kovan excepted), and `Reached` which records a command has made before it looks for them;
  from these follow, script by script, `ImplementationsFound`, `ProxiesFind` and
  `HandoverFinds`. The two networks excepted are those of the property.
* `StopsCorrect`: `OnlyStopsAndRepeatsHarm`. `AdminInv` knows that between its two steps
  the script of `ProxyAdmin` remembers `newly`, without which the transfer would be skipped.
  `NftInv` keeps what a configuration found: a first federation
  and a first NFT bridge are not changed again, only followed by others.
* `NamedCorrect` and `DeployTypes`: `NamedIsProtected` and `DeployTypeOK`. `ContractsInv`
  says that the recorded proxy is the one deployed last, `RefsInv` that proxies name proxies
  that exist. The administration scripts change members, tokens, side tokens, the currency
  and the factory of the NFTs only (`AdministrationKeeps`), which no other conjunct reads.

Every invariant that a passing run checks is stated by a theorem. Only model-checked: the
violation of `LimitsAreIn18Decimals`; and liveness under fairness (`EventuallyHandled`, `EveryJobRuns`),
which is beyond the prover.

Properties are also tested against mutants, operators marked as such in the modules: each
changes one definition the way a plausible bug would, and each property fails for its
mutant.

## 5. Not modelled

* A write of lastBlock.txt that is cut short (`Federator.js:500`): files are written in one
  piece here.
* Transfers that version 3 of the bridge accepted and that are claimed after its upgrade:
  their data hashes lack the chain ids (`Bridge.sol:357`). It needs the code of
  `BridgeV3.sol` beside the present one.
* `getDigest` and the nonces of signed claims (`Bridge.sol:301`), permits of tokens,
  and the wrapped currency.
* Confirmations that governance changes while a run votes (`AllowTokens.sol:193`).
* Version 2 of the federation, version 1 of AllowTokens and the bridges before version 4
  in the wrappers of the federator; they differ in the arguments that they pass on.
* The setters with which the owner of a bridge writes its tables of side tokens by hand
  (`Bridge.sol:139`, `:155`): what is backed then depends on what is written.
* The deployments rsktestnetbsc and rsktestnetrinkeby. `hardhat.config.js:116` and `:129` give
  them the chain id of rsktestnet, so that the named addresses are those of its
  bridge, while the records are those of others: scripts that return early trust one bridge,
  and those that read records (`30_create_config_file.js:15`, `nftbridge/03:16`) mix the two.
* The replacement of the federation, of AllowTokens and of the factory of a bridge that
  is in service. A bridge whose federation was replaced trusts the marks of the new one.
* `MultiSigWallet` composed with the contracts it owns, and `AllowTokens` with `Bridge`: each
  is open to all the calls that the other could make.
* The report that a heartbeat carries; that each heartbeat is logged in the end.
* Metrics and the status endpoint (output only), vendored libraries, integration tests,
  samples, and scripts that only read.

What a next version should add, in this order: the upgrade of the bridge with unclaimed
transfers of version 3, and the nonces of signed claims.
