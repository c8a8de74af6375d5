----------------------------- MODULE Deployment -----------------------------
(***************************************************************************)
(* The deployment of one side of the bridge: the scripts of bridge/deploy, *)
(* which hardhat-deploy executes in order, and the administration scripts  *)
(* of bridge/hardhat/script.  No script returns true, so each execution of *)
(* a command starts again at its first script; what an earlier execution   *)
(* left behind is found in the records of the deployments and on the chain.*)
(*                                                                         *)
(* hardhat-deploy is external: deploy(name, args) reuses the recorded      *)
(* contract when its code and its arguments are the recorded ones, and     *)
(* deploys and records a new one otherwise; a call that reverts, and       *)
(* deployments.get of a contract that is not recorded, end the command.    *)
(* The records in bridge/deployments were made with another compiler than  *)
(* the one hardhat.config.js names now: none of them has the present code. *)
(* The wallet is the one script 01 deploys: the deployer is its owner and  *)
(* one confirmation is enough, so that submitTransaction executes.         *)
(*                                                                         *)
(* Contracts that may be deployed more than once are numbered; 0 is the    *)
(* deployer's own address, the place holder in their initial arguments.    *)
(***************************************************************************)
EXTENDS Integers, Sequences, FiniteSets

CONSTANTS
    MaxRuns,   \* commands the operator starts (bounds the model)
    MaxStops,  \* executions that stop between two transactions
    MaxEdits   \* executions of the administration scripts

ASSUME DeploymentConstants == MaxRuns \in Nat /\ MaxStops \in Nat /\ MaxEdits \in Nat

VARIABLES
    network,     \* which of Networks this is
    command,     \* the steps the running command has left
    recorded,    \* the contracts with a record, those of one instance
    built,       \* those whose record was made from the present sources
    newly,       \* newlyDeployed of the deployment of ProxyAdmin
    bridge,      \* the number of the recorded BridgeProxy, 0 when there is none
    fed,         \* that of the recorded FederationProxy
    allow,       \* that of the recorded AllowTokensProxy
    nft,         \* that of the recorded NftBridgeProxy
    logic,       \* the recorded Bridge: its major version
    bridges,     \* the BridgeProxy contracts on the chain
    feds,        \* the FederationProxy contracts
    allows,      \* the AllowTokensProxy contracts
    nfts,        \* the NftBridgeProxy contracts
    admin,       \* the owner of ProxyAdmin
    primary,     \* the primary of SideTokenFactory
    nftPrimary,  \* that of the SideNFTTokenFactory of the old records, and of the new one
    config,      \* the addresses in the last configuration file of the federators
    runs, stops, edits, \* what MaxRuns, MaxStops and MaxEdits bound
    halted       \* history: the step at which an execution was stopped

records == <<recorded, built, newly, bridge, fed, allow, nft, logic>>
proxies == <<bridges, feds, allows, nfts>>
owned   == <<admin, primary, nftPrimary>>
counts  == <<network, runs, stops, edits, halted>>
deployVars == <<command, records, proxies, owned, config, counts>>

Deployer == 0
NoArgument == -1   \* initialize of an earlier Federation has no address of an NFT bridge

(* A development chain; a live chain nothing was deployed on; live chains *)
(* with the records of the previous version: all of them, without and     *)
(* with the addresses of the proxies in hardhat.config.js, and those of   *)
(* kovan and of rsktestnet, which lack Federation and the NFTs; and the   *)
(* chains with such addresses and without records, ethmainnet and         *)
(* rskmainnet, whose contracts have no numbers here.                      *)
Networks == {"development", "bscmainnet", "bsctestnet", "rinkeby", "kovan", "ethmainnet"}
Live  == network # "development"
Named == network \in {"rinkeby", "kovan", "ethmainnet"}
FactoryNamed == Named \/ network = "bsctestnet"

(* All scripts, in the order of their paths.  A script of several         *)
(* transactions has a step for each state they leave.                     *)
Default ==
    <<"MultiSigWallet", "ProxyAdmin", "ProxyAdminOwner", "SideTokenFactory", "Bridge",
      "BridgeProxy", "Federation", "FederationProxy", "AllowTokens", "AllowTokensProxy",
      "SetTokens", "AllowTokensOwner", "SideTokenFactoryToBridge",
      "TransferFederationToBridge", "TransferAllowTokensToBridge", "MainToken", "WRBTC",
      "BridgeSetWrappedCurrency", "CreateConfigFile", "UpgradeBridge", "CallWrbtc", "WBNB",
      "SideNFTTokenFactory", "NftBridge", "NftBridgeProxy", "NftFactoryToBridge",
      "SetNftBridge", "ERC721", "CreateConfigFileV3">>

(* --tags nft: the scripts of nftbridge and what they depend on. *)
NftOnly ==
    <<"SideNFTTokenFactory", "NftBridge", "MultiSigWallet", "ProxyAdmin", "ProxyAdminOwner",
      "Federation", "Bridge", "SideTokenFactory", "BridgeProxy", "FederationProxy",
      "NftBridgeProxy", "NftFactoryToBridge", "SetNftBridge", "ERC721", "AllowTokens",
      "CreateConfigFileV3">>

(* --tags UpgradeBridge *)
Upgrade == <<"Bridge", "UpgradeBridge">>

Commands == {Default, NftOnly, Upgrade}
Steps == {Default[i] : i \in DOMAIN Default}

Running == command # <<>>
At(s)   == Running /\ Head(command) = s
Advance == command' = Tail(command)

-----------------------------------------------------------------------------
(* What has been deployed before: nothing, or the bridge of version 3, in *)
(* service.  The factory of the NFTs on bsctestnet was recorded after its *)
(* NFT bridge was deployed with an earlier one.                           *)
Erc20Records == {"MultiSigWallet", "ProxyAdmin", "SideTokenFactory", "Bridge", "FederationV2",
                 "AllowTokens", "WRBTC"}
NftRecords == {"SideNFTTokenFactory", "NftBridge"}

Earlier ==
    CASE network = "bsctestnet" ->
             Erc20Records \cup NftRecords \cup {"Federation", "CallWrbtc", "WBNB"}
      [] network = "rinkeby" ->
             Erc20Records \cup NftRecords \cup {"Federation", "MainToken", "ERC721"}
      [] OTHER -> Erc20Records

OldBridge == [logic |-> 3, impl |-> 3, federation |-> 1, allowTokens |-> 1,
              wrapped |-> "WRBTC", side |-> {}]
OldFederation(n) == [bridge |-> 1, arg |-> NoArgument, nft |-> n, members |-> {"first", "old"},
                     required |-> 1]
OldAllowTokens == [bridge |-> 1, owner |-> "multiSig", tokens |-> {"listed", "WRBTC"}]
OldNftBridge(f) == [arg |-> [federation |-> 1, factory |-> f], federation |-> 1,
                    factory |-> f, side |-> {}]

NothingDeployed ==
    /\ recorded = {} /\ bridge = 0 /\ fed = 0 /\ allow = 0 /\ nft = 0 /\ logic = 0
    /\ bridges = <<>> /\ feds = <<>> /\ allows = <<>> /\ nfts = <<>>
    /\ admin = "deployer" /\ primary = Deployer /\ nftPrimary = [old |-> Deployer, new |-> Deployer]
    /\ config = [bridge |-> 0, fed |-> 0, allow |-> 0, nft |-> 0]

NftsInService == IF network = "kovan" THEN 0 ELSE 1

Version3InService ==
    /\ recorded = Earlier /\ bridge = 1 /\ fed = 1 /\ allow = 1 /\ nft = NftsInService /\ logic = 3
    /\ bridges = <<OldBridge>> /\ feds = <<OldFederation(NftsInService)>>
    /\ allows = <<OldAllowTokens>>
    /\ nfts = IF network = "kovan" THEN <<>>
              ELSE <<OldNftBridge(IF Named THEN "old" ELSE "earlier")>>
    /\ admin = "multiSig" /\ primary = 1
    /\ \E p \in IF Named THEN {NftsInService} ELSE {Deployer, 1} :
          nftPrimary = [old |-> p, new |-> Deployer]
    /\ config = [bridge |-> 1, fed |-> 1, allow |-> 1, nft |-> NftsInService]

DeployInit ==
    /\ network \in Networks
    /\ IF network \in {"development", "bscmainnet", "ethmainnet"}
       THEN NothingDeployed ELSE Version3InService
    /\ command = <<>> /\ newly = FALSE /\ built = {}
    /\ runs = 0 /\ stops = 0 /\ edits = 0
    /\ halted = {}

(* The operator starts a command.  The records of a development chain are *)
(* not saved: a second execution there would start from nothing.          *)
Start(c) ==
    /\ ~Running
    /\ runs < (IF Live THEN MaxRuns ELSE 1)
    /\ command' = c
    /\ runs' = runs + 1
    /\ UNCHANGED <<records, proxies, owned, config, network, stops, edits, halted>>

(* The node fails, or the operator interrupts the command. *)
Stop ==
    /\ Running
    /\ stops < MaxStops
    /\ stops' = stops + 1
    /\ halted' = halted \cup {Head(command)}
    /\ command' = <<>>
    /\ UNCHANGED <<records, proxies, owned, config, network, runs, edits>>

-----------------------------------------------------------------------------
(* The types of tokens AllowTokens is initialised with.  Amounts are only  *)
(* compared, so that m/10 * 10^e ether, with m in 10..99, stands as a      *)
(* number that grows with it.                                              *)
Ether(m, e) == 100 * e + m

LimitsRow(min, medium, large, max, daily) ==
    [min |-> min, mediumAmount |-> medium, largeAmount |-> large, max |-> max, daily |-> daily]

TokensTypesMainnet ==
    <<LimitsRow(Ether(10, -4), Ether(10, -1), Ether(10, 0), Ether(25, 1), Ether(10, 2)),    \* BTC
      LimitsRow(Ether(50, -3), Ether(30, 0), Ether(30, 1), Ether(75, 2), Ether(30, 3)),     \* ETH
      LimitsRow(Ether(10, -2), Ether(10, 1), Ether(10, 2), Ether(25, 3), Ether(50, 3)),     \* <1000usd
      LimitsRow(Ether(10, -1), Ether(10, 2), Ether(10, 3), Ether(25, 4), Ether(50, 4)),     \* <100usd
      LimitsRow(Ether(10, 1), Ether(10, 4), Ether(10, 5), Ether(25, 6), Ether(50, 6)),      \* =1usd
      LimitsRow(Ether(10, 3), Ether(10, 6), Ether(10, 7), Ether(25, 8), Ether(50, 8)),      \* <1usd
      LimitsRow(Ether(10, 5), Ether(10, 8), Ether(10, 9), Ether(25, 10), Ether(50, 10))>>   \* <1cent

TokensTypesTestnet ==
    <<LimitsRow(Ether(10, -4), Ether(10, -2), Ether(10, -1), Ether(25, 1), Ether(10, 2)),
      LimitsRow(Ether(50, -4), Ether(30, -2), Ether(30, -1), Ether(75, 2), Ether(30, 3)),
      LimitsRow(Ether(10, -3), Ether(10, -2), Ether(10, -1), Ether(25, 3), Ether(50, 3)),
      LimitsRow(Ether(10, -1), Ether(10, 0), Ether(10, 1), Ether(25, 4), Ether(50, 4)),
      LimitsRow(Ether(10, 0), Ether(10, 1), Ether(10, 2), Ether(25, 6), Ether(50, 6)),
      LimitsRow(Ether(10, 1), Ether(10, 2), Ether(10, 3), Ether(25, 8), Ether(50, 8)),
      LimitsRow(Ether(10, 1), Ether(10, 2), Ether(10, 3), Ether(25, 10), Ether(50, 10))>>

IsMainnet == network \in {"bscmainnet", "ethmainnet"}
TokensTypes == IF IsMainnet THEN TokensTypesMainnet ELSE TokensTypesTestnet

(* setTypeLimits of AllowTokens. *)
AcceptedTypes(types) ==
    \A i \in DOMAIN types :
        /\ types[i].min <= types[i].max /\ types[i].max <= types[i].daily
        /\ types[i].min < types[i].mediumAmount /\ types[i].mediumAmount < types[i].largeAmount

(* The types of the tokens that setTokens lists for five of the chains. *)
ListedTypes ==
    [rsktestnet |-> {0, 1, 3, 4, 5}, kovan |-> {0, 1, 3, 4, 5}, bsctestnet |-> {0, 1, 2, 4},
     rskmainnet |-> {3, 4, 5, 6}, ethmainnet |-> {0, 1, 3, 4, 5, 6}]

(* The federators the federation starts with, and how many have to vote. *)
FederationConf ==
    CASE network \in {"bsctestnet", "kovan"} -> [members |-> {"first"}, required |-> 1]
      [] IsMainnet -> [members |-> {"first", "second", "third", "fourth", "fifth"},
                       required |-> 2]
      [] OTHER -> [members |-> {"deployer"}, required |-> 1]

(* Mutant: the primary is transferred whoever it is, as in nftbridge/03. *)
AlwaysTransferPrimary == ~FactoryNamed

MustTransferPrimary == ~FactoryNamed /\ primary # bridge

(* The factory of the NFTs with a record. *)
NftFactory == IF "SideNFTTokenFactory" \in built THEN "new" ELSE "old"

(* Mutant: an address is used without asking for its record. *)
NothingLookedUp == {}

(* The contracts whose records the next script needs: deployments.get, and *)
(* an address that is not named.  The scripts that return early because    *)
(* their proxy is named look for nothing; those of the implementations     *)
(* look for the record when there is a proxy, named or recorded.  The      *)
(* wallet, ProxyAdmin and the federation need no record where they are     *)
(* named, but have one on every network whose commands come to a script    *)
(* that asks for them.                                                     *)
LookedUp ==
    CASE At("Bridge") /\ (Named \/ bridge # 0)       -> {"Bridge"}
      [] At("Federation") /\ (Named \/ fed # 0)      -> {"Federation"}
      [] At("AllowTokens") /\ (Named \/ allow # 0)   -> {"AllowTokens"}
      [] At("BridgeProxy") /\ ~Named ->
             {"Bridge", "MultiSigWallet", "ProxyAdmin", "SideTokenFactory"}
      [] At("FederationProxy") /\ ~Named ->
             {"Federation", "ProxyAdmin", "MultiSigWallet", "BridgeProxy"}
      [] At("AllowTokensProxy") /\ ~Named -> {"AllowTokens", "ProxyAdmin", "BridgeProxy"}
      [] At("SetTokens") /\ ~Named        -> {"AllowTokens", "AllowTokensProxy", "MultiSigWallet"}
      [] At("SideTokenFactoryToBridge") /\ ~FactoryNamed -> {"BridgeProxy", "SideTokenFactory"}
      [] At("TransferFederationToBridge") /\ ~Named ->
             {"Bridge", "MultiSigWallet", "BridgeProxy", "FederationProxy"}
      [] At("TransferAllowTokensToBridge") /\ ~Named ->
             {"Bridge", "MultiSigWallet", "BridgeProxy", "AllowTokensProxy"}
      [] At("BridgeSetWrappedCurrency") /\ ~Named ->
             {"Bridge", "BridgeProxy", "MultiSigWallet"}
                 \cup IF Live THEN {} ELSE {"WRBTC", "AllowTokens", "AllowTokensProxy"}
      [] At("CreateConfigFile") ->
             {"BridgeProxy", "FederationProxy", "MultiSigWallet", "AllowTokensProxy"}
                 \cup IF Live THEN {} ELSE {"AllowTokens", "MainToken"}
      [] At("UpgradeBridge") -> {"Bridge", "ProxyAdmin", "BridgeProxy", "MultiSigWallet"}
      [] At("CallWrbtc")     -> {"WRBTC"}
      [] At("NftBridgeProxy") ->
             {"MultiSigWallet", "ProxyAdmin", "FederationProxy", "SideNFTTokenFactory", "NftBridge"}
      [] At("SetNftBridge") ->
             {"Federation", "MultiSigWallet", "NftBridgeProxy", "FederationProxy"}
      [] At("CreateConfigFileV3") ->
             {"BridgeProxy", "NftBridgeProxy", "FederationProxy", "MultiSigWallet",
              "AllowTokensProxy"} \cup IF Live THEN {} ELSE {"AllowTokens", "MainToken", "ERC721"}
      [] OTHER -> {}

RecordedProxy == [BridgeProxy |-> bridge, FederationProxy |-> fed, AllowTokensProxy |-> allow,
                  NftBridgeProxy |-> nft]
WithRecord == recorded \cup {p \in DOMAIN RecordedProxy : RecordedProxy[p] # 0}

(* The proxy was deployed with the ProxyAdmin that a new one has replaced. *)
OtherProxyAdmin == "ProxyAdmin" \in built /\ bridges[bridge].logic = 3

(* What ends a command: a contract without a record, or a reverted call. *)
Reverts ==
    \/ Running /\ ~(LookedUp \subseteq WithRecord)
    \/ At("AllowTokensProxy") /\ ~Named /\ ~AcceptedTypes(TokensTypes)
    \/ /\ At("SetTokens") /\ ~Named
       /\ network \in DOMAIN ListedTypes
       /\ ListedTypes[network] \ {i - 1 : i \in DOMAIN TokensTypes} # {}
    \/ At("SideTokenFactoryToBridge") /\ MustTransferPrimary /\ primary # Deployer
    \/ At("UpgradeBridge") /\ bridge # 0 /\ (admin # "multiSig" \/ OtherProxyAdmin)
    \/ At("NftFactoryToBridge") /\ nftPrimary[NftFactory] # Deployer

-----------------------------------------------------------------------------
(* Deploying the contracts of one instance. *)

(* deploy(contract) in a script that returns early when "returns" holds. *)
Deploys(s, contract, returns) ==
    /\ At(s)
    /\ ~Reverts
    /\ recorded' = IF returns THEN recorded ELSE recorded \cup {contract}
    /\ built' = IF returns THEN built ELSE built \cup {contract}
    /\ Advance
    /\ UNCHANGED <<newly, bridge, fed, allow, nft, logic, proxies, owned, config, counts>>

DeployMultiSigWallet   == Deploys("MultiSigWallet", "MultiSigWallet", FactoryNamed)
DeploySideTokenFactory == Deploys("SideTokenFactory", "SideTokenFactory", Named)
DeployFederation  == Deploys("Federation", "Federation", FALSE)
DeployAllowTokens == Deploys("AllowTokens", "AllowTokens", FALSE)
DeployMainToken   == Deploys("MainToken", "MainToken", Live)
DeployWRBTC       == Deploys("WRBTC", "WRBTC", Live)
DeployCallWrbtc   == Deploys("CallWrbtc", "CallWrbtc", FALSE)
DeployWBNB        == Deploys("WBNB", "WBNB", FALSE)
DeployNftBridge   == Deploys("NftBridge", "NftBridge", FALSE)
DeployTestNft     == Deploys("ERC721", "ERC721", Live)
DeployNftFactory  == Deploys("SideNFTTokenFactory", "SideNFTTokenFactory", FALSE)

(* The version() of the proxy is compared without awaiting it: the script *)
(* never takes the proxy for up to date, and deploys what the source is.  *)
DeployBridge ==
    /\ At("Bridge")
    /\ ~Reverts
    /\ recorded' = recorded \cup {"Bridge"}
    /\ built' = built \cup {"Bridge"}
    /\ logic' = 4
    /\ Advance
    /\ UNCHANGED <<newly, bridge, fed, allow, nft, proxies, owned, config, counts>>

(* Its owner is first who deploys it. *)
DeployProxyAdmin ==
    /\ At("ProxyAdmin")
    /\ newly' = (~Named /\ "ProxyAdmin" \notin built)
    /\ recorded' = IF Named THEN recorded ELSE recorded \cup {"ProxyAdmin"}
    /\ built' = IF Named THEN built ELSE built \cup {"ProxyAdmin"}
    /\ admin' = IF newly' THEN "deployer" ELSE admin
    /\ Advance
    /\ UNCHANGED <<bridge, fed, allow, nft, logic, proxies, primary, nftPrimary, config, counts>>

TransferProxyAdmin ==
    /\ At("ProxyAdminOwner")
    /\ admin' = IF newly THEN "multiSig" ELSE admin
    /\ Advance
    /\ UNCHANGED <<records, proxies, primary, nftPrimary, config, counts>>

-----------------------------------------------------------------------------
(* Deploying the proxies: reused while their arguments are the same. *)

DeployBridgeProxy ==
    LET reuse == Named \/ (bridge # 0 /\ bridges[bridge].logic = logic)
    IN  /\ At("BridgeProxy")
        /\ ~Reverts
        /\ bridge' = IF reuse THEN bridge ELSE Len(bridges) + 1
        /\ bridges' = IF reuse THEN bridges
                      ELSE Append(bridges, [logic |-> logic, impl |-> logic, federation |-> Deployer,
                                            allowTokens |-> Deployer, wrapped |-> "none", side |-> {}])
        /\ Advance
        /\ UNCHANGED <<recorded, built, newly, fed, allow, nft, logic, feds, allows, nfts, owned, config, counts>>

(* initialize is given the recorded NFT bridge, or else the bridge. *)
DeployFederationProxy ==
    LET reuse == Named \/ (fed # 0 /\ feds[fed].bridge = bridge /\ feds[fed].arg = nft)
    IN  /\ At("FederationProxy")
        /\ ~Reverts
        /\ fed' = IF reuse THEN fed ELSE Len(feds) + 1
        /\ feds' = IF reuse THEN feds
                   ELSE Append(feds, [bridge |-> bridge, arg |-> nft, nft |-> nft,
                                      members |-> FederationConf.members,
                                      required |-> FederationConf.required])
        /\ Advance
        /\ UNCHANGED <<recorded, built, newly, bridge, allow, nft, logic, bridges, allows, nfts, owned, config, counts>>

DeployAllowTokensProxy ==
    LET reuse == Named \/ (allow # 0 /\ allows[allow].bridge = bridge)
    IN  /\ At("AllowTokensProxy")
        /\ ~Reverts
        /\ allow' = IF reuse THEN allow ELSE Len(allows) + 1
        /\ allows' = IF reuse THEN allows
                     ELSE Append(allows, [bridge |-> bridge, owner |-> "deployer", tokens |-> {}])
        /\ Advance
        /\ UNCHANGED <<recorded, built, newly, bridge, fed, nft, logic, bridges, feds, nfts, owned, config, counts>>

NftArguments == [federation |-> fed, factory |-> NftFactory]

DeployNftBridgeProxy ==
    LET reuse == nft # 0 /\ nfts[nft].arg = NftArguments
    IN  /\ At("NftBridgeProxy")
        /\ ~Reverts
        /\ nft' = IF reuse THEN nft ELSE Len(nfts) + 1
        /\ nfts' = IF reuse THEN nfts
                   ELSE Append(nfts, [arg |-> NftArguments, federation |-> fed,
                                      factory |-> NftFactory, side |-> {}])
        /\ Advance
        /\ UNCHANGED <<recorded, built, newly, bridge, fed, allow, logic, bridges, feds, allows, owned, config, counts>>

-----------------------------------------------------------------------------
(* Handing the contracts over. *)

(* Nothing is set on the chains without a list. *)
SetTokens ==
    /\ At("SetTokens")
    /\ ~Reverts
    /\ allows' = IF Named \/ allows[allow].owner = "multiSig" \/ network \notin DOMAIN ListedTypes
                 THEN allows
                 ELSE [allows EXCEPT ![allow].tokens = @ \cup {"listed"}]
    /\ Advance
    /\ UNCHANGED <<records, bridges, feds, nfts, owned, config, counts>>

(* Mutant: as in script 02, only a contract of this execution is handed over. *)
OwnedByMultiSigOrOld == Named \/ allows[allow].owner = "multiSig" \/ ~newly

OwnedByMultiSig == Named \/ allows[allow].owner = "multiSig"

TransferAllowTokens ==
    /\ At("AllowTokensOwner")
    /\ allows' = IF OwnedByMultiSig THEN allows ELSE [allows EXCEPT ![allow].owner = "multiSig"]
    /\ Advance
    /\ UNCHANGED <<records, bridges, feds, nfts, owned, config, counts>>

TransferPrimary ==
    /\ At("SideTokenFactoryToBridge")
    /\ ~Reverts
    /\ primary' = IF MustTransferPrimary THEN bridge ELSE primary
    /\ Advance
    /\ UNCHANGED <<records, proxies, admin, nftPrimary, config, counts>>

TransferFederation ==
    /\ At("TransferFederationToBridge")
    /\ ~Reverts
    /\ bridges' = IF Named THEN bridges ELSE [bridges EXCEPT ![bridge].federation = fed]
    /\ Advance
    /\ UNCHANGED <<records, feds, allows, nfts, owned, config, counts>>

TransferAllowTokensToBridge ==
    /\ At("TransferAllowTokensToBridge")
    /\ ~Reverts
    /\ bridges' = IF Named THEN bridges ELSE [bridges EXCEPT ![bridge].allowTokens = allow]
    /\ Advance
    /\ UNCHANGED <<records, feds, allows, nfts, owned, config, counts>>

(* Mutant: the early return is forgotten. *)
NeverProtected == FALSE

Protected == Named

BridgeSetWrappedCurrency ==
    /\ At("BridgeSetWrappedCurrency")
    /\ ~Reverts
    /\ bridges' = IF Protected THEN bridges
                  ELSE [bridges EXCEPT ![bridge].wrapped = IF Live THEN "named" ELSE "WRBTC"]
    /\ allows' = IF Live THEN allows ELSE [allows EXCEPT ![allow].tokens = @ \cup {"WRBTC"}]
    /\ Advance
    /\ UNCHANGED <<records, feds, nfts, owned, config, counts>>

(* The dry run reverts unless the wallet owns ProxyAdmin. *)
UpgradeBridge ==
    /\ At("UpgradeBridge")
    /\ ~Reverts
    /\ bridges' = [bridges EXCEPT ![bridge].impl = logic]
    /\ Advance
    /\ UNCHANGED <<records, feds, allows, nfts, owned, config, counts>>

(* Not guarded: it reverts when the primary has been transferred before. *)
TransferNftPrimary ==
    /\ At("NftFactoryToBridge")
    /\ ~Reverts
    /\ nftPrimary' = [nftPrimary EXCEPT ![NftFactory] = nft]
    /\ Advance
    /\ UNCHANGED <<records, proxies, admin, primary, config, counts>>

(* Mutant: any address will do; initialize has set that of the bridge. *)
SomeNftBridgeIsSet == feds[fed].bridge # 0

NftBridgeIsSet == feds[fed].nft = nft

SetNftBridge ==
    /\ At("SetNftBridge")
    /\ ~Reverts
    /\ feds' = IF NftBridgeIsSet THEN feds ELSE [feds EXCEPT ![fed].nft = nft]
    /\ Advance
    /\ UNCHANGED <<records, bridges, allows, nfts, owned, config, counts>>

(* The main token is allowed on a development chain, and the file names *)
(* the recorded contracts.                                              *)
WriteConfig(nftBridge) ==
    /\ ~Reverts
    /\ allows' = IF Live THEN allows ELSE [allows EXCEPT ![allow].tokens = @ \cup {"MainToken"}]
    /\ config' = [bridge |-> bridge, fed |-> fed, allow |-> allow, nft |-> nftBridge]
    /\ Advance
    /\ UNCHANGED <<records, bridges, feds, nfts, owned, counts>>

CreateConfigFile   == At("CreateConfigFile") /\ WriteConfig(0)
CreateConfigFileV3 == At("CreateConfigFileV3") /\ WriteConfig(nft)

Throw ==
    /\ Reverts
    /\ command' = <<>>
    /\ UNCHANGED <<records, proxies, owned, config, counts>>

-----------------------------------------------------------------------------
(* The administration scripts: a dry run from the wallet, which ends the   *)
(* script when it reverts, and submitTransaction.                          *)
Edit ==
    /\ ~Running
    /\ edits < MaxEdits
    /\ edits' = edits + 1
    /\ UNCHANGED <<command, records, owned, config, network, runs, stops, halted>>

(* The scripts for the members look for the record of FederationV2, which *)
(* no script makes any more.                                              *)
AddFederatorMember ==
    /\ Edit
    /\ "FederationV2" \in recorded
    /\ "new" \notin feds[fed].members
    /\ feds' = [feds EXCEPT ![fed].members = @ \cup {"new"}]
    /\ UNCHANGED <<bridges, allows, nfts>>

DeleteFederatorMember ==
    /\ Edit
    /\ "FederationV2" \in recorded
    /\ "old" \in feds[fed].members
    /\ Cardinality(feds[fed].members) > (IF feds[fed].required > 1 THEN feds[fed].required ELSE 1)
    /\ feds' = [feds EXCEPT ![fed].members = @ \ {"old"}]
    /\ UNCHANGED <<bridges, allows, nfts>>

SetAllowToken ==
    /\ Edit
    /\ "WBNB" \in recorded
    /\ allows[allow].owner = "multiSig"
    /\ allows' = [allows EXCEPT ![allow].tokens = @ \cup {"WBNB"}]
    /\ UNCHANGED <<bridges, feds, nfts>>

(* The token to remove is written into the script. *)
RemoveAllowToken ==
    /\ Edit
    /\ allow # 0
    /\ allows[allow].owner = "multiSig"
    /\ \E token \in allows[allow].tokens :
          allows' = [allows EXCEPT ![allow].tokens = @ \ {token}]
    /\ UNCHANGED <<bridges, feds, nfts>>

SetWrappedCurrency ==
    /\ Edit
    /\ "WBNB" \in recorded
    /\ bridges' = [bridges EXCEPT ![bridge].wrapped = "WBNB"]
    /\ UNCHANGED <<feds, allows, nfts>>

(* createSideToken of version 3, with five arguments: with the record of  *)
(* version 4 the call has too few.                                        *)
CreateSideToken(token) ==
    /\ Edit
    /\ bridge # 0
    /\ logic = 3
    /\ primary = bridge
    /\ token \notin bridges[bridge].side
    /\ bridges' = [bridges EXCEPT ![bridge].side = @ \cup {token}]
    /\ allows' = [allows EXCEPT ![bridges[bridge].allowTokens].tokens = @ \cup {token}]
    /\ UNCHANGED <<feds, nfts>>

CreateTokensERC20Rsk == CreateSideToken("sideWBNB")
CreateRifToken       == CreateSideToken("sideRIF")

CreateSideNftToken ==
    /\ Edit
    /\ nft # 0
    /\ nfts[nft].factory \in DOMAIN nftPrimary => nftPrimary[nfts[nft].factory] = nft
    /\ nfts[nft].side = {}
    /\ nfts' = [nfts EXCEPT ![nft].side = {"drop"}]
    /\ UNCHANGED <<bridges, feds, allows>>

ChangeSideTokenFactoryNFT ==
    /\ Edit
    /\ nft # 0
    /\ nfts' = [nfts EXCEPT ![nft].factory = NftFactory]
    /\ UNCHANGED <<bridges, feds, allows>>

-----------------------------------------------------------------------------
Script ==
    \/ DeployMultiSigWallet \/ DeploySideTokenFactory \/ DeployFederation \/ DeployAllowTokens
    \/ DeployMainToken \/ DeployWRBTC \/ DeployCallWrbtc \/ DeployWBNB \/ DeployNftBridge
    \/ DeployTestNft \/ DeployNftFactory \/ DeployBridge \/ DeployProxyAdmin \/ TransferProxyAdmin
    \/ DeployBridgeProxy \/ DeployFederationProxy \/ DeployAllowTokensProxy \/ DeployNftBridgeProxy
    \/ SetTokens \/ TransferAllowTokens \/ TransferPrimary \/ TransferFederation
    \/ TransferAllowTokensToBridge \/ BridgeSetWrappedCurrency \/ UpgradeBridge
    \/ TransferNftPrimary \/ SetNftBridge \/ CreateConfigFile \/ CreateConfigFileV3

Administration ==
    \/ AddFederatorMember \/ DeleteFederatorMember \/ SetAllowToken \/ RemoveAllowToken
    \/ SetWrappedCurrency \/ CreateTokensERC20Rsk \/ CreateRifToken \/ CreateSideNftToken
    \/ ChangeSideTokenFactoryNFT

DeployNext ==
    \/ \E c \in Commands : Start(c)
    \/ Script
    \/ Throw
    \/ Stop
    \/ Administration

DeploySpec == DeployInit /\ [][DeployNext]_deployVars

-----------------------------------------------------------------------------
(* Each record names a contract that is on the chain, and each contract    *)
(* refers to contracts that are (all scripts).                             *)
DeployTypeOK ==
    /\ network \in Networks
    /\ \E c \in Commands, n \in 1..30 : command = SubSeq(c, n, Len(c))
    /\ halted \subseteq Steps
    /\ bridge \in 0..Len(bridges) /\ fed \in 0..Len(feds)
    /\ allow \in 0..Len(allows) /\ nft \in 0..Len(nfts)
    /\ logic \in {0, 3, 4} /\ newly \in BOOLEAN
    /\ admin \in {"deployer", "multiSig"}
    /\ built \subseteq recorded
    /\ primary \in 0..Len(bridges) /\ nftPrimary \in [{"old", "new"} -> 0..Len(nfts)]
    /\ \A i \in DOMAIN bridges :
          /\ bridges[i].federation \in 0..Len(feds)
          /\ bridges[i].allowTokens \in 0..Len(allows)
    /\ \A i \in DOMAIN feds :
          feds[i].bridge \in DOMAIN bridges /\ feds[i].nft \in 0..Len(nfts)
    /\ \A i \in DOMAIN nfts : nfts[i].federation \in DOMAIN feds
    /\ \A i \in DOMAIN allows :
          allows[i].bridge \in DOMAIN bridges /\ allows[i].owner \in {"deployer", "multiSig"}

(* The steps between the two configuration files of the first command. *)
Configured == \E i \in 20..28 : command = SubSeq(Default, i, 29)

(* However often and wherever earlier executions were stopped, a command   *)
(* that comes as far as writing the configuration has handed the bridge    *)
(* over: it trusts the recorded federation and AllowTokens, AllowTokens    *)
(* belongs to the wallet, and, unless the bridge itself has been replaced, *)
(* the factory of the side tokens obeys it (deploy/05 to 13).              *)
HandedOver ==
    Configured =>
        /\ bridges[bridge].federation = fed /\ feds[fed].bridge = bridge
        /\ bridges[bridge].allowTokens = allow /\ allows[allow].bridge = bridge
        /\ allows[allow].owner = "multiSig"
        /\ Len(bridges) = 1 => primary = bridge

(* The scripts of the ERC-20 bridge can be executed again from any state:  *)
(* what an interrupted execution left never makes one of their calls       *)
(* revert (deploy/11 checks the primary before it transfers it) or leaves  *)
(* out a record that a later one looks for.  Only a record the repository  *)
(* never had ends one of them: that of an implementation whose proxy is    *)
(* named in hardhat.config.js (deploy/04:11 and 06:11).                    *)
CanBeRepeated ==
    Running /\ Head(command) \in {Default[i] : i \in 1..19} /\ Reverts =>
        \/ network = "ethmainnet" /\ Head(command) \in {"Bridge", "Federation"}
        \/ network = "kovan" /\ Head(command) = "Federation"

(* Once its script is over the deployer is the owner of ProxyAdmin, which  *)
(* may replace the code of every proxy, only if an execution was stopped   *)
(* between the deployment and the transfer: a later one finds ProxyAdmin   *)
(* deployed and returns (deploy/02:17).  And the federators configured for *)
(* the recorded NFT bridge find a federation and an NFT bridge that trust  *)
(* each other, and a factory that obeys it, unless the federation has been *)
(* deployed a second time: the address of the NFT bridge is an argument of *)
(* the federation, and that of the federation one of the NFT bridge, so    *)
(* that an execution after the first replaces both (deploy/07:16,          *)
(* nftbridge/03).                                                          *)
OnlyStopsAndRepeatsHarm ==
    /\ "ProxyAdmin" \in recorded /\ admin = "deployer" =>
          At("ProxyAdminOwner") \/ "ProxyAdminOwner" \in halted
    /\ config.nft # 0 /\ config.nft = nft /\ Len(feds) = 1 =>
          /\ bridges[bridge].federation \in {fed, Deployer}
          /\ feds[fed].nft = nft /\ nfts[nft].federation = fed
          /\ nfts[nft].arg.factory = "new" => nftPrimary["new"] = nft

(* The addresses named in hardhat.config.js protect a bridge in service:   *)
(* no command replaces its proxy, its federation or its AllowTokens, nor   *)
(* undoes the currency an operator chose (the early returns of deploy);    *)
(* and where none of the three has a record none is deployed beside them.  *)
NamedIsProtected ==
    Named =>
        IF network = "ethmainnet"
        THEN bridges = <<>> /\ feds = <<>> /\ allows = <<>>
        ELSE /\ Len(bridges) = 1 /\ Len(feds) = 1 /\ Len(allows) = 1
             /\ bridges[1].federation = 1 /\ bridges[1].allowTokens = 1
             /\ bridges[1].wrapped \in {"WRBTC", "WBNB"}
=============================================================================
