-------------------------- MODULE DeploymentScript --------------------------
(***************************************************************************)
(* The deployment script as data: the contracts it deploys, the pair it    *)
(* creates and the calls that connect the contracts, in the order of       *)
(* mainnetDeploy.  The arguments of a step are the contracts that are      *)
(* passed on; other arguments are "external".                              *)
(***************************************************************************)
EXTENDS Sequences

Deploy(name, args) == [op |-> "deploy", name |-> name, args |-> args]

\* A call of name that takes so many parameters, unless owner has no owner.
ConnectUnless(owner, name, takes, args) ==
  [op |-> "connect", owner |-> owner, name |-> name, takes |-> takes, args |-> args]
Connect(name, takes, args) == ConnectUnless(name, name, takes, args)

deployLiquityCoreMainnet == <<
  Deploy("priceFeed", <<>>), Deploy("sortedTroves", <<>>), Deploy("troveManager", <<>>),
  Deploy("activePool", <<>>), Deploy("stabilityPool", <<>>), Deploy("gasPool", <<>>),
  Deploy("defaultPool", <<>>), Deploy("collSurplusPool", <<>>),
  Deploy("borrowerOperations", <<>>), Deploy("hintHelpers", <<>>),
  Deploy("tellorCaller", <<"external">>), Deploy("troveManagerLiquidations", <<>>),
  Deploy("troveManagerRedemptions", <<>>), Deploy("whitelist", <<>>),
  Deploy("yusdToken", <<"troveManager", "troveManagerLiquidations",
    "troveManagerRedemptions", "stabilityPool", "borrowerOperations">>) >>

\* The YUSD pair of the exchange, recorded as uniToken.
createPair == << [op |-> "pair", name |-> "uniToken", args |-> <<"external", "yusdToken">>] >>

deployUnipoolMainnet == << Deploy("unipool", <<>>) >>

deployYETIContractsMainnet == <<
  Deploy("sYETI", <<>>), Deploy("lockupContractFactory", <<>>),
  Deploy("communityIssuance", <<>>),
  Deploy("yetiToken", <<"sYETI", "communityIssuance", "communityIssuance">>) >>

PoolsAndTokens == <<
  "borrowerOperations", "activePool", "defaultPool", "stabilityPool", "gasPool",
  "collSurplusPool", "yusdToken", "sortedTroves", "yetiToken", "sYETI", "whitelist" >>

connectCoreContractsMainnet == <<
  Connect("priceFeed", 2, <<"external", "tellorCaller">>),
  Connect("sortedTroves", 4,
    <<"external", "troveManager", "borrowerOperations", "troveManagerRedemptions">>),
  Connect("troveManager", 13,
    PoolsAndTokens \o <<"troveManagerRedemptions", "troveManagerLiquidations">>),
  Connect("troveManagerLiquidations", 13, Append(PoolsAndTokens, "troveManager")),
  Connect("troveManagerRedemptions", 12, Append(PoolsAndTokens, "troveManager")),
  Connect("borrowerOperations", 10, <<"troveManager", "activePool", "defaultPool",
    "stabilityPool", "gasPool", "collSurplusPool", "sortedTroves", "yusdToken",
    "sYETI", "whitelist">>),
  Connect("stabilityPool", 8, <<"borrowerOperations", "troveManager", "activePool",
    "yusdToken", "sortedTroves", "communityIssuance", "whitelist",
    "troveManagerLiquidations">>),
  Connect("activePool", 8, <<"borrowerOperations", "troveManager", "stabilityPool",
    "defaultPool", "whitelist", "troveManagerLiquidations", "troveManagerRedemptions",
    "collSurplusPool">>),
  Connect("defaultPool", 4, <<"troveManager", "activePool", "whitelist">>),
  Connect("collSurplusPool", 5, <<"borrowerOperations", "troveManager",
    "troveManagerRedemptions", "activePool", "whitelist">>),
  Connect("hintHelpers", 3, <<"sortedTroves", "troveManager", "whitelist">>) >>

connectYETIContractsMainnet == <<
  ConnectUnless("sYETI", "lockupContractFactory", 1, <<"yetiToken">>) >>

connectYETIContractsToCoreMainnet == <<
  Connect("sYETI", 2, <<"yetiToken", "yusdToken">>),
  Connect("communityIssuance", 2, <<"yetiToken", "stabilityPool">>) >>

mainnetDeploy ==
  deployLiquityCoreMainnet \o createPair \o deployUnipoolMainnet
  \o deployYETIContractsMainnet \o connectCoreContractsMainnet
  \o connectYETIContractsMainnet \o connectYETIContractsToCoreMainnet
=============================================================================
