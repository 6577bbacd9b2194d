----------------------------- MODULE Deployment -----------------------------
(***************************************************************************)
(* The deployment script against the chain.  It runs one step after the    *)
(* other, each with awaits between the check whether it is done already,   *)
(* the sending of its transaction and the wait for it; the file of what is *)
(* deployed is written after each deployment.  The process may die at any  *)
(* await, and dies by itself when a step throws; its last transaction      *)
(* stays with the node and is mined later.  The operator then carries the  *)
(* file over to where the script looks for it and starts it again.         *)
(*                                                                         *)
(* A contract is a pair of its name and the number of its deployment.      *)
(***************************************************************************)
EXTENDS DeploymentScript, Integers, SequencesExt

CONSTANTS MaxCrashes, MaxOutages   \* bounds: deaths of the process, of Chainlink

ASSUME DeploymentAssumption == MaxCrashes \in Nat /\ MaxOutages \in Nat

VARIABLES
  mode,               \* of the script: "down", "ready", "sending", "waiting"
  pc,                 \* its current step
  deploymentState,    \* what it knows to be deployed
  file,               \* what it saved last
  pending,            \* transactions with the node, mined in the order of nonces
  made,               \* deployments sent, by name
  wired,              \* the contracts that connected ones refer to
  pairs,              \* the yusdTokens that have a pair
  chainlinkWorks,
  crashes, outages    \* history: how often there was one

scriptVars == <<mode, pc, deploymentState>>
chainVars == <<wired, pairs>>
worldVars == <<chainlinkWorks, outages>>
vars == <<scriptVars, chainVars, worldVars, file, pending, made, crashes>>

Names == {mainnetDeploy[i].name : i \in DOMAIN mainnetDeploy}
step == mainnetDeploy[pc]
Nothing == [n \in {} |-> <<n, 0>>]

Init ==
  /\ mode = "down" /\ pc = 1 /\ deploymentState = Nothing /\ file = Nothing
  /\ pending = <<>> /\ made = [n \in Names |-> 0]
  /\ wired = [c \in {} |-> {}] /\ pairs = {}
  /\ chainlinkWorks = TRUE /\ crashes = 0 /\ outages = 0

-----------------------------------------------------------------------------
(* The script.                                                             *)

Exit == mode' = "down" /\ pc' = 1 /\ deploymentState' = Nothing

(* loadPreviousDeployment.                                                  *)
Start ==
  /\ mode = "down"
  /\ mode' = "ready" /\ pc' = 1 /\ deploymentState' = file
  /\ UNCHANGED <<chainVars, worldVars, file, pending, made, crashes>>

Known(n) == n \in DOMAIN deploymentState
Recorded(n, c) == [m \in DOMAIN deploymentState \cup {n} |->
                    IF m = n THEN c ELSE deploymentState[m]]

\* The pair of the deployed yusdToken has its number.
Pair == <<"uniToken", deploymentState["yusdToken"][2]>>

\* Mutant: every contract is connected again.
NotDone ==
  CASE step.op = "deploy"  -> ~Known(step.name)
    [] step.op = "pair"    -> deploymentState["yusdToken"] \notin pairs
    [] step.op = "connect" -> TRUE

\* isOwnershipRenounced, asked of the chain.  setAddresses gives up the ownership
\* of the contract it connects, but not that of sYETI.
IsOwnershipRenounced(c) == c \in DOMAIN wired /\ c[1] # "sYETI"

\* Has the step to be taken?
ToDo ==
  CASE step.op = "deploy"  -> ~Known(step.name)
    [] step.op = "pair"    -> deploymentState["yusdToken"] \notin pairs
    [] step.op = "connect" -> ~IsOwnershipRenounced(deploymentState[step.owner])

Check ==
  /\ mode = "ready"
  /\ IF ToDo THEN mode' = "sending" /\ UNCHANGED <<pc, deploymentState>>
     ELSE /\ pc' = pc + 1
          /\ deploymentState' = IF step.op = "pair" THEN Recorded("uniToken", Pair)
                                ELSE deploymentState
          /\ UNCHANGED mode
  /\ UNCHANGED <<chainVars, worldVars, file, pending, made, crashes>>

\* The contracts the step passes on.
Passed == {deploymentState[n] : n \in Range(step.args) \ {"external"}}

Transaction ==
  CASE step.op = "deploy" ->
         [op |-> "deploy", to |-> <<step.name, made[step.name] + 1>>, args |-> Passed]
    [] step.op = "pair" ->
         [op |-> "pair", to |-> deploymentState["yusdToken"], args |-> {}]
    [] step.op = "connect" ->
         [op |-> "connect", to |-> deploymentState[step.name], args |-> Passed]

\* A transaction that has no effect: setAddresses succeeds only once, the one of
\* PriceFeed needs a Chainlink that works, createPair a pair that does not exist.
Reverts(tx) ==
  \/ tx.op = "pair" /\ tx.to \in pairs
  \/ tx.op = "connect" /\ tx.to \in DOMAIN wired
  \/ tx.op = "connect" /\ tx.to[1] = "priceFeed" /\ ~chainlinkWorks

(* A call with too few arguments is refused by the client.  One that would  *)
(* revert fails when its gas is estimated; the node may or may not count    *)
(* pending transactions for that.                                           *)
Refused == step.op = "connect" /\ Len(step.args) # step.takes
MayFail == Refused \/ Reverts(Transaction) \/ Transaction \in Range(pending)
MustFail == Refused \/ Reverts(Transaction)

Throw ==
  /\ mode = "sending" /\ MayFail
  /\ Exit
  /\ UNCHANGED <<chainVars, worldVars, file, pending, made, crashes>>

Send ==
  /\ mode = "sending" /\ ~MustFail
  /\ pending' = Append(pending, Transaction)
  /\ made' = IF step.op = "deploy" THEN [made EXCEPT ![step.name] = @ + 1] ELSE made
  /\ mode' = "waiting"
  /\ UNCHANGED <<pc, deploymentState, chainVars, worldVars, file, crashes>>

\* Mutant: the file is written before the contract is recorded.
SavedBefore(state) == deploymentState

\* saveDeployment.
Saved(state) == state

\* Mutant: the script does not wait.
Unawaited == TRUE

(* waitForTransaction: the script's own is the last that is pending.  Its   *)
(* status is not looked at.                                                 *)
Mined == pending = <<>>

Await ==
  /\ mode = "waiting" /\ Mined
  /\ mode' = "ready" /\ pc' = pc + 1
  /\ CASE step.op = "deploy" ->
            /\ deploymentState' = Recorded(step.name, <<step.name, made[step.name]>>)
            /\ file' = Saved(deploymentState')
       [] step.op = "pair" ->
            deploymentState' = Recorded("uniToken", Pair) /\ UNCHANGED file
       [] step.op = "connect" -> UNCHANGED <<deploymentState, file>>
  /\ UNCHANGED <<chainVars, worldVars, pending, made, crashes>>

Crash ==
  /\ mode # "down" /\ crashes < MaxCrashes
  /\ crashes' = crashes + 1
  /\ Exit
  /\ UNCHANGED <<chainVars, worldVars, file, pending, made>>

-----------------------------------------------------------------------------
(* The chain.                                                              *)

Mine ==
  LET tx == Head(pending)
  IN  /\ pending # <<>>
      /\ pending' = Tail(pending)
      /\ wired' = IF tx.args = {} \/ Reverts(tx) THEN wired
                  ELSE [c \in DOMAIN wired \cup {tx.to} |->
                         IF c = tx.to THEN tx.args ELSE wired[c]]
      /\ pairs' = IF tx.op = "pair" THEN pairs \cup {tx.to} ELSE pairs
      /\ UNCHANGED <<scriptVars, worldVars, file, made, crashes>>

ChainlinkStops ==
  /\ chainlinkWorks /\ outages < MaxOutages
  /\ chainlinkWorks' = FALSE /\ outages' = outages + 1
  /\ UNCHANGED <<scriptVars, chainVars, file, pending, made, crashes>>

ChainlinkResumes ==
  /\ ~chainlinkWorks /\ chainlinkWorks' = TRUE
  /\ UNCHANGED <<scriptVars, chainVars, outages, file, pending, made, crashes>>

ScriptStep == Check \/ Throw \/ Send \/ Await

Next == Start \/ ScriptStep \/ Crash \/ Mine \/ ChainlinkStops \/ ChainlinkResumes

(* The operator starts the script again, a process that runs goes on, the   *)
(* chain mines what it was sent and Chainlink does not fail for ever.       *)
Fairness ==
  WF_vars(Start) /\ WF_vars(ScriptStep) /\ WF_vars(Mine) /\ WF_vars(ChainlinkResumes)

Spec == Init /\ [][Next]_vars /\ Fairness
-----------------------------------------------------------------------------
(* The contracts that are on the chain.                                     *)
OnChain(c) ==
  /\ c[2] \in 1..made[c[1]]
  /\ \A i \in DOMAIN pending : ~(pending[i].op = "deploy" /\ pending[i].to = c)

(* The script has at most one transaction under way beside those that a     *)
(* crash left behind, and what it knows of is on the chain.                 *)
TypeOK ==
  /\ mode \in {"down", "ready", "sending", "waiting"} /\ pc \in DOMAIN mainnetDeploy
  /\ Len(pending) <= crashes + 1
  /\ made \in [Names -> 0..MaxCrashes + 1]
  /\ \A state \in {deploymentState, file} : \A n \in DOMAIN state \ {"uniToken"} :
       n \in Names /\ state[n][1] = n /\ OnChain(state[n])

(* loadOrDeploy and saveDeployment (mainnetDeploymentHelpers.js:45-66):     *)
(* wherever a run ended, the contracts of the file refer to contracts of    *)
(* the file only, and never to one that an earlier run deployed in vain.    *)
WiringIsWhole ==
  \A n \in DOMAIN file : file[n] \in DOMAIN wired =>
    \A c \in wired[file[n]] : c[1] \in DOMAIN file /\ file[c[1]] = c

Connected == {n \in DOMAIN file : file[n] \in DOMAIN wired}

(* mainnetDeploy: everything is deployed in the end, whatever crashes and   *)
(* outages lie between; but the arguments of TroveManagerLiquidations are   *)
(* one too few, so no more is ever connected than what comes before it.     *)
GetsAsFarAsTroveManager ==
  <>[](/\ DOMAIN file = Names
       /\ Connected = {"yusdToken", "yetiToken",
                       "priceFeed", "sortedTroves", "troveManager"})
=============================================================================
