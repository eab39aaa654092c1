------------------------------ MODULE PeerStart ------------------------------
(***************************************************************************)
(* A validating peer from an empty disk to its first blocks: the creation  *)
(* and opening of the database (core/db/db.go), the genesis block          *)
(* (core/ledger/genesis/genesis.go) and the transaction batches the        *)
(* consensus plugin runs through the helper (consensus/helper/helper.go).  *)
(*                                                                         *)
(* The main goroutine makes the genesis block while the helper is already  *)
(* in use: both share the one open batch of the ledger.  The process may   *)
(* end at any step and be started again.  A transaction is a name, and its *)
(* effect on the state is that it was executed.                            *)
(***************************************************************************)
EXTENDS Integers, Sequences, FiniteSets

CONSTANTS
  GenesisConfigs,  \* sequences of "ok" / "bad": the chaincodes of core.yaml
  BatchTxs,        \* transactions the plugin may execute
  MaxStartBlocks,  \* bound: blocks
  MaxStops         \* bound: times the process ends, or a write fails

VARIABLES
  dbFamilies,   \* column families on disk; {}: the directory is missing
  startPC,      \* the main goroutine: where it is, and what is left to do
  startConf,    \* ledger.blockchain.genesisBlock
  pluginPC,     \* the plugin: "idle", "batch", or the steps of DeleteState left
  batchID,      \* ledger.currentID
  batchDone,    \* ghost: transactions executed in the open batch
  curBatch,     \* Helper.curBatch
  startChain,   \* blocks: [listed, done]: their transactions, and those executed
  startRaced,   \* ghost: the helper began a batch before MakeGenesis returned,
                \* or the write of the genesis block failed
  startStops    \* stops so far

startVars == <<dbFamilies, startPC, startConf, pluginPC, batchID, batchDone, curBatch,
               startChain, startRaced, startStops>>

columnfamilies == <<"blockchainCF", "stateCF", "stateDeltaCF", "indexesCF">>

AllFamilies == {"default"} \cup {columnfamilies[i] : i \in DOMAIN columnfamilies}

MainIs(at, todo) == startPC' = [at |-> at, todo |-> todo]

StartInit ==
  /\ dbFamilies = {} /\ startConf \in GenesisConfigs
  /\ startPC = [at |-> "down", todo |-> <<>>]
  /\ pluginPC = <<"idle">> /\ batchID = "none" /\ batchDone = {} /\ curBatch = <<>>
  /\ startChain = <<>> /\ startRaced = FALSE /\ startStops = 0

\* createDBIfDBPathEmpty: a directory that is not empty is taken as it is.
createDBIfDBPathEmpty ==
  /\ startPC.at = "down"
  /\ IF dbFamilies = {}
     THEN /\ dbFamilies' = {"default"} /\ MainIs("create", columnfamilies)
     ELSE MainIs("open", <<>>) /\ UNCHANGED dbFamilies
  /\ UNCHANGED <<startConf, pluginPC, batchID, batchDone, curBatch, startChain, startRaced, startStops>>

\* CreateDB makes the families one by one.
CreateColumnFamily ==
  /\ startPC.at = "create" /\ startPC.todo # <<>>
  /\ dbFamilies' = dbFamilies \cup {Head(startPC.todo)}
  /\ IF Tail(startPC.todo) = <<>> THEN MainIs("open", <<>>) ELSE MainIs("create", Tail(startPC.todo))
  /\ UNCHANGED <<startConf, pluginPC, batchID, batchDone, curBatch, startChain, startRaced, startStops>>

\* openDB wants every family; GetDBHandle panics when it fails.
openDB ==
  /\ startPC.at = "open"
  /\ IF dbFamilies = AllFamilies THEN MainIs("genesis", <<>>) ELSE MainIs("down", <<>>)
  /\ UNCHANGED <<dbFamilies, startConf, pluginPC, batchID, batchDone, curBatch, startChain,
                 startRaced, startStops>>

\* MakeGenesis: nothing to do when there are blocks; the error of
\* BeginTxBatch is ignored.
MakeGenesis ==
  /\ startPC.at = "genesis"
  /\ IF startChain # <<>> THEN MainIs("up", <<>>) /\ UNCHANGED batchID
     ELSE /\ MainIs("deploy", startConf)
          /\ batchID' = IF batchID = "none" THEN "genesis" ELSE batchID
  /\ UNCHANGED <<dbFamilies, startConf, pluginPC, batchDone, curBatch, startChain, startRaced, startStops>>

\* The i-th chaincode of the configuration, as a transaction.
GenesisTx(i) == <<"genesis", i>>

\* The memory of the process.
Forget == /\ pluginPC' = <<"idle">> /\ batchID' = "none" /\ batchDone' = {} /\ curBatch' = <<>>

\* DeployLocal of the next chaincode; on an error main returns.
DeployLocal ==
  LET i == Len(startConf) - Len(startPC.todo) + 1 IN
  /\ startPC.at = "deploy" /\ startPC.todo # <<>>
  /\ IF Head(startPC.todo) = "bad" THEN MainIs("down", <<>>) /\ Forget
     ELSE /\ MainIs("deploy", Tail(startPC.todo)) /\ batchDone' = batchDone \cup {GenesisTx(i)}
          /\ UNCHANGED <<pluginPC, batchID, curBatch>>
  /\ UNCHANGED <<dbFamilies, startConf, startChain, startRaced, startStops>>

\* CommitTxBatch of the ledger, in a batch of that id.
CommitBlock(id, listed) ==
  /\ batchID = id
  /\ startChain' = Append(startChain, [listed |-> listed, done |-> batchDone])
  /\ batchID' = "none" /\ batchDone' = {}

\* The end of MakeGenesis; the error of CommitTxBatch is ignored, that the
\* batch is the plugin's and that the write failed alike.
CommitGenesis ==
  /\ startPC.at = "deploy" /\ startPC.todo = <<>> /\ MainIs("up", <<>>)
  /\ \/ /\ CommitBlock("genesis", {GenesisTx(i) : i \in DOMAIN startConf})
        /\ UNCHANGED <<startRaced, startStops>>
     \/ /\ batchID = "genesis" /\ startStops < MaxStops /\ startStops' = startStops + 1
        /\ batchID' = "none" /\ batchDone' = {} /\ startRaced' = TRUE /\ UNCHANGED startChain
     \/ batchID # "genesis" /\ UNCHANGED <<startChain, batchID, batchDone, startRaced, startStops>>
  /\ UNCHANGED <<dbFamilies, startConf, pluginPC, curBatch>>

-----------------------------------------------------------------------------
(* The helper, called by one goroutine of the plugin.                      *)

Serving == startPC.at \in {"genesis", "deploy", "up"}

\* Does not reset curBatch.
HelperBeginKeepsBatch ==
  /\ Serving /\ pluginPC = <<"idle">> /\ batchID = "none" /\ Len(startChain) < MaxStartBlocks
  /\ batchID' = "plugin" /\ pluginPC' = <<"batch">>
  /\ startRaced' = (startRaced \/ startPC.at # "up")
  /\ UNCHANGED <<dbFamilies, startPC, startConf, batchDone, curBatch, startChain, startStops>>

HelperBegin ==
  /\ Serving /\ pluginPC = <<"idle">> /\ batchID = "none" /\ Len(startChain) < MaxStartBlocks
  /\ batchID' = "plugin" /\ curBatch' = <<>> /\ pluginPC' = <<"batch">>
  /\ startRaced' = (startRaced \/ startPC.at # "up")
  /\ UNCHANGED <<dbFamilies, startPC, startConf, batchDone, startChain, startStops>>

ExecTxs(t) ==
  /\ Serving /\ pluginPC = <<"batch">> /\ t \notin batchDone
  /\ batchDone' = batchDone \cup {t} /\ curBatch' = Append(curBatch, t)
  /\ UNCHANGED <<dbFamilies, startPC, startConf, pluginPC, batchID, startChain, startRaced, startStops>>

HelperCommit ==
  /\ Serving /\ pluginPC = <<"batch">>
  /\ CommitBlock("plugin", {curBatch[i] : i \in DOMAIN curBatch})
  /\ curBatch' = <<>> /\ pluginPC' = <<"idle">>
  /\ UNCHANGED <<dbFamilies, startPC, startConf, startRaced, startStops>>

\* The write fails: the ledger drops the batch, the helper keeps curBatch (and
\* the roll back the plugin then asks for is refused).
CommitFails ==
  /\ Serving /\ pluginPC = <<"batch">> /\ startStops < MaxStops
  /\ startStops' = startStops + 1 /\ pluginPC' = <<"idle">> /\ batchID' = "none" /\ batchDone' = {}
  /\ UNCHANGED <<dbFamilies, startPC, startConf, curBatch, startChain, startRaced>>

HelperRollback ==
  /\ Serving /\ pluginPC = <<"batch">>
  /\ pluginPC' = <<"idle">> /\ batchID' = "none" /\ batchDone' = {} /\ curBatch' = <<>>
  /\ UNCHANGED <<dbFamilies, startPC, startConf, startChain, startRaced, startStops>>

\* EmptyState: DeleteState of the database drops and makes two families.
EmptyState ==
  /\ startPC.at = "up" /\ pluginPC = <<"idle">> /\ startStops < MaxStops
  /\ pluginPC' = <<"drop", "dropDelta", "make", "makeDelta">>
  /\ UNCHANGED <<dbFamilies, startPC, startConf, batchID, batchDone, curBatch, startChain,
                 startRaced, startStops>>

DeleteState ==
  LET step == Head(pluginPC)
      family == IF step \in {"drop", "make"} THEN "stateCF" ELSE "stateDeltaCF"
  IN  /\ step \in {"drop", "dropDelta", "make", "makeDelta"} /\ startPC.at = "up"
      /\ dbFamilies' = IF step \in {"make", "makeDelta"} THEN dbFamilies \cup {family}
                       ELSE dbFamilies \ {family}
      /\ pluginPC' = IF Tail(pluginPC) = <<>> THEN <<"idle">> ELSE Tail(pluginPC)
      /\ UNCHANGED <<startPC, startConf, batchID, batchDone, curBatch, startChain, startRaced, startStops>>

\* The process ends; what was not written is lost.
StopPeer ==
  /\ startPC.at # "down" /\ startStops < MaxStops
  /\ startStops' = startStops + 1 /\ MainIs("down", <<>>) /\ Forget
  /\ UNCHANGED <<dbFamilies, startConf, startChain, startRaced>>

StartNext ==
  \/ createDBIfDBPathEmpty
  \/ CreateColumnFamily
  \/ openDB
  \/ MakeGenesis
  \/ DeployLocal
  \/ CommitGenesis
  \/ HelperBegin
  \/ \E t \in BatchTxs : ExecTxs(t)
  \/ HelperCommit
  \/ CommitFails
  \/ HelperRollback
  \/ EmptyState
  \/ DeleteState
  \/ StopPeer

StartSpec == StartInit /\ [][StartNext]_startVars

-----------------------------------------------------------------------------
StartTypeOK ==
  /\ dbFamilies \subseteq AllFamilies /\ startConf \in GenesisConfigs
  /\ startPC.at \in {"down", "create", "open", "genesis", "deploy", "up"}
  /\ batchID \in {"none", "genesis", "plugin"}
  /\ {curBatch[i] : i \in DOMAIN curBatch} \subseteq BatchTxs
  /\ Len(startChain) <= MaxStartBlocks /\ startStops \in 0 .. MaxStops

\* Blocks tell how the state came about: whatever fails or stops on the way,
\* each block lists exactly the transactions whose effects were committed with
\* it, and the chain begins with the whole configured genesis.  It needs the
\* plugin to leave the ledger alone until MakeGenesis has returned and the
\* write of the genesis block to succeed, which nothing in the code ensures
\* (both errors of its batch are ignored).
ChainRecordsExecution ==
  ~startRaced =>
    /\ \A n \in DOMAIN startChain : startChain[n].listed = startChain[n].done
    /\ startChain # <<>> =>
         startChain[1].listed = {GenesisTx(i) : i \in DOMAIN startConf}
=============================================================================
