------------------------------- MODULE MCParts -------------------------------
(***************************************************************************)
(* The components around consensus, for TLC.  They share no state, so one  *)
(* run takes them side by side: the initial state chooses the part that    *)
(* moves, the others stay as they start.                                   *)
(***************************************************************************)
EXTENDS Ledger, LedgerIndex, StateTrie, ChaincodeTables, StateTransfer, PeerSync, PeerStart,
        Chaincode, ExampleChaincodes, ObcSieve, ObcBatch, Noops, PeerNet, EventHub,
        ContainerControl, Enrollment, TCertPool, RestApi

CONSTANT Parts   \* the parts examined

VARIABLE part

partsVars == <<part, ledgerVars, indexVars, trieVars, tabVars, stVars, syncVars, startVars, ccVars,
               exVars, sieveVars, batchVars, noopsVars, netVars, eventVars, containerVars,
               enrollVars, poolVars, restVars>>

One(S) == CHOOSE x \in S : TRUE

-----------------------------------------------------------------------------
(* Values of the constants.                                                *)
CONSTANTS c1, c2, p1, p2, p3, u1, u2, u3, v1, v2, r0, r1, r2, r3, m1, m2

MCDataKeys == {<<1,1>>, <<1,2>>, <<2,1>>}
MCHashFunction == [k \in MCDataKeys |-> IF k = <<1,1>> THEN 0 ELSE IF k = <<1,2>> THEN 2 ELSE 1]

MCTrieKeys == {<<1,0,1>>, <<1,0,1,1>>, <<1,2,0,1>>}

Str(x) == [type |-> "string", val |-> x]
Uint32(x) == [type |-> "uint32", val |-> x]
MCTableNames == {<<11>>, <<1, 11>>}
MCTableDefs == {<<[type |-> "string", key |-> TRUE], [type |-> "string", key |-> TRUE]>>,
                <<[type |-> "uint32", key |-> TRUE]>>}
MCTableRows == {<<Str(<<11>>), Str(<<11, 11>>)>>, <<Str(<<11, 11>>), Str(<<11>>)>>, <<Str(<<>>), Str(<<11>>)>>,
                <<Uint32(<<1>>)>>, <<Uint32(<<2>>)>>}

MCTargets == <<2, 3>>

MCGenesisConfigs == {<<>>, <<"ok", "ok">>, <<"ok", "bad">>}

Tx(u, k, c) == [uuid |-> u, kind |-> k, cc |-> c]
CCScript(d, e, q) == [deployed |-> d, work |-> [exec |-> e, query |-> q, inv |-> <<>>]]
MCScripts ==
  {CCScript({}, <<Tx("d1", "deploy", "A")>>, <<Tx("q1", "query", "A")>>),
   CCScript({"B"}, <<Tx("i1", "invoke", "B"), Tx("i2", "invoke", "B")>>, <<>>),
   CCScript({"A", "B"}, <<Tx("n1", "invoke", "A")>>, <<>>),
   CCScript({"B"}, <<Tx("i2", "invoke", "B")>>, <<Tx("q1", "query", "B")>>),
   CCScript({"A", "B"}, <<>>, <<Tx("n2", "query", "A")>>)}
MCFewScripts ==
  {CCScript({"B"}, <<Tx("i1", "invoke", "B"), Tx("i2", "invoke", "B")>>, <<>>),
   CCScript({"A", "B"}, <<Tx("n1", "invoke", "A")>>, <<>>),
   CCScript({"B"}, <<>>, <<Tx("q1", "query", "B")>>)}
MCOps == [d1 |-> {"PUT_STATE"}, q1 |-> {"GET_STATE", "PUT_STATE"}, i1 |-> {"PUT_STATE", "RANGE_QUERY_STATE"},
          i2 |-> {"PUT_STATE"}, n1 |-> {"INVOKE_CHAINCODE"}, n2 |-> {"INVOKE_QUERY", "INVOKE_CHAINCODE"}]

MCBitcoinTxs ==
  {[hash |-> "c", outs |-> <<2, 1>>, ins |-> <<Coinbase>>, signed |-> TRUE],
   [hash |-> "p", outs |-> <<1, 1>>, ins |-> << <<"c", 0>> >>, signed |-> TRUE],
   [hash |-> "q", outs |-> <<3>>, ins |-> << <<"c", 0>>, <<"c", 1>> >>, signed |-> TRUE],
   [hash |-> "d", outs |-> <<2>>, ins |-> << <<"c", 1>>, <<"c", 1>> >>, signed |-> TRUE],
   [hash |-> "u", outs |-> <<1>>, ins |-> << <<"c", 1>> >>, signed |-> FALSE]}

MCPrimaries == <<r0, r1>>
MCOutcome == [x \in Requests \X Replicas |->
                IF x[1] = m2 THEN 4 ELSE IF x[2] = r1 THEN 2 ELSE IF x[2] = r2 THEN 3 ELSE 1]
MCScopes == {[up |-> Replicas, requests |-> {m1}, views |-> 0],
             [up |-> {r0, r1, r2}, requests |-> {m1, m2}, views |-> 0],
             [up |-> {r0, r1, r2}, requests |-> {m1}, views |-> 1]}

MCRoot(x, y, z) == [p \in PeerIds |-> IF p = p1 THEN x ELSE IF p = p2 THEN y ELSE z]
MCNets == {[rootnode |-> MCRoot(p2, NoPeer, NoPeer), streams |-> 3, fails |-> 1, ticks |-> 1, txs |-> 1],
           [rootnode |-> MCRoot(p2, NoPeer, p2), streams |-> 4, fails |-> 0, ticks |-> 2, txs |-> 0],
           [rootnode |-> MCRoot(NoPeer, p3, p2), streams |-> 3, fails |-> 1, ticks |-> 0, txs |-> 1]}
MCFewNets == {[rootnode |-> MCRoot(p2, NoPeer, NoPeer), streams |-> 2, fails |-> 1, ticks |-> 0, txs |-> 1]}

MCInterests == [c \in Consumers |-> IF c = c1 THEN [type \in EventTypes |-> "protobuf"]
                                   ELSE [type \in {"block"} |-> "json"]]

MCReqOf == (1 :> [id |-> m1, do |-> "create"]) @@ (2 :> [id |-> m1, do |-> "start"])
           @@ (3 :> [id |-> m1, do |-> "stop"])

MCNodeKind == v1 :> "validator" @@ v2 :> "validator" @@ c1 :> "client" @@ p1 :> "peer"
MCEnrollCases == {[id |-> v1 :> u1 @@ v2 :> u2, faults |-> 1], [id |-> c1 :> u1 @@ p1 :> u1, faults |-> 0],
                  [id |-> c1 :> u1, faults |-> 3]}

Rest(k, lacks) == [kind |-> k, rpc |-> FALSE, lacks |-> lacks]
Rpc(k, lacks) == [kind |-> k, rpc |-> TRUE, lacks |-> lacks]
MCRestMain ==
  {Rest("Register", {}), Rest("DeleteEnrollmentID", {}), Rest("GetEnrollmentCert", {}), Rest("deploy", {}),
   Rpc("query", {"rpcid"})}
MCRestOnce ==
  {Rest(k, {}) : k \in {"GetEnrollmentID", "GetTransactionCert", "GetBlockchainInfo", "GetBlockByNumber",
                        "GetTransactionByUUID", "invoke", "query"}}
  \cup {Rest(k, {"count"}) : k \in {"GetTransactionCert", "GetBlockByNumber"}}
  \cup {Rest("Register", {"secret"}), Rest("deploy", {"path"}), Rest("query", {"user"}), Rest("invoke", {"ctor"}),
        Rpc("deploy", {}), Rpc("invoke", {}),
        Rpc("deploy", {"name"}), Rpc("query", {"rpcid", "known"}), Rpc("query", {"rpcid", "json"})}
  \cup {Rpc("invoke", {x}) : x \in {"body", "json", "version", "method", "known", "spec", "ctor", "user"}}
RestCase(sec, dev, arrivals) == [secured |-> sec, devMode |-> dev, arrivals |-> arrivals]
MCRestCases ==
  {RestCase(TRUE, FALSE, <<MCRestMain, MCRestMain, MCRestMain>>),
   RestCase(TRUE, FALSE, <<{Rest("Register", {})}, {Rest("GetEnrollmentCert", {})}, {Rest("DeleteEnrollmentID", {})},
                           {Rest("Register", {})}, MCRestMain>>),
   RestCase(TRUE, FALSE, <<{Rest("Register", {})}, MCRestOnce, {Rest("DeleteEnrollmentID", {})}>>),
   RestCase(FALSE, TRUE, <<MCRestOnce>>)}

-----------------------------------------------------------------------------
PartsInit ==
  /\ part \in Parts
  /\ LedgerInit /\ TrieInit /\ TablesInit /\ PSInit /\ NoopsInit /\ EventsInit /\ ContainerInit
  /\ IndexInit /\ (part # "index" => synchronous)
  /\ STInit /\ (part # "transfer" => bsize = One(InitialSizes) /\ RecoverDamage /\ state = Wrong(0)
                                     /\ blk = [n \in BlockNumbers |-> IF n < bsize THEN Agreed(n) ELSE NoBlock])
  /\ StartInit /\ (part # "start" => startConf = One(GenesisConfigs))
  /\ CCInit /\ (part # "chaincode" => work = One(Scripts).work /\ deployed = One(Scripts).deployed)
  /\ ExInit /\ (part # "examples" => exState.hold = [e \in Entities |-> One(Amounts)])
  /\ SieveInit /\ (part # "sieve" => scope = One(Scopes))
  /\ BatchInit /\ (part # "batch" => leads)
  /\ PNInit /\ (part # "net" => net = One(Nets))
  /\ EnrollInit /\ (part # "enroll" => enrollId = One(EnrollCases).id /\ caFaults = One(EnrollCases).faults)
  /\ PoolInit /\ (part # "pool" => poolKind = One(PoolKinds))
  /\ RestInit /\ (part # "rest" => restCase = One(RestCases))

OthersStay ==
  /\ UNCHANGED part
  /\ part # "ledger" => UNCHANGED ledgerVars
  /\ part # "index" => UNCHANGED indexVars
  /\ part # "trie" => UNCHANGED trieVars
  /\ part # "tables" => UNCHANGED tabVars
  /\ part # "transfer" => UNCHANGED stVars
  /\ part # "sync" => UNCHANGED syncVars
  /\ part # "start" => UNCHANGED startVars
  /\ part # "chaincode" => UNCHANGED ccVars
  /\ part # "examples" => UNCHANGED exVars
  /\ part # "sieve" => UNCHANGED sieveVars
  /\ part # "batch" => UNCHANGED batchVars
  /\ part # "noops" => UNCHANGED noopsVars
  /\ part # "net" => UNCHANGED netVars
  /\ part # "events" => UNCHANGED eventVars
  /\ part # "container" => UNCHANGED containerVars
  /\ part # "enroll" => UNCHANGED enrollVars
  /\ part # "pool" => UNCHANGED poolVars
  /\ part # "rest" => UNCHANGED restVars

PartsNext ==
  \/ part = "ledger" /\ LedgerNext /\ OthersStay
  \/ part = "index" /\ IndexNext /\ OthersStay
  \/ part = "trie" /\ TrieNext /\ OthersStay
  \/ part = "tables" /\ TablesNext /\ OthersStay
  \/ part = "transfer" /\ STNext /\ OthersStay
  \/ part = "sync" /\ PSNext /\ OthersStay
  \/ part = "start" /\ StartNext /\ OthersStay
  \/ part = "chaincode" /\ CCNext /\ OthersStay
  \/ part = "examples" /\ ExNext /\ OthersStay
  \/ part = "sieve" /\ SieveNext /\ OthersStay
  \/ part = "batch" /\ BatchNext /\ OthersStay
  \/ part = "noops" /\ NoopsNext /\ OthersStay
  \/ part = "net" /\ PNNext /\ OthersStay
  \/ part = "events" /\ EventsNext /\ OthersStay
  \/ part = "container" /\ ContainerNext /\ OthersStay
  \/ part = "enroll" /\ EnrollNext /\ OthersStay
  \/ part = "pool" /\ PoolNext /\ OthersStay
  \/ part = "rest" /\ RestNext /\ OthersStay

PartsSpec == PartsInit /\ [][PartsNext]_partsVars

\* The fairness of the components' specifications, of the part that moves.
PartsFairSpec ==
  /\ PartsSpec
  /\ WF_indexVars(part = "index" /\ (BlockPersistenceStatus \/ CreateIndexesAsync))
  /\ WF_indexVars(part = "index" /\ IndexerStep)
  /\ \A c \in Clients : WF_indexVars(part = "index" /\ QueryStep(c))
  /\ WF_stVars(part = "transfer" /\ ~stPanic /\ SetInProgress)
  /\ WF_stVars(part = "transfer" /\ ~stPanic /\ AddTarget)
  /\ WF_stVars(part = "transfer" /\ ~stPanic /\ (BlockSyncReq \/ BlockThread))
  /\ WF_stVars(part = "transfer" /\ ~stPanic /\ StateThread)
  /\ \A p \in Peers \ Faulty, n \in SnapshotsAt :
       SF_stVars(part = "transfer" /\ ~stPanic /\ Snapshot(p, n))
  /\ \A x \in Threads : /\ WF_ccVars(part = "chaincode" /\ panicked = nil /\ ThreadStep(x))
                        /\ WF_ccVars(part = "chaincode" /\ panicked = nil /\ StartupTimeout(x))
                        /\ WF_ccVars(part = "chaincode" /\ panicked = nil /\ ExecuteTimeout(x))
  /\ WF_ccVars(part = "chaincode" /\ panicked = nil /\ FinishCall)
  /\ \A n \in Launches : /\ WF_ccVars(part = "chaincode" /\ panicked = nil /\ LoopStep(n))
                         /\ WF_ccVars(part = "chaincode" /\ panicked = nil /\ ServeStep(n))
                         /\ WF_ccVars(part = "chaincode" /\ panicked = nil /\ ShimLoopStep(n))
  /\ WF_batchVars(part = "batch" /\ BatchTimerFires) /\ WF_batchVars(part = "batch" /\ BatchTimerWakes)
  /\ WF_batchVars(part = "batch" /\ batchTimerHander)
  /\ \A t \in Callers : WF_batchVars(part = "batch" /\ RequestBatch(t))
  /\ \A x \in Vals : /\ WF_noopsVars(part = "noops" /\ RecvConsensusTx(x))
                     /\ WF_noopsVars(part = "noops" /\ handleChannels(x))
                     /\ WF_noopsVars(part = "noops" /\ NoopsTimerFires(x))
  /\ \A i \in 1 .. MaxStreams : /\ WF_netVars(part = "net" /\ i \in DOMAIN streams /\ StreamStep(i))
                                /\ WF_netVars(part = "net" /\ i \in DOMAIN streams /\ Closing(i))
  /\ WF_eventVars(part = "events" /\ TakeEvent)
  /\ WF_eventVars(part = "events" /\ \E c \in Consumers : ServeHandler(c))
  /\ \A c \in Consumers : /\ WF_eventVars(part = "events" /\ \E y \in EventTypes : registerHandler(c, y))
                          /\ WF_eventVars(part = "events" /\ SendBack(c))
                          /\ WF_eventVars(part = "events" /\ SetRegistered(c))
  /\ \A r \in Reqs : /\ WF_containerVars(part = "container" /\ GotLock(r))
                     /\ WF_containerVars(part = "container" /\ VmcStep(r))
  /\ WF_poolVars(part = "pool" /\ LoadUnused) /\ WF_poolVars(part = "pool" /\ WakeFiller)
  /\ WF_poolVars(part = "pool" /\ FillerCallsTCA) /\ WF_poolVars(part = "pool" /\ AddTCert)

\* The state of the component that moves is of its type.
PartsTypeOK ==
  CASE part = "ledger" -> LedgerTypeOK
    [] part = "index" -> IndexTypeOK
    [] part = "trie" -> TrieTypeOK
    [] part = "tables" -> TablesTypeOK
    [] part = "transfer" -> STTypeOK
    [] part = "sync" -> PSTypeOK
    [] part = "start" -> StartTypeOK
    [] part = "chaincode" -> CCTypeOK
    [] part = "examples" -> ExTypeOK
    [] part = "sieve" -> SieveTypeOK
    [] part = "batch" -> BatchTypeOK
    [] part = "noops" -> NoopsTypeOK
    [] part = "net" -> PNTypeOK
    [] part = "events" -> EventsTypeOK
    [] part = "container" -> ContainerTypeOK
    [] part = "enroll" -> EnrollTypeOK
    [] part = "pool" -> PoolTypeOK
    [] part = "rest" -> RestTypeOK

-----------------------------------------------------------------------------
(* What the components promise, each for the part that moves.              *)

\* The ledger's copies of its data agree: the cached bucket nodes with the
\* stored ones (CacheCoherent), the chain in memory and the hashes in the
\* blocks with what was committed (ChainConsistent), the iterators with Get
\* (ScanAgreesWithGet).
LedgerCoherent ==
  part = "ledger" => CacheCoherent /\ ChainConsistent /\ ScanAgreesWithGet

\* The incremental trie stands for its key-values alone: it hashes like one
\* built afresh (TrieHashFromScratch) and every way to read it agrees
\* (TrieReadsAgree).
TrieFaithful ==
  part = "trie" => TrieHashFromScratch /\ TrieReadsAgree

\* Rows come back as they were stored: one at a time (RowsAreTheTables) and
\* through the channel of GetRows (RowsDelivered).
TablesFaithful ==
  part = "tables" => RowsAreTheTables /\ RowsDelivered

\* What a requester reads from its channels is one whole answer: a
\* snapshot without a missing or foreign piece (SnapshotComplete), deltas
\* without a gap (DeltasWithoutGap).
SyncFaithful ==
  part = "sync" => SnapshotComplete /\ DeltasWithoutGap

\* The ledgers are those of one history (SieveAgreement), and each replica
\* numbers its next block by its own (BlockNumberCounts).
SieveConsistent ==
  part = "sieve" => SieveAgreement /\ BlockNumberCounts

\* The registered peers are those one really talks to (MapIsEstablished),
\* and consensus hears only from them (SenderKnown).
NetConsistent ==
  part = "net" => MapIsEstablished /\ SenderKnown

\* The table of locks excludes (OneRequestPerContainer) and does not grow
\* (LocksReleased).
ContainersExclusive ==
  part = "container" => OneRequestPerContainer /\ LocksReleased

\* The ECA's tables and the nodes' key stores agree (EnrolmentRecorded),
\* and the ECA's users are unique (OneRowPerUser).
EnrolmentSound ==
  part = "enroll" => EnrolmentRecorded /\ OneRowPerUser

\* Every certificate is used at most once (TCertUsedOnce) and none is lost
\* without a failure (TCertsKept).
TCertsAccounted ==
  part = "pool" => TCertUsedOnce /\ TCertsKept

\* What a leader of batch mode or a NOOPS validator has taken is ordered
\* once: the batches partition what was accepted (BatchesPartitionAccepted),
\* and no transaction is executed again (ExecutedOnce).
BatchersConserve ==
  /\ part = "batch" => BatchesPartitionAccepted
  /\ part = "noops" => ExecutedOnce

\* Concurrent requests of the REST service share clients (ClientsBalanced)
\* and login tokens (LogoutHolds) without harm, and learn what became of
\* their transactions (AnswersTellEffects).
RestSound ==
  part = "rest" => ClientsBalanced /\ LogoutHolds /\ AnswersTellEffects

\* Transactions do not mix: a chaincode runs one at a time
\* (SerialExecution) and their writes stay apart (WritesContained).
ExecutionContained ==
  part = "chaincode" => SerialExecution /\ WritesContained

\* Whatever a leader of batch mode or a NOOPS validator has taken is ordered
\* (BatchSent, EverywhereExecuted).
BatchersProgress == BatchSent /\ EverywhereExecuted

\* Those who wait for an answer get it: the client for the response to its
\* transaction (TransactionReturns), the consumer for its event
\* (EventDelivered), the chaincode support for its container (RequestEnds),
\* the client for new transaction certificates (PoolRefilled).
ServicesAnswer == TransactionReturns /\ EventDelivered /\ RequestEnds /\ PoolRefilled
=============================================================================
