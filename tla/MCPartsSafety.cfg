CONSTANTS
  Parts = {"ledger", "index", "trie", "tables", "transfer", "sync", "start", "chaincode", "examples",
           "sieve", "batch", "noops", "net", "events", "container", "enroll", "pool", "rest"}
  c1 = c1
  c2 = c2
  p1 = p1
  p2 = p2
  p3 = p3
  u1 = u1
  u2 = u2
  u3 = u3
  v1 = v1
  v2 = v2
  r0 = r0
  r1 = r1
  r2 = r2
  r3 = r3
  m1 = m1
  m2 = m2
  Nil = Nil
  nil = nil
  DataKeys <- MCDataKeys
  HashFunction <- MCHashFunction
  NumBuckets = 3
  MaxGrouping = 2
  CacheMax = 5
  DeltaHistorySize = 1
  MaxBlocks = 2
  BatchTx = 2
  TxKeys = 1
  Values = {m1}
  Sync = Sync
  None = None
  Clients = {c1, c2}
  MaxHeight = 2
  MaxIndexRestarts = 1
  RestartUnindexed = FALSE
  TrieKeys <- MCTrieKeys
  TrieValues = {v1, v2}
  MaxTrieDelta = 2
  TrieNil = TrieNil
  TableNames <- MCTableNames
  TableDefs <- MCTableDefs
  TableRows <- MCTableRows
  TablePage = 1
  MaxTableRows = 1
  Peers = {p1, p2}
  Faulty = {p2}
  MaxBlock = 3
  InitialSizes = {0, 1, 3, 4}
  MaxStateDeltas = 2
  blockVerifyChunkSize = 2
  Targets <- MCTargets
  HonestAnswer = TRUE
  SnapshotsAt = {0, 1, 3}
  NoBlock = NoBlock
  ChannelSize = 1
  MaxRequests = 2
  Pieces = 2
  MaxSyncHeight = 1
  GenesisConfigs <- MCGenesisConfigs
  BatchTxs = {m1, m2}
  MaxStartBlocks = 2
  MaxStops = 2
  Chaincodes = {"A", "B"}
  Scripts <- MCScripts
  Ops <- MCOps
  MaxOps = 1
  MaxLaunches = 2
  MaxStartupTimeouts = 9
  MaxExecTimeouts = 9
  MaxCrashes = 1
  BitcoinTxs <- MCBitcoinTxs
  Coinbase = Coinbase
  Assets = {m1}
  Users = {u1, u2}
  Admin = Admin
  Entities = {c1, c2}
  Amounts = {1, 2}
  UintSize = 8
  MaxExamples = 3
  MaxStoreErrors = 1
  Replicas = {r0, r1, r2, r3}
  f = 1
  Primaries <- MCPrimaries
  Requests = {m1, m2}
  Outcome <- MCOutcome
  Movers = {r1}
  Scopes <- MCScopes
  MaxOrder = 2
  Empty0 = none
  BatchThreads = {c1, c2}
  BatchRequests = {r0, r1, r2}
  BatchSize = 2
  MaxViewChanges = 2
  Vals = {v1}
  Txs = {r0, r1, r2, r3}
  BlockSize = 2
  NoopsChannel = 2
  MaxFaults = 1
  NoPeer = none
  PeerIds = {p1, p2, p3}
  Validators = {p2, p3}
  Nets <- MCNets
  MaxChats = 1
  Consumers = {c1, c2}
  EventTypes = {"block", "generic"}
  Interests <- MCInterests
  BufferSize = 1
  SendTimeout = 1
  MaxEvents = 3
  Reqs = {1, 2, 3}
  ReqOf <- MCReqOf
  MaxDockerFaults = 1
  EnrollNodes = {v1, v2, c1, p1}
  NodeKind <- MCNodeKind
  EnrollCases <- MCEnrollCases
  MaxAttempts = 2
  MaxHeld = 1
  NewUser = u3
  PoolKinds = {"mt", "st"}
  Getters = {c1, c2}
  TCertBatchSize = 2
  EmptyShare = 4
  MaxIssued = 4
  MaxPoolFaults = 1
  RestConns = {c1, c2}
  RestUsers = {u1}
  RestCases <- MCRestCases
  MaxDiskFaults = 1
SPECIFICATION PartsSpec
INVARIANT PartsTypeOK
INVARIANT HashIsCurrent
INVARIANT LedgerCoherent
 
 
 
INVARIANT CompletedIsTarget
 
 
INVARIANT ExecutionContained
INVARIANT EntitlementsKept
INVARIANT SieveConsistent
INVARIANT BatchersConserve
INVARIANT NetConsistent
INVARIANT StreamInOrder
INVARIANT ContainersExclusive
 
INVARIANT TCertsAccounted
INVARIANT RestSound
PROPERTY PreviewIsCommitted
PROPERTY StoreImplemented
 
CHECK_DEADLOCK FALSE
