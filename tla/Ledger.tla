------------------------------- MODULE Ledger -------------------------------
(***************************************************************************)
(* The ledger of one peer (core/ledger/ledger.go, blockchain.go) over the  *)
(* world state and the bucket tree: batches of transactions that are       *)
(* committed or rolled back, deltas of blocks that are played backwards    *)
(* and forwards, writes that fail, and restarts.                           *)
(*                                                                         *)
(* The database (rocksdb) writes a batch of changes atomically; a write    *)
(* may fail, which leaves it unchanged.  A block is                        *)
(* [id, previousBlockHash, stateHash], id standing for its transactions    *)
(* and metadata, and is its own hash.  The batch that is to become block n *)
(* has id n; a delta is applied under the id Sync.                         *)
(*                                                                         *)
(* The ledger "is not thread safe": its callers, the executor of the       *)
(* consensus plugin and the state transfer, call it one at a time.         *)
(***************************************************************************)
EXTENDS WorldState

CONSTANTS
  MaxBlocks,    \* bound: blocks committed
  BatchTx,      \* bound: transactions of a batch
  TxKeys,       \* bound: keys a transaction changes
  Values,       \* values written
  Sync          \* the id under which deltas are applied

VARIABLES
  db,        \* the database: blocks, blockCount, data, nodes, deltas
  chain,     \* blockchain: size and previousBlockHash, in memory
  currentID, \* ledger.currentID
  st, impl,  \* ledger.state and its stateImpl
  txs,       \* transactions begun in this batch (environment)
  versions,  \* history: the data after each committed block
  at,        \* history: the version the data is meant to be
  preview,   \* history: the last preview block, Nil once the batch changed
  deltaLost  \* the write of a delta failed: the transfer has invalidated the state

ledgerVars == <<db, chain, currentID, st, impl, txs, versions, at, preview, deltaLost>>

EmptyDB == [blocks |-> <<>>, blockCount |-> 0, data |-> NoNodes, nodes |-> NoNodes,
            deltas |-> [n \in {} |-> EmptyDelta]]

\* newBlockchain: size and hash of the last block, from the database.
NewBlockchain(d) ==
  [size |-> d.blockCount,
   previousBlockHash |-> IF d.blockCount > 0 THEN d.blocks[d.blockCount] ELSE Nil]

LedgerInit ==
  /\ db = EmptyDB
  /\ chain = NewBlockchain(EmptyDB)
  /\ currentID = Nil
  /\ st = NewState
  /\ impl = InitializeImpl(EmptyDB)
  /\ txs = 0
  /\ versions = <<>>
  /\ at = 0
  /\ preview = Nil
  /\ deltaLost = FALSE

\* buildBlock.
BuildBlock(id, stateHash) ==
  [id |-> id, previousBlockHash |-> chain.previousBlockHash, stateHash |-> stateHash]

-----------------------------------------------------------------------------
BeginTxBatch ==
  /\ currentID = Nil
  /\ at = chain.size /\ ~ deltaLost
  /\ chain.size < MaxBlocks
  /\ currentID' = chain.size
  /\ txs' = 0
  /\ preview' = Nil
  /\ UNCHANGED <<db, chain, st, impl, versions, at, deltaLost>>

TxBegin ==
  /\ currentID \notin {Nil, Sync}
  /\ ~ txInProgress(st)
  /\ txs < BatchTx
  /\ txs' = txs + 1
  /\ st' = StateTxBegin(st, txs')
  /\ UNCHANGED <<db, chain, currentID, impl, versions, at, preview, deltaLost>>

\* SetState, and DeleteState with value Nil.
SetState(k, value) ==
  /\ txInProgress(st)
  /\ Cardinality(DOMAIN st.currentTxStateDelta \cup {k}) <= TxKeys
  /\ st' = StateSet(st, db.data, k, value)
  /\ UNCHANGED <<db, chain, currentID, impl, txs, versions, at, preview, deltaLost>>

TxFinished(successful) ==
  /\ txInProgress(st)
  /\ st' = StateTxFinish(st, st.currentTxUUID, successful)
  /\ preview' = Nil
  /\ UNCHANGED <<db, chain, currentID, impl, txs, versions, at, deltaLost>>

\* GetTempStateHash, GetTempStateHashWithTxDeltaStateHashes.
GetTempStateHash ==
  /\ currentID \notin {Nil, Sync}
  /\ ~ txInProgress(st)
  /\ impl' = StateGetHash(st, impl, db)
  /\ st' = Updated(st)
  /\ UNCHANGED <<db, chain, currentID, txs, versions, at, preview, deltaLost>>

\* Builds the block before the hash is computed.
GetTXBatchPreviewBlockEarly ==
  /\ currentID \notin {Nil, Sync}
  /\ ~ txInProgress(st)
  /\ preview' = BuildBlock(currentID, impl.lastComputedCryptoHash)
  /\ impl' = StateGetHash(st, impl, db)
  /\ st' = Updated(st)
  /\ UNCHANGED <<db, chain, currentID, txs, versions, at, deltaLost>>

GetTXBatchPreviewBlock ==
  /\ currentID \notin {Nil, Sync}
  /\ ~ txInProgress(st)
  /\ impl' = StateGetHash(st, impl, db)
  /\ st' = Updated(st)
  /\ preview' = BuildBlock(currentID, impl'.lastComputedCryptoHash)
  /\ UNCHANGED <<db, chain, currentID, txs, versions, at, deltaLost>>

\* resetForNextTxGroup.
ResetForNextTxGroup(hashed, committed) ==
  /\ currentID' = Nil
  /\ st' = ClearState(Updated(st))
  /\ \E order \in VisitOrders(hashed.bucketTreeDelta) :
       impl' = ClearWorkingSet(hashed, committed, order)
  /\ txs' = 0

\* CommitTxBatch: the block, the changed state and the delta are one write;
\* blockPersistenceStatus moves the blockchain when it succeeded.
CommitTxBatch(written) ==
  LET hashed == StateGetHash(st, impl, db)
      block  == BuildBlock(currentID, hashed.lastComputedCryptoHash)
      n      == chain.size
  IN /\ currentID \notin {Nil, Sync}
     /\ ~ txInProgress(st)
     /\ ResetForNextTxGroup(hashed, written)
     /\ IF written
        THEN /\ db' = [PersistNodes(hashed, db) EXCEPT
                         !.blocks     = Append(@, block),
                         !.blockCount = n + 1,
                         !.deltas     = AddStateDelta(@, n, st.stateDelta)]
             /\ chain' = [size |-> n + 1, previousBlockHash |-> block]
             /\ versions' = Append(versions, [k \in DataKeys |-> StateGet(st, db.data, k, FALSE)])
             /\ at' = at + 1
        ELSE UNCHANGED <<db, chain, versions, at>>
     /\ preview' = Nil
     /\ UNCHANGED deltaLost

RollbackTxBatch ==
  /\ currentID \notin {Nil, Sync}
  /\ ~ txInProgress(st)
  /\ currentID' = Nil
  /\ st' = ClearState(st)
  /\ impl' = ClearWorkingSet(impl, FALSE, <<>>)
  /\ txs' = 0
  /\ preview' = Nil
  /\ UNCHANGED <<db, chain, versions, at, deltaLost>>

\* ApplyStateDelta: the state transfer plays the delta of the block it is at
\* backwards, or that of the next block forwards.
ApplyStateDelta(back) ==
  LET n == IF back THEN at - 1 ELSE at
  IN /\ currentID = Nil /\ ~ deltaLost
     /\ n \in DOMAIN db.deltas
     /\ currentID' = Sync
     /\ st' = StateApplyStateDelta(st, db.deltas[n], back)
     /\ UNCHANGED <<db, chain, impl, txs, versions, at, preview, deltaLost>>

\* CommitStateDelta: resetForNextTxGroup(true) is deferred, and runs when the
\* write failed as well.  The transfer then gives the state up for a snapshot
\* (StateTransfer), and uses neither deltas nor batches before.
CommitStateDelta(written) ==
  LET hashed == ComputeCryptoHash(UpdateImpl(st, impl), db)
  IN /\ currentID = Sync
     /\ ResetForNextTxGroup(hashed, TRUE)
     /\ IF written
        THEN /\ db' = PersistNodes(hashed, db)
             /\ at' = IF st.rollBackwards THEN at - 1 ELSE at + 1
             /\ UNCHANGED deltaLost
        ELSE deltaLost' = TRUE /\ UNCHANGED <<db, at>>
     /\ UNCHANGED <<chain, versions, preview>>

RollbackStateDelta ==
  /\ currentID = Sync
  /\ currentID' = Nil
  /\ st' = ClearState(st)
  /\ impl' = ClearWorkingSet(impl, FALSE, <<>>)
  /\ UNCHANGED <<db, chain, txs, versions, at, preview, deltaLost>>

\* The process stops at any point and starts again: newLedger, NewState,
\* Initialize.
Restart ==
  /\ chain' = NewBlockchain(db)
  /\ currentID' = Nil
  /\ st' = NewState
  /\ impl' = InitializeImpl(db)
  /\ txs' = 0
  /\ preview' = Nil
  /\ deltaLost' = FALSE
  /\ UNCHANGED <<db, versions, at>>

LedgerNext ==
  \/ BeginTxBatch
  \/ TxBegin
  \/ \E k \in DataKeys, v \in Values \cup {Nil} : SetState(k, v)
  \/ \E ok \in BOOLEAN : TxFinished(ok)
  \/ GetTempStateHash
  \/ GetTXBatchPreviewBlock
  \/ \E ok \in BOOLEAN : CommitTxBatch(ok)
  \/ RollbackTxBatch
  \/ \E back \in BOOLEAN : ApplyStateDelta(back)
  \/ \E ok \in BOOLEAN : CommitStateDelta(ok)
  \/ RollbackStateDelta
  \/ Restart

LedgerSpec == LedgerInit /\ [][LedgerNext]_ledgerVars

-----------------------------------------------------------------------------
DeltaOK(d) == DOMAIN d \subseteq DataKeys

LedgerTypeOK ==
  /\ db.blockCount \in 0 .. MaxBlocks /\ Len(db.blocks) = db.blockCount
  /\ DOMAIN db.data \subseteq DataKeys
  /\ chain.size \in 0 .. MaxBlocks
  /\ currentID \in {Nil, Sync} \cup (0 .. MaxBlocks)
  /\ DeltaOK(st.stateDelta) /\ DeltaOK(st.currentTxStateDelta)
  /\ txs \in 0 .. BatchTx
  /\ at \in 0 .. MaxBlocks

\* The hash the state reports is that of the state it would store: whenever
\* nothing waits to be handed to the bucket tree, lastComputedCryptoHash is
\* the hash, computed from nothing, of the stored data with the changes of
\* the batch.  (state.go GetHash, buckettree ComputeCryptoHash: the hash is
\* recomputed only along changed paths, from cached bucket nodes, and only
\* when a flag says so.)  Not while the write of a delta has failed: the
\* tree and its cache then hold what CommitStateDelta never stored.
HashIsCurrent ==
  LET updates == DeltaUpdates(st.stateDelta, st.rollBackwards)
      now == [k \in {k \in DOMAIN db.data \cup DOMAIN updates :
                        (IF k \in DOMAIN updates THEN updates[k] ELSE db.data[k]) # Nil} |->
                IF k \in DOMAIN updates THEN updates[k] ELSE db.data[k]]
  IN ~ deltaLost /\ ~ st.updateStateImpl /\ ~ impl.recomputeCryptoHash
       => impl.lastComputedCryptoHash = HashOf(now)

\* A bucket node in the cache is the stored one: after a commit, a failed
\* write, a rollback, a delta or a restart the cache never shadows a newer
\* node.  (bucket_cache.go, with entries refused and evicted at the limit.)
\* The failed write of a delta is the exception.
CacheCoherent ==
  ~ deltaLost =>
    \A b \in DOMAIN impl.bucketCache.c :
      b \in DOMAIN db.nodes /\ impl.bucketCache.c[b] = db.nodes[b]

\* "GetTXBatchPreviewBlock returns a preview block that will have the same
\* block.GetHash() result as the block commited" when no transaction changed
\* the state in between, whatever hashes were taken meanwhile.
PreviewIsCommitted ==
  [][db'.blockCount > db.blockCount
       => preview = Nil \/ preview = db'.blocks[db'.blockCount]]_ledgerVars

\* Each block holds the hash of its predecessor and the hash of the state
\* that was committed with it; the tip kept in memory is the stored one.
ChainConsistent ==
  /\ chain = NewBlockchain(db)
  /\ \A n \in 1 .. db.blockCount :
       /\ db.blocks[n].id = n - 1
       /\ db.blocks[n].previousBlockHash = (IF n = 1 THEN Nil ELSE db.blocks[n - 1])
       /\ db.blocks[n].stateHash =
            HashOf([k \in {k \in DataKeys : versions[n][k] # Nil} |-> versions[n][k]])

\* A range scan returns what Get returns for the keys of the range, in the
\* transaction (through the composite iterator) and for a committed read
\* (through the bucket by bucket iterator of the tree).
ScanAgreesWithGet ==
  \A c \in {k[1] : k \in DataKeys}, lo \in {k[2] : k \in DataKeys},
     hi \in {k[2] : k \in DataKeys} \cup {Nil} :
    LET ks == {k \in DataKeys : InRange(k, c, lo, hi)}
        expected(committed) ==
          {<<k, StateGet(st, db.data, k, committed)>> :
             k \in {k \in ks : StateGet(st, db.data, k, committed) # Nil}}
    IN /\ CompositeScan(st, db.data, c, lo, hi) = expected(FALSE)
       /\ {<<k, db.data[k]>> : k \in RangeScan(db.data, c, lo, hi)} = expected(TRUE)

\* The ledger implements the store with versions of StateStore: a batch is
\* committed as a whole or not at all, and the delta of a block, played
\* backwards or forwards, restores exactly the version before or after it.
Store == INSTANCE StateStore WITH
  Keys     <- DataKeys,
  Absent   <- Nil,
  content  <- [k \in DataKeys |-> Stored(db.data, k)],
  pending  <- IF currentID = Sync THEN EmptyDelta ELSE DeltaUpdates(st.stateDelta, FALSE)

StoreImplemented == Store!StoreSpec
=============================================================================
