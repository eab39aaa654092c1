---------------------------- MODULE LedgerIndex ----------------------------
(***************************************************************************)
(* The block index of the ledger (core/ledger/blockchain_indexes.go and    *)
(* blockchain_indexes_async.go): by the hash of a block and by the uuid of *)
(* a transaction.  The synchronous indexer writes the index with the       *)
(* block.  The asynchronous one hands the block to a goroutine over an     *)
(* unbuffered channel; a query first waits until the block that was last   *)
(* when it started is indexed, and a restart indexes what is missing.      *)
(*                                                                         *)
(* A block is its number, and a query looks for a transaction of one       *)
(* block.  The processes are the committing thread, the goroutine of the   *)
(* indexer and the clients that query.                                     *)
(***************************************************************************)
EXTENDS Integers, FiniteSets

CONSTANTS
  Clients,
  MaxHeight,           \* bound: blocks committed
  MaxIndexRestarts,    \* bound: restarts
  RestartUnindexed,    \* restarts happen also before block 0 is indexed
  None

ASSUME IndexAssumption == MaxHeight \in Nat /\ None \notin Nat

VARIABLES
  synchronous,  \* indexBlockDataSynchronously
  height,       \* blockCount in the database
  size,         \* blockchain.size, in memory
  committing,   \* the committing thread: idle, status, send
  indexed,      \* blocks whose entries are in IndexesCF
  lastKey,      \* lastIndexedBlockKey in IndexesCF, None when absent
  worker,       \* goroutine: a block number, or None when it waits
  written,      \* the goroutine has written the entries of its block
  lastIndexed,  \* indexerState: lastBlockIndexed, zerothBlockIndexed, err
  zerothIndexed,
  failed,
  query,        \* per client: pc, block asked for, last block to wait for, height at the start
  indexRestarts

indexVars == <<synchronous, height, size, committing, indexed, lastKey, worker, written,
               lastIndexed, zerothIndexed, failed, query, indexRestarts>>
indexerVars == <<indexed, lastKey, worker, written, lastIndexed, zerothIndexed, failed>>
chainVars == <<synchronous, height, size, committing>>

Idle == [pc |-> "idle", block |-> None, last |-> None, from |-> 0]

IndexInit ==
  /\ synchronous \in BOOLEAN
  /\ height = 0 /\ size = 0 /\ committing = "idle"
  /\ indexed = {} /\ lastKey = None
  /\ worker = None /\ written = FALSE
  /\ lastIndexed = 0 /\ zerothIndexed = FALSE /\ failed = FALSE
  /\ query = [c \in Clients |-> Idle]
  /\ indexRestarts = 0

-----------------------------------------------------------------------------
(* The committing thread: addPersistenceChangesForNewBlock and the write,  *)
(* blockPersistenceStatus, createIndexesAsync.                             *)

WriteBlock ==
  /\ committing = "idle"
  /\ height < MaxHeight
  /\ height' = height + 1
  /\ indexed' = IF synchronous THEN indexed \cup {height} ELSE indexed
  /\ committing' = "status"
  /\ UNCHANGED <<synchronous, size, lastKey, worker, written, lastIndexed, zerothIndexed,
                 failed, query, indexRestarts>>

BlockPersistenceStatus ==
  /\ committing = "status"
  /\ size' = size + 1
  /\ committing' = IF synchronous THEN "idle" ELSE "send"
  /\ UNCHANGED <<synchronous, height, indexerVars, query, indexRestarts>>

\* The channel is unbuffered: the send completes when the goroutine receives.
CreateIndexesAsync ==
  /\ committing = "send"
  /\ worker = None
  /\ worker' = size - 1
  /\ written' = FALSE
  /\ committing' = "idle"
  /\ UNCHANGED <<synchronous, height, size, indexed, lastKey, lastIndexed, zerothIndexed,
                 failed, query, indexRestarts>>

-----------------------------------------------------------------------------
(* The goroutine: createIndexesInternal, blockIndexed, setError.           *)

\* A block that arrives after an error is dropped.
SkipBlock ==
  /\ worker # None /\ ~ written /\ failed
  /\ worker' = None
  /\ UNCHANGED <<chainVars, indexed, lastKey, written, lastIndexed, zerothIndexed, failed,
                 query, indexRestarts>>

WriteIndex ==
  /\ worker # None /\ ~ written /\ ~ failed
  /\ indexed' = indexed \cup {worker}
  /\ lastKey' = worker
  /\ written' = TRUE
  /\ UNCHANGED <<chainVars, worker, lastIndexed, zerothIndexed, failed, query, indexRestarts>>

\* The write of the entries fails: setError, which wakes nobody.
WriteIndexFails ==
  /\ worker # None /\ ~ written /\ ~ failed
  /\ failed' = TRUE
  /\ worker' = None
  /\ UNCHANGED <<chainVars, indexed, lastKey, written, lastIndexed, zerothIndexed, query,
                 indexRestarts>>

\* Does not wake the queries.
BlockIndexedSilently ==
  /\ worker # None /\ written
  /\ lastIndexed' = worker
  /\ zerothIndexed' = TRUE
  /\ worker' = None /\ written' = FALSE
  /\ UNCHANGED <<chainVars, indexed, lastKey, failed, query, indexRestarts>>

\* blockIndexed: the Broadcast wakes the queries in Wait.
BlockIndexed ==
  /\ worker # None /\ written
  /\ lastIndexed' = worker
  /\ zerothIndexed' = TRUE
  /\ worker' = None /\ written' = FALSE
  /\ query' = [c \in Clients |->
                 IF query[c].pc = "wait" THEN [query[c] EXCEPT !.pc = "loop"] ELSE query[c]]
  /\ UNCHANGED <<chainVars, indexed, lastKey, failed, indexRestarts>>

-----------------------------------------------------------------------------
(* A query: getTransactionByUUID over fetchTransactionIndexByUUID.         *)

SetQuery(c, q) == query' = [query EXCEPT ![c] = q]

\* checkError, and the size read by waitForLastCommittedBlock.
StartQuery(c, b) ==
  /\ query[c].pc = "idle"
  /\ ~ failed
  /\ LET q == [pc |-> "lock", block |-> b, last |-> size - 1, from |-> size]
     IN SetQuery(c, IF synchronous \/ size = 0 THEN [q EXCEPT !.pc = "fetch"] ELSE q)
  /\ UNCHANGED <<chainVars, indexerVars, indexRestarts>>

\* Under the lock: wait once for block 0.
WaitZeroth(c) ==
  /\ query[c].pc = "lock"
  /\ SetQuery(c, [query[c] EXCEPT !.pc = IF zerothIndexed THEN "loop" ELSE "wait"])
  /\ UNCHANGED <<chainVars, indexerVars, indexRestarts>>

\* Is content with the block before the last committed one.
WaitForLastCommittedBlockOffByOne(c) ==
  /\ query[c].pc = "loop"
  /\ SetQuery(c, [query[c] EXCEPT !.pc = IF lastIndexed + 1 < query[c].last THEN "wait" ELSE "fetch"])
  /\ UNCHANGED <<chainVars, indexerVars, indexRestarts>>

\* The loop around Wait.
WaitForLastCommittedBlock(c) ==
  /\ query[c].pc = "loop"
  /\ SetQuery(c, [query[c] EXCEPT !.pc = IF lastIndexed < query[c].last THEN "wait" ELSE "fetch"])
  /\ UNCHANGED <<chainVars, indexerVars, indexRestarts>>

\* fetchTransactionIndexByUUIDFromDB: found, or ErrResourceNotFound.
FetchFromDB(c) ==
  /\ query[c].pc = "fetch"
  /\ SetQuery(c, [query[c] EXCEPT !.pc = IF query[c].block \in indexed THEN "found" ELSE "missing"])
  /\ UNCHANGED <<chainVars, indexerVars, indexRestarts>>

Answered(c) ==
  /\ query[c].pc \in {"found", "missing"}
  /\ SetQuery(c, Idle)
  /\ UNCHANGED <<chainVars, indexerVars, indexRestarts>>

-----------------------------------------------------------------------------
\* indexPendingBlocks: from the block after the last indexed one; the number
\* is 0 when the index is empty.
PendingBlocks ==
  LET from == IF lastKey = None THEN 0 ELSE lastKey
  IN {n \in 0 .. MaxHeight : n > from /\ n < height}

\* The process stops and starts again: newBlockchain, start.
IndexRestart ==
  /\ indexRestarts < MaxIndexRestarts
  /\ RestartUnindexed \/ synchronous \/ height = 0 \/ lastKey # None
  /\ indexRestarts' = indexRestarts + 1
  /\ size' = height
  /\ committing' = "idle"
  /\ worker' = None /\ written' = FALSE /\ failed' = FALSE
  /\ query' = [c \in Clients |-> Idle]
  /\ IF synchronous
     THEN UNCHANGED <<indexed, lastKey, lastIndexed, zerothIndexed>>
     ELSE LET last == IF PendingBlocks # {} THEN height - 1 ELSE lastKey
          IN /\ indexed' = indexed \cup PendingBlocks
             /\ lastKey' = last
             /\ zerothIndexed' = (last # None)
             /\ lastIndexed' = IF last = None THEN 0 ELSE last
  /\ UNCHANGED <<synchronous, height>>

CommitStep == WriteBlock \/ BlockPersistenceStatus \/ CreateIndexesAsync
IndexerStep == SkipBlock \/ WriteIndex \/ WriteIndexFails \/ BlockIndexed
QueryStep(c) ==
  WaitZeroth(c) \/ WaitForLastCommittedBlock(c) \/ FetchFromDB(c) \/ Answered(c)

IndexNext ==
  \/ CommitStep
  \/ IndexerStep
  \/ \E c \in Clients, b \in 0 .. (MaxHeight - 1) : StartQuery(c, b)
  \/ \E c \in Clients : QueryStep(c)
  \/ IndexRestart

\* Goroutines that can run do run; commits, queries and restarts may or may
\* not come.
IndexFairness ==
  /\ WF_indexVars(BlockPersistenceStatus \/ CreateIndexesAsync)
  /\ WF_indexVars(IndexerStep)
  /\ \A c \in Clients : WF_indexVars(QueryStep(c))

IndexSpec == IndexInit /\ [][IndexNext]_indexVars /\ IndexFairness

-----------------------------------------------------------------------------
IndexTypeOK ==
  /\ height \in 0 .. MaxHeight /\ size \in 0 .. MaxHeight
  /\ indexed \subseteq 0 .. (MaxHeight - 1)
  /\ worker \in {None} \cup (0 .. (MaxHeight - 1))
  /\ lastIndexed \in 0 .. MaxHeight

\* "index query results should include upto block number (or higher) that may
\* have been committed when user query arrives": a query that answers "not
\* found" was asked for a block that was not committed when it arrived.
QuerySeesCommitted ==
  \A c \in Clients : query[c].pc = "missing" => query[c].block >= query[c].from

\* Every query is answered, unless writing the index failed: the wait for the
\* goroutine is not forgotten by a Broadcast that came too early, and the wait
\* for block 0 ends.
QueryAnswered ==
  \A c \in Clients : query[c].pc # "idle" ~> (query[c].pc = "idle" \/ failed)
=============================================================================
