------------------------- MODULE LedgerIndexProofs -------------------------
(***************************************************************************)
(* Proofs about LedgerIndex: a query never misses a block that was         *)
(* committed when it arrived, for any number of blocks, clients, failures  *)
(* and restarts, provided that no restart comes before block 0 is indexed. *)
(***************************************************************************)
EXTENDS LedgerIndex, TLAPS

\* The blocks that the committing thread has handed to the goroutine.
Sent == IF committing = "send" THEN size - 1 ELSE size

Queries == [pc : {"idle", "lock", "wait", "loop", "fetch", "found", "missing"},
            block : Nat \cup {None}, last : Int \cup {None}, from : Nat]

IndexTyped ==
  /\ synchronous \in BOOLEAN /\ written \in BOOLEAN /\ zerothIndexed \in BOOLEAN /\ failed \in BOOLEAN
  /\ height \in 0 .. MaxHeight /\ size \in Nat
  /\ committing \in {"idle", "status", "send"}
  /\ indexed \subseteq Nat
  /\ lastKey \in Nat \cup {None} /\ worker \in Nat \cup {None}
  /\ lastIndexed \in Nat
  /\ query \in [Clients -> Queries]

\* The size in memory is behind the database between the two steps of a
\* commit only.
SizeInv ==
  /\ height = IF committing = "status" THEN size + 1 ELSE size
  /\ committing = "send" => size > 0

\* A synchronous index has every block.
SyncInv ==
  synchronous =>
    committing # "send" /\ worker = None /\ ~written /\ \A n \in Nat : n < height => n \in indexed

\* What the goroutine has, what it has written, what it has announced, and
\* what lastIndexedBlockKey says.
GoroutineInv ==
  ~synchronous =>
    /\ worker # None => worker = Sent - 1
    /\ written => worker # None /\ ~failed
    /\ ~failed => \A n \in Nat : n < Sent => n \in indexed \/ (n = worker /\ ~written)
    /\ lastKey # None => lastKey < height /\ \A n \in Nat : n <= lastKey => n \in indexed
    /\ zerothIndexed => \A n \in Nat : n <= lastIndexed => n \in indexed

\* A query that has stopped waiting finds every block committed before it.
QueryInv ==
  \A c \in Clients :
    /\ query[c].pc \in {"lock", "wait", "loop"} => ~synchronous /\ query[c].last = query[c].from - 1
    /\ query[c].pc = "loop" => zerothIndexed
    /\ query[c].pc = "fetch" => /\ \A n \in Nat : n < query[c].from => n \in indexed
                                /\ query[c].block \in Nat
    /\ query[c].pc \in {"lock", "wait", "loop"} => query[c].block \in Nat
    /\ query[c].pc = "missing" => query[c].block \in Nat /\ query[c].block >= query[c].from

IndexInv == IndexTyped /\ SizeInv /\ SyncInv /\ GoroutineInv /\ QueryInv

\* The invariant holds when the ledger is opened for the first time.
LEMMA IndexInitInv == IndexInit => IndexInv
<1> SUFFICES ASSUME IndexInit PROVE IndexInv OBVIOUS
<1>1. query \in [Clients -> Queries] /\ \A c \in Clients : query[c].pc = "idle"
  BY DEF IndexInit, Idle, Queries
<1>2. IndexTyped
  <2>1. lastKey \in Nat \cup {None} /\ worker \in Nat \cup {None} BY DEF IndexInit
  <2>2. height \in 0 .. MaxHeight BY IndexAssumption DEF IndexInit
  <2> QED BY <1>1, <2>1, <2>2 DEF IndexInit, IndexTyped
<1>3. SizeInv /\ SyncInv /\ GoroutineInv
  BY IndexAssumption DEF IndexInit, SizeInv, SyncInv, GoroutineInv, Sent
<1>4. QueryInv BY <1>1 DEF QueryInv
<1> QED BY <1>2, <1>3, <1>4 DEF IndexInv

\* Steps of the committing thread (addPersistenceChangesForNewBlock,
\* blockPersistenceStatus, createIndexesAsync) keep the invariant.
LEMMA CommitKeeps == IndexInv /\ CommitStep => IndexInv'
<1> SUFFICES ASSUME IndexInv, CommitStep PROVE IndexInv' OBVIOUS
<1> USE IndexAssumption DEF IndexInv
<1>1. CASE WriteBlock
  <2>1. IndexTyped' BY <1>1 DEF WriteBlock, IndexTyped
  <2>2. SizeInv' BY <1>1 DEF WriteBlock, SizeInv, IndexTyped
  <2>3. SyncInv' BY <1>1 DEF WriteBlock, SyncInv, SizeInv, IndexTyped
  <2>4. GoroutineInv' BY <1>1 DEF WriteBlock, GoroutineInv, Sent, SizeInv, IndexTyped
  <2>5. QueryInv' BY <1>1 DEF WriteBlock, QueryInv
  <2> QED BY <2>1, <2>2, <2>3, <2>4, <2>5
<1>2. CASE BlockPersistenceStatus
  <2>1. IndexTyped' BY <1>2 DEF BlockPersistenceStatus, indexerVars, IndexTyped
  <2>2. SizeInv' BY <1>2 DEF BlockPersistenceStatus, SizeInv, IndexTyped
  <2>3. SyncInv' BY <1>2 DEF BlockPersistenceStatus, indexerVars, SyncInv
  <2>4. GoroutineInv'
    BY <1>2 DEF BlockPersistenceStatus, indexerVars, GoroutineInv, Sent, IndexTyped
  <2>5. QueryInv' BY <1>2 DEF BlockPersistenceStatus, indexerVars, QueryInv
  <2> QED BY <2>1, <2>2, <2>3, <2>4, <2>5
<1>3. CASE CreateIndexesAsync
  <2>1. IndexTyped'
    <3>1. size - 1 \in Nat BY <1>3 DEF CreateIndexesAsync, IndexTyped, SizeInv
    <3>2. worker' \in Nat \cup {None} BY <3>1, <1>3 DEF CreateIndexesAsync
    <3> QED BY <3>2, <1>3 DEF CreateIndexesAsync, IndexTyped
  <2>2. SizeInv' BY <1>3 DEF CreateIndexesAsync, SizeInv
  <2>3. SyncInv' BY <1>3 DEF CreateIndexesAsync, SyncInv
  <2>4. GoroutineInv'
    BY <1>3 DEF CreateIndexesAsync, GoroutineInv, SyncInv, SizeInv, Sent, IndexTyped
  <2>5. QueryInv' BY <1>3 DEF CreateIndexesAsync, QueryInv
  <2> QED BY <2>1, <2>2, <2>3, <2>4, <2>5
<1> QED BY <1>1, <1>2, <1>3 DEF CommitStep

\* Steps of the goroutine (createIndexesInternal, blockIndexed, setError)
\* keep the invariant.
LEMMA IndexerKeeps == IndexInv /\ IndexerStep => IndexInv'
<1> SUFFICES ASSUME IndexInv, IndexerStep PROVE IndexInv' OBVIOUS
<1> USE IndexAssumption DEF IndexInv, chainVars
<1>0. ~synchronous BY DEF IndexerStep, SkipBlock, WriteIndex, WriteIndexFails, BlockIndexed, SyncInv
<1>1. CASE SkipBlock
  <2>1. IndexTyped' BY <1>1 DEF SkipBlock, IndexTyped
  <2>2. SizeInv' /\ SyncInv' BY <1>1, <1>0 DEF SkipBlock, SizeInv, SyncInv
  <2>3. GoroutineInv' BY <1>1 DEF SkipBlock, GoroutineInv, Sent
  <2>4. QueryInv' BY <1>1 DEF SkipBlock, QueryInv
  <2> QED BY <2>1, <2>2, <2>3, <2>4
<1>2. CASE WriteIndex
  <2>1. IndexTyped' BY <1>2 DEF WriteIndex, IndexTyped
  <2>2. SizeInv' /\ SyncInv' BY <1>2, <1>0 DEF WriteIndex, SizeInv, SyncInv
  <2>3. GoroutineInv'
    BY <1>2, <1>0 DEF WriteIndex, GoroutineInv, Sent, SizeInv, IndexTyped
  <2>4. QueryInv' BY <1>2 DEF WriteIndex, QueryInv
  <2> QED BY <2>1, <2>2, <2>3, <2>4
<1>3. CASE WriteIndexFails
  <2>1. IndexTyped' BY <1>3 DEF WriteIndexFails, IndexTyped
  <2>2. SizeInv' /\ SyncInv' BY <1>3, <1>0 DEF WriteIndexFails, SizeInv, SyncInv
  <2>3. GoroutineInv' BY <1>3 DEF WriteIndexFails, GoroutineInv, Sent
  <2>4. QueryInv' BY <1>3 DEF WriteIndexFails, QueryInv
  <2> QED BY <2>1, <2>2, <2>3, <2>4
<1>4. CASE BlockIndexed
  <2>0. \A c \in Clients : query'[c] = IF query[c].pc = "wait" THEN [query[c] EXCEPT !.pc = "loop"] ELSE query[c]
    BY <1>4 DEF BlockIndexed
  <2>1. query' \in [Clients -> Queries] BY <1>4 DEF BlockIndexed, IndexTyped, Queries
  <2>2. IndexTyped' BY <2>1, <1>4 DEF BlockIndexed, IndexTyped
  <2>3. SizeInv' /\ SyncInv' BY <1>4, <1>0 DEF BlockIndexed, SizeInv, SyncInv
  <2>4. GoroutineInv'
    BY <1>4, <1>0 DEF BlockIndexed, GoroutineInv, Sent, SizeInv, IndexTyped
  <2>5. QueryInv'
    BY <2>0, <1>4, <1>0 DEF BlockIndexed, QueryInv, IndexTyped, Queries
  <2> QED BY <2>2, <2>3, <2>4, <2>5
<1> QED BY <1>1, <1>2, <1>3, <1>4 DEF IndexerStep

\* A step of a query changes nothing but the query: if the query is as the
\* invariant wants it, the invariant holds.
LEMMA QueryFrame ==
  ASSUME IndexInv, NEW c \in Clients, NEW q \in Queries,
         SetQuery(c, q), UNCHANGED <<chainVars, indexerVars, indexRestarts>>,
         q.pc \in {"lock", "wait", "loop"} => ~synchronous /\ q.last = q.from - 1 /\ q.block \in Nat,
         q.pc = "loop" => zerothIndexed,
         q.pc = "fetch" => (\A n \in Nat : n < q.from => n \in indexed) /\ q.block \in Nat,
         q.pc = "missing" => q.block \in Nat /\ q.block >= q.from
  PROVE  IndexInv'
<1> USE DEF IndexInv, chainVars, indexerVars
<1>1. \A d \in Clients : query'[d] = IF d = c THEN q ELSE query[d]
  BY DEF SetQuery, IndexTyped
<1>2. IndexTyped' BY DEF SetQuery, IndexTyped
<1>3. SizeInv' /\ SyncInv' BY DEF SizeInv, SyncInv
<1>4. GoroutineInv' BY DEF GoroutineInv, Sent
<1>5. QueryInv' BY <1>1 DEF QueryInv
<1> QED BY <1>2, <1>3, <1>4, <1>5

\* The arrival of a query (checkError and the size that
\* waitForLastCommittedBlock reads) keeps the invariant.
LEMMA StartQueryKeeps ==
  ASSUME IndexInv, NEW c \in Clients, NEW b \in 0 .. (MaxHeight - 1), StartQuery(c, b)
  PROVE  IndexInv'
<1> DEFINE q0 == [pc |-> "lock", block |-> b, last |-> size - 1, from |-> size]
           q == IF synchronous \/ size = 0 THEN [q0 EXCEPT !.pc = "fetch"] ELSE q0
<1>1. b \in Nat /\ size \in Nat BY IndexAssumption DEF IndexInv, IndexTyped
<1>2. q \in Queries BY <1>1 DEF Queries
<1>3. q.last = q.from - 1 /\ q.block \in Nat /\ q.from = size BY <1>1
<1>4. q.pc = IF synchronous \/ size = 0 THEN "fetch" ELSE "lock" OBVIOUS
<1>5. SetQuery(c, q) /\ UNCHANGED <<chainVars, indexerVars, indexRestarts>> BY DEF StartQuery
<1>6. synchronous => \A n \in Nat : n < size => n \in indexed
  BY IndexAssumption DEF IndexInv, SyncInv, SizeInv, IndexTyped
<1> HIDE DEF q
<1> QED BY QueryFrame, <1>1, <1>2, <1>3, <1>4, <1>5, <1>6

\* A step of a query (waitForLastCommittedBlock and the read of the index)
\* keeps the invariant.
LEMMA QueryKeeps ==
  ASSUME IndexInv, NEW c \in Clients, QueryStep(c)
  PROVE  IndexInv'
<1>1. query[c] \in Queries BY DEF IndexInv, IndexTyped
<1> DEFINE r(p) == [query[c] EXCEPT !.pc = p]
<1>2. ASSUME NEW p \in {"idle", "lock", "wait", "loop", "fetch", "found", "missing"}
      PROVE  /\ r(p) \in Queries /\ r(p).pc = p /\ r(p).last = query[c].last
             /\ r(p).from = query[c].from /\ r(p).block = query[c].block
  BY <1>1 DEF Queries
<1>3. QueryInv /\ IndexTyped /\ GoroutineInv BY DEF IndexInv
<1>4. CASE WaitZeroth(c)
  <2>1. PICK p \in {"wait", "loop"} : SetQuery(c, r(p)) /\ (p = "loop" => zerothIndexed)
    BY <1>4 DEF WaitZeroth
  <2>2. UNCHANGED <<chainVars, indexerVars, indexRestarts>> /\ query[c].pc = "lock" BY <1>4 DEF WaitZeroth
  <2>3. ~synchronous /\ query[c].last = query[c].from - 1 /\ query[c].block \in Nat
    BY <1>3, <2>2 DEF QueryInv
  <2> HIDE DEF r
  <2> QED BY <1>2, <2>1, <2>2, <2>3, QueryFrame
<1>5. CASE WaitForLastCommittedBlock(c)
  <2>1. PICK p \in {"wait", "fetch"} : SetQuery(c, r(p)) /\ (p = "fetch" => ~(lastIndexed < query[c].last))
    BY <1>5 DEF WaitForLastCommittedBlock
  <2>2. UNCHANGED <<chainVars, indexerVars, indexRestarts>> /\ query[c].pc = "loop"
    BY <1>5 DEF WaitForLastCommittedBlock
  <2>3. ~synchronous /\ query[c].last = query[c].from - 1 /\ query[c].block \in Nat /\ zerothIndexed
    BY <1>3, <2>2 DEF QueryInv
  <2>4. query[c].from \in Nat /\ lastIndexed \in Nat BY <1>1, <1>3 DEF Queries, IndexTyped
  <2>5. p = "fetch" => \A n \in Nat : n < query[c].from => n \in indexed
    BY <2>1, <2>3, <2>4, <1>3 DEF GoroutineInv
  <2> HIDE DEF r
  <2> QED BY <1>2, <2>1, <2>2, <2>3, <2>5, QueryFrame
<1>6. CASE FetchFromDB(c)
  <2>1. PICK p \in {"found", "missing"} : SetQuery(c, r(p)) /\ (p = "missing" => query[c].block \notin indexed)
    BY <1>6 DEF FetchFromDB
  <2>2. UNCHANGED <<chainVars, indexerVars, indexRestarts>> /\ query[c].pc = "fetch" BY <1>6 DEF FetchFromDB
  <2>3. query[c].block \in Nat /\ \A n \in Nat : n < query[c].from => n \in indexed
    BY <1>3, <2>2 DEF QueryInv
  <2>4. query[c].from \in Nat BY <1>1 DEF Queries
  <2>5. p = "missing" => query[c].block >= query[c].from BY <2>1, <2>3, <2>4
  <2> HIDE DEF r
  <2> QED BY <1>2, <2>1, <2>2, <2>3, <2>5, QueryFrame
<1>7. CASE Answered(c)
  <2>1. SetQuery(c, Idle) /\ UNCHANGED <<chainVars, indexerVars, indexRestarts>> BY <1>7 DEF Answered
  <2>2. Idle \in Queries /\ Idle.pc = "idle" BY DEF Idle, Queries
  <2> QED BY <2>1, <2>2, QueryFrame
<1> QED BY <1>4, <1>5, <1>6, <1>7 DEF QueryStep

\* A restart (newBlockchain, indexPendingBlocks) after block 0 was indexed
\* keeps the invariant: the blocks after the last indexed one are indexed.
LEMMA RestartKeeps ==
  ASSUME IndexInv, IndexRestart, RestartUnindexed = FALSE
  PROVE  IndexInv'
<1> USE IndexAssumption DEF IndexInv, IndexRestart
<1>1. query' \in [Clients -> Queries] /\ \A c \in Clients : query'[c].pc = "idle" BY DEF Idle, Queries
<1>2. QueryInv' BY <1>1 DEF QueryInv
<1>3. SizeInv' BY DEF SizeInv, IndexTyped
<1>4. CASE synchronous
  <2>1. IndexTyped'
    <3>1. worker' \in Nat \cup {None} OBVIOUS
    <3>2. UNCHANGED <<indexed, lastKey, lastIndexed, zerothIndexed, synchronous, height>> BY <1>4
    <3>3. size' = height /\ committing' = "idle" /\ ~written' /\ ~failed' /\ written' \in BOOLEAN /\ failed' \in BOOLEAN
      OBVIOUS
    <3>4. IndexTyped OBVIOUS
    <3> HIDE DEF IndexInv, IndexRestart
    <3> QED BY <3>1, <3>2, <3>3, <3>4, <1>1 DEF IndexTyped
  <2>2. SyncInv' BY <1>4 DEF SyncInv
  <2>3. GoroutineInv' BY <1>4 DEF GoroutineInv
  <2> QED BY <1>2, <1>3, <2>1, <2>2, <2>3
<1>5. CASE ~synchronous
  <2> DEFINE last == IF PendingBlocks # {} THEN height - 1 ELSE lastKey
  <2>1. height \in Nat /\ height <= MaxHeight /\ lastKey \in Nat \cup {None} BY DEF IndexTyped
  <2>2. lastKey = None => height = 0 BY <1>5
  <2>3. lastKey # None => lastKey < height /\ \A n \in Nat : n <= lastKey => n \in indexed
    BY <1>5 DEF GoroutineInv
  <2>4. PendingBlocks \subseteq Nat /\ \A n \in PendingBlocks : n < height BY DEF PendingBlocks
  <2>5. \A n \in Nat : n < height => n \in indexed \cup PendingBlocks
    BY <2>1, <2>2, <2>3 DEF PendingBlocks
  <2>6. last \in Nat \cup {None} /\ (last # None => last < height)
    <3>1. CASE PendingBlocks # {}
      <4>0. PICK n \in PendingBlocks : TRUE BY <3>1
      <4>1. height - 1 \in Nat BY <4>0, <2>1, <2>4
      <4> QED BY <3>1, <4>1, <2>1
    <3>2. CASE PendingBlocks = {} BY <3>2, <2>1, <2>3
    <3> QED BY <3>1, <3>2
  <2>7. /\ indexed' = indexed \cup PendingBlocks /\ lastKey' = last
        /\ zerothIndexed' = (last # None) /\ lastIndexed' = IF last = None THEN 0 ELSE last
    BY <1>5
  <2> HIDE DEF last
  <2>8. IndexTyped' BY <1>1, <2>1, <2>4, <2>6, <2>7 DEF IndexTyped
  <2>9. SyncInv' BY <1>5 DEF SyncInv
  <2>10. worker' = None /\ ~written' /\ Sent' = height BY DEF Sent
  <2>11. \A n \in Nat : n < height => n \in indexed' BY <2>5, <2>7
  <2>12. lastKey' # None => lastKey' \in Nat /\ lastKey' < height' BY <2>6, <2>7
  <2>13. zerothIndexed' => lastIndexed' \in Nat /\ lastIndexed' < height BY <2>6, <2>7
  <2>14. GoroutineInv' BY <2>1, <2>10, <2>11, <2>12, <2>13 DEF GoroutineInv
  <2> QED BY <1>2, <1>3, <2>8, <2>9, <2>14
<1> QED BY <1>4, <1>5

\* Every step keeps the invariant.
LEMMA IndexNextInv ==
  ASSUME RestartUnindexed = FALSE
  PROVE  IndexInv /\ [IndexNext]_indexVars => IndexInv'
<1> SUFFICES ASSUME IndexInv, [IndexNext]_indexVars PROVE IndexInv' OBVIOUS
<1>1. CASE IndexNext
  <2>1. CASE CommitStep BY <2>1, CommitKeeps
  <2>2. CASE IndexerStep BY <2>2, IndexerKeeps
  <2>3. CASE \E c \in Clients, b \in 0 .. (MaxHeight - 1) : StartQuery(c, b) BY <2>3, StartQueryKeeps
  <2>4. CASE \E c \in Clients : QueryStep(c) BY <2>4, QueryKeeps
  <2>5. CASE IndexRestart BY <2>5, RestartKeeps
  <2> QED BY <1>1, <2>1, <2>2, <2>3, <2>4, <2>5 DEF IndexNext
<1>2. CASE UNCHANGED indexVars
  BY <1>2 DEF IndexInv, IndexTyped, SizeInv, SyncInv, GoroutineInv, QueryInv, Sent, indexVars
<1> QED BY <1>1, <1>2

\* waitForLastCommittedBlock works: whatever the commits, the goroutine, its
\* failures and restarts do in between, a query answers "not found" only for
\* a block that was not committed when it arrived.
THEOREM QueriesSeeCommitted ==
  ASSUME RestartUnindexed = FALSE
  PROVE  IndexSpec => []QuerySeesCommitted
<1>1. IndexInit => IndexInv BY IndexInitInv
<1>2. IndexInv /\ [IndexNext]_indexVars => IndexInv' BY IndexNextInv
<1>3. IndexInv => QuerySeesCommitted BY DEF IndexInv, QueryInv, QuerySeesCommitted
<1> QED BY <1>1, <1>2, <1>3, PTL DEF IndexSpec
=============================================================================
