----------------------------- MODULE BucketTree -----------------------------
(***************************************************************************)
(* The bucket tree that hashes and stores the world state                  *)
(* (core/ledger/statemgmt/buckettree).  A data key falls into one of       *)
(* NumBuckets buckets; the buckets of a level are grouped, MaxGrouping at  *)
(* a time, into the buckets of the level above; level 0 is the root.  The  *)
(* hash of a bucket combines those of its children, so a change recomputes *)
(* only the buckets on the paths above the changed keys.                   *)
(*                                                                         *)
(* A crypto-hash is the value it is a hash of (no collisions).  A data key *)
(* is a pair <<chaincodeID, key>> of numbers, ordered as the code orders   *)
(* the bytes of the composite key.  The structure of the tree that is kept *)
(* in memory is a record `impl', the column family StateCF a record with   *)
(* the data nodes (`data') and the bucket nodes (`nodes').                 *)
(***************************************************************************)
EXTENDS Integers, Sequences, FiniteSets

CONSTANTS
  DataKeys,      \* pairs <<chaincodeID, key>>
  HashFunction,  \* conf.hashFunc: [DataKeys -> Nat]
  NumBuckets,    \* conf: buckets at the lowest level
  MaxGrouping,   \* conf: children of a bucket
  CacheMax,      \* the size the bucket cache may reach (0: disabled)
  Nil            \* the nil byte slice

ASSUME BucketAssumption ==
  /\ NumBuckets \in Nat /\ NumBuckets > 1
  /\ MaxGrouping \in Nat /\ MaxGrouping > 1
  /\ CacheMax \in Nat
  /\ HashFunction \in [DataKeys -> Nat]

-----------------------------------------------------------------------------
(* The shape of the tree: config.go, bucket_key.go, data_key.go.           *)

CeilDiv(n, d) == (n \div d) + (IF n % d # 0 THEN 1 ELSE 0)

\* The loop of newConfig: the number of buckets k levels above the lowest.
BucketsAbove[k \in Nat] ==
  IF k = 0 THEN NumBuckets ELSE CeilDiv(BucketsAbove[k - 1], MaxGrouping)

LowestLevel == CHOOSE k \in 0 .. NumBuckets :
  BucketsAbove[k] = 1 /\ \A j \in 0 .. (k - 1) : BucketsAbove[j] > 1

ChildIndexes == 0 .. (MaxGrouping - 1)

getBucketKey(k) == <<LowestLevel, (HashFunction[k] % NumBuckets) + 1>>

getParentKey(b) == <<b[1] - 1, CeilDiv(b[2], MaxGrouping)>>

getChildKey(b, i) == <<b[1] + 1, (b[2] - 1) * MaxGrouping + 1 + i>>

LessKey(a, b) == a[1] < b[1] \/ (a[1] = b[1] /\ a[2] < b[2])

\* sort.Sort and the order of the keys in the database.
SortedBy(S, less(_, _)) ==
  [i \in 1 .. Cardinality(S) |->
     CHOOSE x \in S : Cardinality({y \in S : less(y, x)}) = i - 1]

-----------------------------------------------------------------------------
(* Hashes of buckets: bucket_hash.go, bucket_node.go.                      *)

Live(nodes) == SelectSeq(nodes, LAMBDA n : n[2] # Nil)

KeyOrder == SortedBy(DataKeys, LessKey)

DataNodes(f) ==
  LET ks == SelectSeq(KeyOrder, LAMBDA k : k \in DOMAIN f)
  IN [i \in DOMAIN ks |-> <<ks[i], f[ks[i]]>>]

\* The merge of the changed with the stored data nodes of one bucket.
computeDataNodesCryptoHash(updated, existing) ==
  LET u == DataNodes(updated)
      e == DataNodes(existing)
      merge[i \in 1 .. (Len(u) + 1), j \in 1 .. (Len(e) + 1)] ==
        IF i > Len(u) THEN Live(SubSeq(e, j, Len(e)))
        ELSE IF j > Len(e) THEN Live(SubSeq(u, i, Len(u)))
        ELSE IF LessKey(u[i][1], e[j][1]) THEN Live(<<u[i]>>) \o merge[i + 1, j]
        ELSE IF u[i][1] = e[j][1] THEN Live(<<u[i]>>) \o merge[i + 1, j + 1]
        ELSE Live(<<e[j]>>) \o merge[i, j + 1]
      content == merge[1, 1]
  IN IF content = <<>> THEN Nil ELSE <<"data", content>>

newBucketNode == [hash    |-> [i \in ChildIndexes |-> Nil],
                  updated |-> [i \in ChildIndexes |-> FALSE],
                  marked  |-> FALSE]

computeBucketCryptoHash(hash) ==
  LET kids == SelectSeq([i \in 1 .. MaxGrouping |-> hash[i - 1]], LAMBDA h : h # Nil)
  IN CASE kids = <<>>    -> Nil
       [] Len(kids) = 1  -> kids[1]
       [] OTHER          -> <<"bucket", kids>>

\* setChildCryptoHash on the parents of the buckets in DOMAIN hashes, created
\* when the tree delta does not hold them (getOrCreateBucketNode).
setChildCryptoHashes(tree, hashes) ==
  LET parents == {getParentKey(b) : b \in DOMAIN hashes}
      node(p) == IF p \in DOMAIN tree THEN tree[p] ELSE newBucketNode
      set(p, i) == p \in parents /\ getChildKey(p, i) \in DOMAIN hashes
  IN [p \in DOMAIN tree \cup parents |->
        [node(p) EXCEPT
           !.hash    = [i \in ChildIndexes |->
                          IF set(p, i) THEN hashes[getChildKey(p, i)] ELSE @[i]],
           !.updated = [i \in ChildIndexes |-> set(p, i) \/ @[i]]]]

\* mergeBucketNode: the children that did not change keep the stored hash.
mergeBucketNode(node, stored) ==
  [node EXCEPT !.hash = [i \in ChildIndexes |->
     IF ~ node.updated[i] /\ @[i] = Nil THEN stored[i] ELSE @[i]]]

-----------------------------------------------------------------------------
(* bucket_cache.go: the bucket nodes kept in memory.  The arithmetic of    *)
(* the size is that of the code: entries that are added do not count their *)
(* key, entries that are removed do.                                       *)

SizeWidth == 2 ^ 3
NodeSize(hash) == 1 + (IF hash[0] = Nil THEN 0 ELSE MaxGrouping)
KeySize == 1

NoCache == [c |-> [b \in {} |-> Nil], size |-> 0]

CacheEnabled == CacheMax > 0

Without(f, k) == [x \in DOMAIN f \ {k} |-> f[x]]
With(f, k, v) == [x \in DOMAIN f \cup {k} |-> IF x = k THEN v ELSE f[x]]

putWithoutLock(cache, key, hash) ==
  LET old  == IF key \in DOMAIN cache.c THEN NodeSize(cache.c[key]) ELSE 0
      size == (cache.size + NodeSize(hash) - old) % SizeWidth
  IN CASE ~ CacheEnabled -> cache
       [] CacheEnabled /\ size <= CacheMax -> [c |-> With(cache.c, key, hash), size |-> size]
       [] CacheEnabled /\ size > CacheMax /\ key \in DOMAIN cache.c ->
            [c |-> Without(cache.c, key), size |-> (size - KeySize - old) % SizeWidth]
       [] OTHER -> [cache EXCEPT !.size = size]

\* Leaves the node of a bucket that was deleted in the cache.
removeWithoutLockForgets(cache, key) == cache

removeWithoutLock(cache, key) ==
  IF key \notin DOMAIN cache.c THEN cache
  ELSE [c    |-> Without(cache.c, key),
        size |-> (cache.size - KeySize - NodeSize(cache.c[key])) % SizeWidth]

\* get: the cached node, otherwise the stored one (Nil when there is none).
cacheGet(cache, nodes, key) ==
  IF key \in DOMAIN cache.c THEN cache.c[key]
  ELSE IF key \in DOMAIN nodes THEN nodes[key] ELSE Nil

\* loadAllBucketNodesFromDB: in the order of the keys, until the cache is full.
loadAllBucketNodesFromDB(nodes) ==
  LET ks == SortedBy(DOMAIN nodes, LessKey)
      total[n \in 0 .. Len(ks)] ==
        IF n = 0 THEN 0 ELSE total[n - 1] + KeySize + NodeSize(nodes[ks[n]])
      kept == {n \in 1 .. Len(ks) : total[n] < CacheMax}
  IN IF ~ CacheEnabled THEN NoCache
     ELSE [c    |-> [b \in {ks[n] : n \in kept} |-> nodes[b]],
           size |-> total[Cardinality(kept)]]

-----------------------------------------------------------------------------
(* state_impl.go.                                                          *)

NoNodes == [k \in {} |-> Nil]

\* Initialize, on a start and on a restart.
InitializeImpl(cf) ==
  LET root == <<0, 1>>
      h == IF root \in DOMAIN cf.nodes THEN computeBucketCryptoHash(cf.nodes[root]) ELSE Nil
  IN [dataNodesDelta         |-> NoNodes,
      bucketTreeDelta        |-> NoNodes,
      persistedStateHash     |-> h,
      lastComputedCryptoHash |-> h,
      recomputeCryptoHash    |-> FALSE,
      bucketCache            |-> loadAllBucketNodesFromDB(cf.nodes)]

\* PrepareWorkingSet: `updates' maps the changed keys to their new value (Nil:
\* deleted).  An empty delta is ignored.
PrepareWorkingSet(impl, updates) ==
  IF DOMAIN updates = {} THEN impl
  ELSE [impl EXCEPT !.dataNodesDelta      = updates,
                    !.bucketTreeDelta     = NoNodes,
                    !.recomputeCryptoHash = TRUE]

InBucket(f, b) == [k \in {k \in DOMAIN f : getBucketKey(k) = b} |-> f[k]]

processDataNodeDelta(impl, cf) ==
  LET affected == {getBucketKey(k) : k \in DOMAIN impl.dataNodesDelta}
  IN setChildCryptoHashes(impl.bucketTreeDelta,
       [b \in affected |-> computeDataNodesCryptoHash(InBucket(impl.dataNodesDelta, b),
                                                      InBucket(cf.data, b))])

\* processBucketTreeDelta: from the second lowest level up to the root.
processBucketTreeDelta(tree, cache, nodes) ==
  LET stored(b) == cacheGet(cache, nodes, b)
      up[level \in 0 .. LowestLevel - 1] ==
        LET t      == IF level = LowestLevel - 1 THEN tree ELSE up[level + 1]
            here   == {b \in DOMAIN t : b[1] = level}
            merged == [b \in DOMAIN t |->
                         IF b \in here /\ stored(b) # Nil
                         THEN mergeBucketNode(t[b], stored(b)) ELSE t[b]]
            hashes == [b \in here |-> computeBucketCryptoHash(merged[b].hash)]
            marked == [b \in DOMAIN t |->
                         IF b \in here /\ hashes[b] = Nil
                         THEN [merged[b] EXCEPT !.marked = TRUE] ELSE merged[b]]
        IN IF level = 0 THEN marked ELSE setChildCryptoHashes(marked, hashes)
  IN up[0]

\* ComputeCryptoHash; the hash is the lastComputedCryptoHash of the result.
ComputeCryptoHash(impl, cf) ==
  IF ~ impl.recomputeCryptoHash THEN impl
  ELSE LET tree == processBucketTreeDelta(processDataNodeDelta(impl, cf),
                                          impl.bucketCache, cf.nodes)
       IN [impl EXCEPT !.bucketTreeDelta        = tree,
                       !.lastComputedCryptoHash = computeBucketCryptoHash(tree[<<0, 1>>].hash),
                       !.recomputeCryptoHash    = FALSE]

\* AddChangesForPersistence and the write of the batch.  It follows
\* ComputeCryptoHash in every caller.
PersistNodes(impl, cf) ==
  LET gone(f)  == {k \in DOMAIN f : f[k] = Nil}
      data     == [k \in DOMAIN cf.data \cup DOMAIN impl.dataNodesDelta |->
                     IF k \in DOMAIN impl.dataNodesDelta
                     THEN impl.dataNodesDelta[k] ELSE cf.data[k]]
      nodes    == [b \in DOMAIN cf.nodes \cup DOMAIN impl.bucketTreeDelta |->
                     IF b \notin DOMAIN impl.bucketTreeDelta THEN cf.nodes[b]
                     ELSE IF impl.bucketTreeDelta[b].marked THEN Nil
                     ELSE impl.bucketTreeDelta[b].hash]
      keep(f)  == [k \in DOMAIN f \ gone(f) |-> f[k]]
  IN [cf EXCEPT !.data = keep(data), !.nodes = keep(nodes)]

\* The orders in which updateBucketCache may visit the tree delta: level by
\* level from the root, the buckets of a level in any order.
VisitOrders(tree) ==
  {s \in [1 .. Cardinality(DOMAIN tree) -> DOMAIN tree] :
     \A i, j \in DOMAIN s : i < j => s[i] # s[j] /\ s[i][1] <= s[j][1]}

updateBucketCache(impl, order) ==
  LET after[n \in 0 .. Len(order)] ==
        IF n = 0 THEN impl.bucketCache
        ELSE LET b == order[n] IN
             IF impl.bucketTreeDelta[b].marked THEN removeWithoutLock(after[n - 1], b)
             ELSE putWithoutLock(after[n - 1], b, impl.bucketTreeDelta[b].hash)
  IN after[Len(order)]

\* Forgets to restore the hash on a rollback.
ClearWorkingSetKeepsHash(impl, changesPersisted, order) ==
  [impl EXCEPT
     !.persistedStateHash  = IF changesPersisted THEN impl.lastComputedCryptoHash ELSE @,
     !.bucketCache         = IF changesPersisted THEN updateBucketCache(impl, order) ELSE @,
     !.dataNodesDelta      = NoNodes,
     !.bucketTreeDelta     = NoNodes,
     !.recomputeCryptoHash = FALSE]

ClearWorkingSet(impl, changesPersisted, order) ==
  [impl EXCEPT
     !.persistedStateHash     = IF changesPersisted THEN impl.lastComputedCryptoHash ELSE @,
     !.bucketCache            = IF changesPersisted THEN updateBucketCache(impl, order) ELSE @,
     !.lastComputedCryptoHash = IF changesPersisted THEN @ ELSE impl.persistedStateHash,
     !.dataNodesDelta         = NoNodes,
     !.bucketTreeDelta        = NoNodes,
     !.recomputeCryptoHash    = FALSE]

-----------------------------------------------------------------------------
(* range_scan_iterator.go.  The database orders the data nodes by bucket   *)
(* number, chaincode and key; the iterator seeks the start key in a bucket,*)
(* reads up to the end key, and seeks the next bucket.  endKey = Nil is    *)
(* the empty string.                                                       *)

LessEncoded(a, b) ==
  \/ getBucketKey(a)[2] < getBucketKey(b)[2]
  \/ getBucketKey(a)[2] = getBucketKey(b)[2] /\ LessKey(a, b)

EncodedOrder == SortedBy(DataKeys, LessEncoded)

RangeScan(data, chaincodeID, startKey, endKey) ==
  LET ks == SelectSeq(EncodedOrder, LAMBDA k : k \in DOMAIN data)
      bucket(i) == getBucketKey(ks[i])[2]
      seek(n) == CHOOSE p \in 1 .. (Len(ks) + 1) :
        \A i \in 1 .. Len(ks) :
          i < p <=> \/ bucket(i) < n
                    \/ bucket(i) = n /\ LessKey(ks[i], <<chaincodeID, startKey>>)
      next[p \in 1 .. (Len(ks) + 1), current \in 1 .. (NumBuckets + 1)] ==
        IF p > Len(ks) THEN {}
        ELSE IF bucket(p) > current THEN next[seek(bucket(p)), bucket(p)]
        ELSE IF ks[p][1] = chaincodeID /\ (endKey = Nil \/ ks[p][2] <= endKey)
             THEN {ks[p]} \cup next[p + 1, current]
        ELSE next[seek(bucket(p) + 1), bucket(p) + 1]
  IN next[seek(1), 1]

-----------------------------------------------------------------------------
(* What the tree promises: the hash of a state, computed from nothing.     *)

HashOf(data) ==
  LET hash[level \in 0 .. LowestLevel, n \in 1 .. NumBuckets] ==
        IF level = LowestLevel
        THEN computeDataNodesCryptoHash(InBucket(data, <<level, n>>), NoNodes)
        ELSE computeBucketCryptoHash([i \in ChildIndexes |->
               LET c == getChildKey(<<level, n>>, i)
               IN IF c[2] > BucketsAbove[LowestLevel - c[1]] THEN Nil
                  ELSE hash[c[1], c[2]]])
  IN hash[0, 1]
=============================================================================
