------------------------------ MODULE StateTrie ------------------------------
(***************************************************************************)
(* The trie over the bytes of the composite key, one of the three          *)
(* implementations of the hashable state (core/ledger/statemgmt/trie).     *)
(* A commit rewrites only the nodes on the paths above the changed keys:   *)
(* ComputeCryptoHash takes the changed nodes level by level from the       *)
(* lowest, completes each from its copy in the database, and hands its     *)
(* hash to its parent.                                                     *)
(*                                                                         *)
(* A trie key is a sequence of bytes, a crypto-hash the content it is      *)
(* computed from (no collisions).  The database is a function from trie    *)
(* keys to nodes.  Values are not empty: the code takes an empty value for *)
(* none (util.NotNil).  Reads of the database do not fail.                 *)
(***************************************************************************)
EXTENDS Integers, Sequences, SequencesExt, FiniteSets, TLC

CONSTANTS
  TrieKeys,      \* composite keys: the bytes of the chaincode id, 0, the key
  TrieValues,    \* values a transaction may write
  MaxTrieDelta,  \* bound: keys in one working set
  TrieNil        \* the nil slice

VARIABLES
  trieDB,        \* StateCF: trie key -> [value, children]
  trieDelta,     \* StateTrie.trieDelta: nil, or trie key -> changed node
  trieHashes,    \* [persisted, last]: persistedStateHash, lastComputedCryptoHash
  trieRecompute, \* recomputeCryptoHash
  trieState,     \* ghost: the key-values the committed deltas add up to
  trieWorking    \* ghost: the state delta of the working set

trieVars == <<trieDB, trieDelta, trieHashes, trieRecompute, trieState, trieWorking>>

-----------------------------------------------------------------------------
(* Keys: trie_key.go, byteTrieKey.go, ../commons.go.                       *)

rootTrieKey == <<>>

getParentTrieKey(k) == Front(k)

getIndexInParent(k) == Last(k)

\* DecodeCompositeKey: the chaincode id ends at the first 0.
DelimiterOf(k) == CHOOSE i \in DOMAIN k : k[i] = 0 /\ \A j \in 1 .. (i - 1) : k[j] # 0

ChaincodeOf(k) == SubSeq(k, 1, DelimiterOf(k) - 1)

KeyOf(k) == SubSeq(k, DelimiterOf(k) + 1, Len(k))

\* The order of byte strings, in which rocksdb iterates.
BytesBefore(a, b) ==
  \/ IsStrictPrefix(a, b)
  \/ \E i \in DOMAIN a \cap DOMAIN b :
       a[i] < b[i] /\ SubSeq(a, 1, i - 1) = SubSeq(b, 1, i - 1)

\* A set as a sequence in increasing order.
InOrder(S, before(_, _)) ==
  [i \in 1 .. Cardinality(S) |->
     CHOOSE x \in S : Cardinality({y \in S : before(y, x)}) = i - 1]

TriePrefixes == UNION {{SubSeq(k, 1, i) : i \in 0 .. Len(k)} : k \in TrieKeys}

\* The nodes there may be, in the order of the database.
TrieOrder == InOrder(TriePrefixes, BytesBefore)

-----------------------------------------------------------------------------
(* Nodes: trie_node.go.                                                    *)

NoTrieHash == [own |-> <<>>, value |-> TrieNil, kids |-> <<>>]

newTrieNode(v, updated) ==
  [value |-> v, updated |-> updated, children |-> <<>>, changed |-> {}]

containsValue(k, n) == k # rootTrieKey /\ n.value # TrieNil

sortedChildrenHashes(n) ==
  LET order == InOrder(DOMAIN n.children, LAMBDA i, j : i < j)
  IN  [i \in DOMAIN order |-> n.children[order[i]]]

computeCryptoHash(k, n) ==
  LET hashes == sortedChildrenHashes(n) IN
  IF containsValue(k, n) THEN [own |-> k, value |-> n.value, kids |-> hashes]
  ELSE IF Len(hashes) = 1 THEN hashes[1]  \* a single child's hash is passed up
  ELSE [NoTrieHash EXCEPT !.kids = hashes]

markedForDeletion(k, n) == computeCryptoHash(k, n) = NoTrieHash

\* Takes the stored hashes of children that were deleted as well.
mergeAllAttributesFrom(n, dbNode) ==
  [n EXCEPT !.value = IF n.updated THEN @ ELSE dbNode.value,
            !.children = @ @@ dbNode.children]

mergeMissingAttributesFrom(n, dbNode) ==
  [n EXCEPT !.value = IF n.updated THEN @ ELSE dbNode.value,
            !.children = @ @@ [i \in DOMAIN dbNode.children \ n.changed |-> dbNode.children[i]]]

\* setChildCryptoHash, for each of a set of processed children.
setChildrenHashes(n, hashOf) ==
  LET set == {i \in DOMAIN hashOf : hashOf[i] # NoTrieHash}
  IN  [n EXCEPT !.changed = @ \cup DOMAIN hashOf,
                !.children = [i \in set |-> hashOf[i]] @@ @]

\* marshal and unmarshal drop the flags.
StoredNode(n) == [value |-> n.value, children |-> n.children]

LoadedNode(n) == [newTrieNode(n.value, FALSE) EXCEPT !.children = n.children]

-----------------------------------------------------------------------------
(* The working set: trie_delta.go.                                         *)

\* d: trie key -> new value (TrieNil deletes); every update is a set.
newTrieDelta(d) == [k \in DOMAIN d |-> newTrieNode(d[k], TRUE)]

\* processChangedNode, for the changed nodes of one level.
processChangedNodes(db, delta, level) ==
  LET here == {k \in DOMAIN delta : Len(k) = level}
      merged == [k \in here |-> IF k \in DOMAIN db
                                THEN mergeMissingAttributesFrom(delta[k], db[k])
                                ELSE delta[k]]
      parents == {getParentTrieKey(k) : k \in here}
      parentNode(p) == IF p \in DOMAIN delta THEN delta[p] ELSE newTrieNode(TrieNil, FALSE)
      hashesFor(p) == LET kids == {k \in here : getParentTrieKey(k) = p} IN
        [i \in {getIndexInParent(k) : k \in kids} |->
           computeCryptoHash(Append(p, i), merged[Append(p, i)])]
  IN  merged @@ [p \in parents |-> setChildrenHashes(parentNode(p), hashesFor(p))] @@ delta

\* The loop of ComputeCryptoHash: from the lowest level up to level 1.
RECURSIVE ProcessedFrom(_, _, _)
ProcessedFrom(db, delta, level) ==
  IF level = 0 THEN delta
  ELSE ProcessedFrom(db, processChangedNodes(db, delta, level), level - 1)

lowestLevel(delta) == CHOOSE l \in {Len(k) : k \in DOMAIN delta} \cup {0} :
                        \A k \in DOMAIN delta : Len(k) <= l

\* ComputeCryptoHash: the delta, the hash and the flag it leaves.
ComputeCryptoHashResult ==
  LET done == ProcessedFrom(trieDB, trieDelta, lowestLevel(trieDelta)) IN
  CASE ~trieRecompute -> [delta |-> trieDelta, hash |-> trieHashes.last, again |-> FALSE]
    [] trieRecompute /\ rootTrieKey \notin DOMAIN done ->
         [delta |-> done, hash |-> trieHashes.last, again |-> TRUE]
    [] OTHER -> [delta |-> done, hash |-> computeCryptoHash(rootTrieKey, done[rootTrieKey]),
                 again |-> FALSE]

-----------------------------------------------------------------------------
(* Reads: Get, range_scan_iterator.go, snapshot_iterator.go.               *)

fetchValue(db, k) == IF k \in DOMAIN db THEN db[k].value ELSE TrieNil

\* The keys with a value among the nodes an iterator visits, in order.
ValuedKeys(db, visited) == SelectSeq(visited, LAMBDA k : k \in DOMAIN db /\ db[k].value # TrieNil)

\* RangeScanIterator: seeks the start key and stops at the first key with a
\* value that is of another chaincode or past the end key (<<>>: no end).
TrieScan(db, cc, startKey, endKey) ==
  LET from  == cc \o <<0>> \o startKey
      keys  == ValuedKeys(db, SelectSeq(TrieOrder, LAMBDA k : k = from \/ BytesBefore(from, k)))
      ends  == {i \in DOMAIN keys : ~ /\ ChaincodeOf(keys[i]) = cc
                                      /\ \/ endKey = <<>> \/ KeyOf(keys[i]) = endKey
                                         \/ BytesBefore(KeyOf(keys[i]), endKey)}
  IN  IF ends = {} THEN keys
      ELSE SubSeq(keys, 1, (CHOOSE i \in ends : \A j \in ends : i <= j) - 1)

\* StateSnapshotIterator: skips the first node, which it takes for the root.
SnapshotKeys(db) ==
  LET nodes == SelectSeq(TrieOrder, LAMBDA k : k \in DOMAIN db)
  IN  IF nodes = <<>> THEN <<>> ELSE ValuedKeys(db, Tail(nodes))

-----------------------------------------------------------------------------
(* state_trie.go, as the state manager drives it (statemgmt/state).        *)

TrieInit ==
  /\ trieDB = <<>> /\ trieDelta = TrieNil /\ trieRecompute = FALSE
  /\ trieHashes = [persisted |-> NoTrieHash, last |-> NoTrieHash]
  /\ trieState = <<>> /\ trieWorking = <<>>

TrieDeltas == UNION {[S -> TrieValues \cup {TrieNil}] :
                   S \in {T \in SUBSET TrieKeys : Cardinality(T) <= MaxTrieDelta}}

\* PrepareWorkingSet, before every preview and every commit.  The state
\* manager hands over the delta of the whole batch, which only grows.
TriePrepare(d) ==
  /\ DOMAIN trieWorking \subseteq DOMAIN d
  /\ trieDelta' = newTrieDelta(d) /\ trieRecompute' = TRUE /\ trieWorking' = d
  /\ UNCHANGED <<trieDB, trieHashes, trieState>>

\* ComputeCryptoHash.
TrieCompute ==
  LET r == ComputeCryptoHashResult IN
  /\ trieDelta # TrieNil
  /\ trieDelta' = r.delta /\ trieRecompute' = r.again
  /\ trieHashes' = [trieHashes EXCEPT !.last = r.hash]
  /\ UNCHANGED <<trieDB, trieState, trieWorking>>

\* AddChangesForPersistence: what the write batch does to the database.
PersistedNodes(delta) ==
  LET gone == {k \in DOMAIN delta : markedForDeletion(k, delta[k])} IN
  [k \in DOMAIN delta \ gone |-> StoredNode(delta[k])]
    @@ [k \in DOMAIN trieDB \ gone |-> trieDB[k]]

\* The values after the updates of a state delta.
TrieUpdated(state, d) ==
  LET keys == (DOMAIN state \cup DOMAIN d) \ {k \in DOMAIN d : d[k] = TrieNil}
  IN  [k \in keys |-> IF k \in DOMAIN d THEN d[k] ELSE state[k]]

\* AddChangesForPersistence (which computes the hash when that is due), the
\* write of the batch and ClearWorkingSet(true).
TrieCommit ==
  LET r == ComputeCryptoHashResult IN
  /\ trieDelta # TrieNil
  /\ trieDB' = PersistedNodes(r.delta)
  /\ trieHashes' = [persisted |-> r.hash, last |-> r.hash]
  /\ trieState' = TrieUpdated(trieState, trieWorking)
  /\ trieDelta' = TrieNil /\ trieRecompute' = FALSE /\ trieWorking' = <<>>

\* ClearWorkingSet(false).
TrieRollback ==
  /\ trieDelta # TrieNil
  /\ trieHashes' = [trieHashes EXCEPT !.last = trieHashes.persisted]
  /\ trieDelta' = TrieNil /\ trieRecompute' = FALSE /\ trieWorking' = <<>>
  /\ UNCHANGED <<trieDB, trieState>>

\* Initialize, after the peer was stopped at any point.
TrieRestart ==
  LET h == IF rootTrieKey \in DOMAIN trieDB
           THEN computeCryptoHash(rootTrieKey, LoadedNode(trieDB[rootTrieKey]))
           ELSE NoTrieHash
  IN  /\ trieHashes' = [persisted |-> h, last |-> h]
      /\ trieDelta' = TrieNil /\ trieRecompute' = FALSE /\ trieWorking' = <<>>
      /\ UNCHANGED <<trieDB, trieState>>

TrieNext ==
  \/ \E d \in TrieDeltas : TriePrepare(d)
  \/ TrieCompute
  \/ TrieCommit
  \/ TrieRollback
  \/ TrieRestart

TrieSpec == TrieInit /\ [][TrieNext]_trieVars

-----------------------------------------------------------------------------
TrieTypeOK ==
  /\ DOMAIN trieDB \subseteq TriePrefixes
  /\ trieDelta # TrieNil => DOMAIN trieDelta \subseteq TriePrefixes
  /\ trieRecompute \in BOOLEAN
  /\ trieState \in UNION {[S -> TrieValues] : S \in SUBSET TrieKeys}
  /\ trieWorking \in TrieDeltas

\* The hash of the trie that holds exactly `state', below the node k.
RECURSIVE ScratchHash(_, _)
ScratchHash(state, k) ==
  LET below == {x \in DOMAIN state : IsStrictPrefix(k, x)}
      node  == [newTrieNode(IF k \in DOMAIN state THEN state[k] ELSE TrieNil, FALSE) EXCEPT
                  !.children = [i \in {x[Len(k) + 1] : x \in below} |->
                                  ScratchHash(state, Append(k, i))]]
  IN  computeCryptoHash(k, node)

\* The hash the trie reports depends on the state alone: however the state was
\* reached (previews, rollbacks, restarts, deletions), the incremental hash is
\* that of a trie built afresh, for the committed state and for a previewed
\* one.  The root node is never completed from the database (the loop of
\* ComputeCryptoHash ends at level 1), so this needs one child at the root:
\* chaincode ids that share their first byte.
TrieHashFromScratch ==
  (\A a, b \in TrieKeys : a[1] = b[1]) =>
    /\ trieHashes.persisted = ScratchHash(trieState, rootTrieKey)
    /\ trieDelta # TrieNil /\ ~trieRecompute =>
         trieHashes.last = ScratchHash(TrieUpdated(trieState, trieWorking), rootTrieKey)

\* The nodes kept are those on the path to a value, and every way to read the
\* committed state (Get, a range scan, a snapshot) gives the same key-values.
TrieReadsAgree ==
  LET keys == DOMAIN trieState
      ccs  == {ChaincodeOf(k) : k \in TrieKeys}
      ks   == {KeyOf(k) : k \in TrieKeys} \cup {<<>>}
  IN  /\ DOMAIN trieDB = UNION {{SubSeq(k, 1, i) : i \in 0 .. Len(k)} : k \in keys}
      /\ \A k \in TrieKeys :
           fetchValue(trieDB, k) = IF k \in keys THEN trieState[k] ELSE TrieNil
      /\ ToSet(SnapshotKeys(trieDB)) = keys
      /\ \A cc \in ccs, s, e \in ks :
           ToSet(TrieScan(trieDB, cc, s, e)) =
             {k \in keys : /\ ChaincodeOf(k) = cc
                           /\ KeyOf(k) = s \/ BytesBefore(s, KeyOf(k))
                           /\ e = <<>> \/ KeyOf(k) = e \/ BytesBefore(KeyOf(k), e)}
=============================================================================
