----------------------------- MODULE WorldState -----------------------------
(***************************************************************************)
(* The world state of a peer (core/ledger/statemgmt/state/state.go) and    *)
(* the deltas it keeps in memory (core/ledger/statemgmt/state_delta.go).   *)
(* The changes of the transaction that executes are in                     *)
(* currentTxStateDelta, those of the finished transactions of the batch in *)
(* stateDelta; the bucket tree `impl' hashes and stores them.              *)
(*                                                                         *)
(* A delta maps the changed data keys to [value, previous], Nil standing   *)
(* for a deleted or absent value.                                          *)
(***************************************************************************)
EXTENDS BucketTree

CONSTANT DeltaHistorySize   \* ledger.state.deltaHistorySize

EmptyDelta == [k \in {} |-> Nil]

IsEmpty(delta) == DOMAIN delta = {}

IsUpdatedValueSet(delta, k) == k \in DOMAIN delta

\* Set, and Delete with value Nil: the previous value of a key that is in the
\* delta is kept.
DeltaSet(delta, k, value, previous) ==
  With(delta, k, [value    |-> value,
                  previous |-> IF k \in DOMAIN delta THEN delta[k].previous ELSE previous])

\* ApplyChanges: `another' overwrites, the older previous value stays.
ApplyChanges(delta, another) ==
  [k \in DOMAIN delta \cup DOMAIN another |->
     IF k \notin DOMAIN another THEN delta[k]
     ELSE [value    |-> another[k].value,
           previous |-> IF k \in DOMAIN delta THEN delta[k].previous
                        ELSE another[k].previous]]

\* Plays every delta forwards.
DeltaUpdatesForward(delta, rollBackwards) == [k \in DOMAIN delta |-> delta[k].value]

\* newDataNodesDelta: the values a delta writes, forwards or backwards.
DeltaUpdates(delta, rollBackwards) ==
  [k \in DOMAIN delta |-> IF rollBackwards THEN delta[k].previous ELSE delta[k].value]

Stored(data, k) == IF k \in DOMAIN data THEN data[k] ELSE Nil

-----------------------------------------------------------------------------
NewState == [stateDelta          |-> EmptyDelta,
             rollBackwards       |-> FALSE,
             currentTxStateDelta |-> EmptyDelta,
             currentTxUUID       |-> Nil,
             txStateDeltaHash    |-> [u \in {} |-> Nil],
             updateStateImpl     |-> FALSE]

txInProgress(st) == st.currentTxUUID # Nil

StateTxBegin(st, uuid) == [st EXCEPT !.currentTxUUID = uuid]

\* TxFinish: a successful transaction is merged into the batch, any other is
\* dropped.
StateTxFinish(st, uuid, successful) ==
  LET dirty == ~ IsEmpty(st.currentTxStateDelta)
      delta == IF successful /\ dirty
               THEN ApplyChanges(st.stateDelta, st.currentTxStateDelta) ELSE st.stateDelta
      hash  == IF dirty THEN DeltaUpdates(st.currentTxStateDelta, FALSE) ELSE Nil
  IN [st EXCEPT !.stateDelta          = delta,
                !.txStateDeltaHash    = IF successful THEN With(@, uuid, hash) ELSE @,
                !.updateStateImpl     = @ \/ (successful /\ dirty),
                !.currentTxStateDelta = EmptyDelta,
                !.currentTxUUID       = Nil]

StateGet(st, data, k, committed) ==
  CASE ~ committed /\ k \in DOMAIN st.currentTxStateDelta -> st.currentTxStateDelta[k].value
    [] ~ committed /\ k \notin DOMAIN st.currentTxStateDelta
                   /\ k \in DOMAIN st.stateDelta           -> st.stateDelta[k].value
    [] OTHER                                               -> Stored(data, k)

\* Set and Delete (value = Nil).  The previous value is the committed one,
\* and is looked up only the first time the transaction changes the key.
StateSet(st, data, k, value) ==
  LET previous == IF IsUpdatedValueSet(st.currentTxStateDelta, k) THEN Nil
                  ELSE StateGet(st, data, k, TRUE)
  IN [st EXCEPT !.currentTxStateDelta = DeltaSet(@, k, value, previous)]

\* The hand over of the delta to the bucket tree in GetHash,
\* AddChangesForPersistence and CommitStateDelta.
UpdateImpl(st, impl) ==
  IF st.updateStateImpl
  THEN PrepareWorkingSet(impl, DeltaUpdates(st.stateDelta, st.rollBackwards)) ELSE impl

\* GetHash: the tree afterwards; the hash is its lastComputedCryptoHash.
StateGetHash(st, impl, cf) == ComputeCryptoHash(UpdateImpl(st, impl), cf)
Updated(st) == [st EXCEPT !.updateStateImpl = FALSE]

\* ClearInMemoryChanges: the delta of the current transaction and
\* updateStateImpl are left alone.
ClearState(st) == [st EXCEPT !.stateDelta       = EmptyDelta,
                             !.rollBackwards    = FALSE,
                             !.txStateDeltaHash = [u \in {} |-> Nil]]

\* AddChangesForPersistence: the delta of the block is kept, the one that
\* leaves the history is deleted.
AddStateDelta(deltas, blockNumber, delta) ==
  LET put == With(deltas, blockNumber, delta)
  IN IF blockNumber >= DeltaHistorySize
     THEN Without(put, blockNumber - DeltaHistorySize) ELSE put

StateApplyStateDelta(st, delta, back) ==
  [st EXCEPT !.stateDelta = delta, !.rollBackwards = back, !.updateStateImpl = TRUE]

-----------------------------------------------------------------------------
(* Range scans: state_delta_iterator.go, composite_range_scan_iterator.go. *)

InRange(k, chaincodeID, startKey, endKey) ==
  k[1] = chaincodeID /\ k[2] >= startKey /\ (endKey = Nil \/ k[2] <= endKey)

\* retrieveRelevantKeys.
DeltaScan(delta, chaincodeID, startKey, endKey) ==
  {k \in DOMAIN delta : InRange(k, chaincodeID, startKey, endKey) /\ delta[k].value # Nil}

\* The composite iterator: the keys of the transaction, of the batch and of
\* the tree, each skipped when an earlier iterator contains it.
CompositeScan(st, data, chaincodeID, startKey, endKey) ==
  LET tx    == DeltaScan(st.currentTxStateDelta, chaincodeID, startKey, endKey)
      batch == DeltaScan(st.stateDelta, chaincodeID, startKey, endKey)
                 \ DOMAIN st.currentTxStateDelta
      impl  == RangeScan(data, chaincodeID, startKey, endKey)
                 \ (DOMAIN st.currentTxStateDelta \cup DOMAIN st.stateDelta)
  IN {<<k, st.currentTxStateDelta[k].value>> : k \in tx}
     \cup {<<k, st.stateDelta[k].value>> : k \in batch}
     \cup {<<k, data[k]>> : k \in impl}
=============================================================================
