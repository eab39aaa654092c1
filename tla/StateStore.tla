----------------------------- MODULE StateStore -----------------------------
(***************************************************************************)
(* What the ledger promises about the world state: a store with versions.  *)
(* A batch of changes is collected, and either becomes the next version as *)
(* a whole or leaves no trace; the store can be moved back to an earlier   *)
(* version and forward again.  Hashes, caches, deltas, write batches,      *)
(* failures and restarts are not part of the promise.                      *)
(***************************************************************************)
EXTENDS Integers, Sequences

CONSTANTS Keys, Absent

VARIABLES versions,  \* versions[n] is the content after block n - 1
          at,        \* the version the store holds; 0 is the empty store
          content,   \* what a committed read returns, Absent when there is none
          pending    \* the changes of the batch

storeVars == <<versions, at, content, pending>>

Empty == [k \in Keys |-> Absent]
NoChange == [k \in {} |-> Absent]
Version(n) == IF n = 0 THEN Empty ELSE versions[n]
Applied(c, p) == [k \in Keys |-> IF k \in DOMAIN p THEN p[k] ELSE c[k]]

StoreInit == versions = <<>> /\ at = 0 /\ content = Empty /\ pending = NoChange

\* A transaction of the batch finished: what it changed is pending.
Collect ==
  /\ DOMAIN pending \subseteq DOMAIN pending' /\ DOMAIN pending' \subseteq Keys
  /\ UNCHANGED <<versions, at, content>>

\* A rollback, a failure or a restart drops what is pending.
Abort == pending' = NoChange /\ UNCHANGED <<versions, at, content>>

\* The pending changes become the next version.
Commit ==
  /\ at = Len(versions)
  /\ content' = Applied(content, pending)
  /\ versions' = Append(versions, content')
  /\ at' = at + 1
  /\ pending' = NoChange

\* The store moves to a neighbouring version.
Move ==
  /\ at' \in {at - 1, at + 1} \cap (0 .. Len(versions))
  /\ content' = Version(at')
  /\ pending' = NoChange
  /\ UNCHANGED versions

StoreNext == Collect \/ Abort \/ Commit \/ Move

StoreSpec == StoreInit /\ [][StoreNext]_storeVars
=============================================================================
