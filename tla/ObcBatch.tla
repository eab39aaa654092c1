------------------------------ MODULE ObcBatch ------------------------------
(***************************************************************************)
(* Batch mode of PBFT (consensus/obcpbft/obc-batch.go) at one replica: the *)
(* primary collects requests in batchStore and hands them to pbftCore as   *)
(* one when there are batchSize of them or when the batch timer expires.   *)
(* Threads that receive messages and the thread of the timer share the     *)
(* lock of pbftCore, which sendBatch releases to call pbftCore.            *)
(***************************************************************************)
EXTENDS Integers, Sequences, FiniteSets, SequencesExt

CONSTANTS
  BatchThreads,       \* threads that receive messages
  BatchRequests,
  BatchSize,          \* general.batchSize
  MaxViewChanges      \* bound: view changes

ASSUME BatchSizeAssumption == BatchSize \in Nat \ {0}

VARIABLES
  leads, activeView,  \* of pbftCore: this replica is the primary; the view is active
  viewChanges,
  batchStore,
  batchTimerActive, batchTimerRuns, batchTimerC,   \* the flag, the Go timer and its channel
  inBatchCall,        \* inBatchCall[t]: the batch that t is about to hand to pbftCore, or <<>>
  timerThread,        \* "waits", or "woken" with an expiry it has read
  accepted,           \* requests that leaderProcReq has taken
  forwarded,          \* requests broadcast to the other replicas, or not taken by this one
  batches             \* batches handed to pbftCore

pbftPart == <<leads, activeView, viewChanges>>
timerPart == <<batchTimerActive, batchTimerRuns, batchTimerC>>
batchVars == <<pbftPart, timerPart, batchStore, inBatchCall, timerThread, accepted, forwarded, batches>>

Callers == BatchThreads \cup {"timer"}
Fresh == BatchRequests \ (accepted \cup forwarded)

BatchInit ==
  /\ leads \in BOOLEAN /\ activeView = TRUE /\ viewChanges = 0
  /\ batchStore = <<>>
  /\ batchTimerActive = FALSE /\ batchTimerRuns = FALSE /\ batchTimerC = 0
  /\ inBatchCall = [t \in Callers |-> <<>>]
  /\ timerThread = "waits"
  /\ accepted = {} /\ forwarded = {} /\ batches = <<>>

(* Does not reset the flag.                                                *)
stopBatchTimerStaysActive == batchTimerRuns' = FALSE /\ batchTimerC' = 0 /\ UNCHANGED batchTimerActive

(* stopBatchTimer stops the timer and empties its channel.                 *)
stopBatchTimer == batchTimerActive' = FALSE /\ batchTimerRuns' = FALSE /\ batchTimerC' = 0
startBatchTimer == batchTimerActive' = TRUE /\ batchTimerRuns' = TRUE /\ UNCHANGED batchTimerC

(* Does not empty the store before the lock is released.                   *)
sendBatchKeepsStore(t, store) ==
  /\ stopBatchTimer
  /\ batchStore' = store
  /\ inBatchCall' = [inBatchCall EXCEPT ![t] = store]

(* sendBatch up to the point where it releases the lock.                   *)
sendBatch(t, store) ==
  /\ stopBatchTimer
  /\ batchStore' = <<>>
  /\ inBatchCall' = [inBatchCall EXCEPT ![t] = store]

leaderProcReq(t, req) ==
  LET store == Append(batchStore, req)
  IN /\ accepted' = accepted \cup {req}
     /\ IF Len(store) >= BatchSize
          THEN sendBatch(t, store)
          ELSE /\ batchStore' = store
               /\ IF batchTimerActive THEN UNCHANGED timerPart ELSE startBatchTimer
               /\ UNCHANGED inBatchCall

(* RecvMsg, of a transaction or of a request that another replica has      *)
(* broadcast: only the primary of an active view takes it.  A transaction  *)
(* is broadcast, another's request is ignored.                             *)
RecvMsg(t, req) ==
  /\ inBatchCall[t] = <<>> /\ req \in Fresh
  /\ IF leads /\ activeView
       THEN leaderProcReq(t, req) /\ UNCHANGED forwarded
       ELSE /\ forwarded' = forwarded \cup {req}
            /\ UNCHANGED <<timerPart, batchStore, inBatchCall, accepted>>
  /\ UNCHANGED <<pbftPart, timerThread, batches>>

(* The rest of sendBatch: pbft.request, and the lock again.                *)
RequestBatch(t) ==
  /\ inBatchCall[t] # <<>>
  /\ batches' = Append(batches, inBatchCall[t])
  /\ inBatchCall' = [inBatchCall EXCEPT ![t] = <<>>]
  /\ UNCHANGED <<pbftPart, timerPart, batchStore, timerThread, accepted, forwarded>>

(* batchTimerHander reads an expiry, and then takes the lock.              *)
BatchTimerWakes ==
  /\ timerThread = "waits" /\ inBatchCall["timer"] = <<>> /\ batchTimerC = 1
  /\ batchTimerC' = 0 /\ timerThread' = "woken"
  /\ UNCHANGED <<pbftPart, batchTimerActive, batchTimerRuns, batchStore, inBatchCall, accepted, forwarded, batches>>

batchTimerHander ==
  /\ timerThread = "woken"
  /\ timerThread' = "waits"
  /\ IF activeView /\ batchStore # <<>>
       THEN sendBatch("timer", batchStore)
       ELSE UNCHANGED <<timerPart, batchStore, inBatchCall>>
  /\ UNCHANGED <<pbftPart, accepted, forwarded, batches>>

(* The Go timer expires; its channel holds one value.                      *)
BatchTimerFires ==
  /\ batchTimerRuns
  /\ batchTimerRuns' = FALSE /\ batchTimerC' = 1
  /\ UNCHANGED <<pbftPart, batchTimerActive, batchStore, inBatchCall, timerThread, accepted, forwarded, batches>>

(* pbftCore sends a view-change, and later accepts a new view and calls    *)
(* viewChange.                                                             *)
LeaveView ==
  /\ activeView /\ viewChanges < MaxViewChanges
  /\ activeView' = FALSE /\ viewChanges' = viewChanges + 1
  /\ UNCHANGED <<leads, timerPart, batchStore, inBatchCall, timerThread, accepted, forwarded, batches>>

viewChange ==
  /\ ~activeView
  /\ activeView' = TRUE /\ leads' \in BOOLEAN
  /\ IF batchTimerActive THEN stopBatchTimer ELSE UNCHANGED timerPart
  /\ UNCHANGED <<viewChanges, batchStore, inBatchCall, timerThread, accepted, forwarded, batches>>

BatchNext ==
  \/ \E t \in BatchThreads, req \in BatchRequests : RecvMsg(t, req)
  \/ \E t \in Callers : RequestBatch(t)
  \/ BatchTimerWakes \/ batchTimerHander \/ BatchTimerFires \/ LeaveView \/ viewChange

(* The timer expires, and threads are scheduled.                           *)
BatchFairness ==
  /\ WF_batchVars(BatchTimerFires) /\ WF_batchVars(BatchTimerWakes)
  /\ WF_batchVars(batchTimerHander)
  /\ \A t \in Callers : WF_batchVars(RequestBatch(t))

BatchSpec == BatchInit /\ [][BatchNext]_batchVars /\ BatchFairness

-----------------------------------------------------------------------------
(* Types.                                                                  *)
BatchTypeOK ==
  /\ {leads, activeView, batchTimerActive, batchTimerRuns} \subseteq BOOLEAN /\ batchTimerC \in 0 .. 1
  /\ timerThread \in {"waits", "woken"}
  /\ \A t \in Callers : inBatchCall[t] \in Seq(BatchRequests)

(* No request is lost or sent twice between leaderProcReq and pbftCore,    *)
(* whoever sends the batch while the lock is released; and no batch is     *)
(* longer than batchSize, although sendBatch reads the whole store.        *)
BatchesPartitionAccepted ==
  LET inCalls == {t \in Callers : inBatchCall[t] # <<>>}
      taken == FlattenSeq(batches) \o batchStore
      held == UNION {ToSet(inBatchCall[t]) : t \in inCalls}
  IN /\ accepted = ToSet(taken) \cup held
     /\ Len(taken) + Cardinality(held) = Cardinality(accepted)
     /\ \A b \in ToSet(batches) : Len(b) <= BatchSize

(* Without a view change, whatever is in the store is sent: the timer runs *)
(* or an expiry is on its way, whichever way expiries, sends by size and   *)
(* sends by time interleave (leaderProcReq, stopBatchTimer).               *)
BatchSent ==
  (batchStore # <<>> /\ viewChanges = 0) ~> (batchStore = <<>> \/ viewChanges > 0)
=============================================================================
