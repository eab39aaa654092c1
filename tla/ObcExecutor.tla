------------------------------ MODULE ObcExecutor ------------------------------
(***************************************************************************)
(* The executor of one replica (consensus/obcpbft/obc-executor.go) and the *)
(* threads of pbftCore that call it.  A thread runs a handler under the    *)
(* lock of pbftCore, releases it to call Execute, but holds it throughout  *)
(* SkipTo.  The executor's own thread needs the lock for Checkpoint.       *)
(*                                                                         *)
(* What pbftCore decides is left open, within its watermarks: the requests *)
(* commit in sequence, and any checkpoint of the others may be witnessed.  *)
(* The ledger is the set of sequence numbers applied, the agreed state at  *)
(* number n is Agreed(n), and a block is what one number adds.             *)
(***************************************************************************)
EXTENDS Integers, Sequences, FiniteSets

CONSTANTS
    Threads,     \* the threads that receive messages, one for each connected peer
    K, L,        \* the checkpoint period and the log size
    QueueSize,   \* executor.queuesize
    Nulls,       \* the sequence numbers that got the null request
    MayFail,     \* whether the ledger may report an error
    MaxSeq       \* bound: the last sequence number

ASSUME ExecutorAssumption ==
    /\ K \in Nat \ {0} /\ L \in Nat \ {0} /\ QueueSize \in Nat \ {0} /\ MaxSeq \in Nat
    /\ Nulls \subseteq 1 .. MaxSeq /\ MayFail \in BOOLEAN

SeqNo == 0 .. MaxSeq
Checkpoints == {n \in 1 .. MaxSeq : n % K = 0}

VARIABLES
    \* pbftCore, under its lock
    lastExec, h, skipInProgress,
    chkpts,      \* the sequence numbers that chkpts has an entry for
    thread,      \* thread[t]: where thread t is, and the sequence number it is there with
    \* obcExecutor
    executionQueue,
    executor,    \* where queueThread is, and the sequence number it is there with
    applied,     \* its lastExec
    ledger,
    \* StateTransferState
    blockHashReceiver,   \* its buffered channel of targets, of capacity one
    lost         \* history: the requests discarded, failed, left to state transfer or
                 \* undone by it that have not reached the ledger since

pbft == <<lastExec, h, skipInProgress, chkpts>>
vars == <<pbft, thread, executionQueue, executor, applied, ledger, blockHashReceiver, lost>>

at(pc, n) == [pc |-> pc, n |-> n]
Idle == at("idle", 0)
Agreed(n) == (1 .. n) \ Nulls
request(n) == [n |-> n, sync |-> FALSE]
syncTo(n) == [n |-> n, sync |-> TRUE]

\* Nobody is in SkipTo, the one call made with the lock held.
Unlocked == \A t \in Threads : thread[t].pc \notin {"skip", "offer"}

\* A thread that has nothing else to do takes the lock.
Enters(t) == thread[t] = Idle /\ Unlocked

Init ==
    /\ lastExec = 0 /\ h = 0 /\ skipInProgress = FALSE /\ chkpts = {0}
    /\ thread = [t \in Threads |-> Idle]
    /\ executionQueue = <<>> /\ executor = Idle /\ applied = 0 /\ ledger = {}
    /\ blockHashReceiver = {} /\ lost = {}

-----------------------------------------------------------------------------
(* pbftCore's side. *)

\* executeOne, up to where it releases the lock; no call for most null requests.
ExecuteOne(t) ==
    LET n == lastExec + 1
    IN  /\ Enters(t) /\ ~skipInProgress
        /\ n <= h + L /\ n <= MaxSeq
        /\ lastExec' = n
        /\ thread' = IF n \in Nulls /\ n % K # 0 THEN thread
                     ELSE [thread EXCEPT ![t] = at("call", n)]
        /\ UNCHANGED <<h, skipInProgress, chkpts, executionQueue, executor, applied, ledger,
                       blockHashReceiver, lost>>

\* recvCheckpoint finds F+1 replicas beyond the high watermark.
FallBehind(t) ==
    \E n \in Checkpoints :
        /\ Enters(t) /\ n > h + L
        /\ h' = n /\ skipInProgress' = TRUE /\ chkpts' = {c \in chkpts : c >= n}
        /\ UNCHANGED <<lastExec, thread, executionQueue, executor, applied, ledger,
                       blockHashReceiver, lost>>

\* recvCheckpoint finds a quorum for a checkpoint that this replica has too.
StableCheckpoint(t) ==
    \E n \in chkpts :
        /\ Enters(t) /\ h < n /\ n <= h + L
        /\ h' = n /\ chkpts' = {c \in chkpts : c >= n}
        /\ UNCHANGED <<lastExec, skipInProgress, thread, executionQueue, executor, applied,
                       ledger, blockHashReceiver, lost>>

\* The requests that a drain of the queue discards and that are still to be applied.
Discarded == {n \in (applied + 1 .. MaxSeq) \ Nulls :
                \E j \in DOMAIN executionQueue : executionQueue[j] = request(n)}

Skipped(n) == {m \in Agreed(n) : m > applied}

\* moveWatermarks(n), lastExec = n, and the call of SkipTo, which begins by
\* draining the queue.  The requests up to n are left to state transfer.
SkipTo(t, n) ==
    /\ h' = n /\ lastExec' = n /\ chkpts' = {c \in chkpts : c >= n}
    /\ executionQueue' = <<>> /\ lost' = lost \cup Discarded \cup Skipped(n)
    /\ thread' = [thread EXCEPT ![t] = at("skip", n)]
    /\ UNCHANGED <<executor, applied, ledger, blockHashReceiver>>

\* processNewView, for a new view that starts at a later checkpoint.
NewView(t) ==
    \E n \in Checkpoints :
        /\ Enters(t) /\ n > h
        /\ SkipTo(t, n) /\ UNCHANGED skipInProgress

\* witnessCheckpointWeakCert, while it waits for somewhere to go on from...
WitnessSkip(t) ==
    \E n \in Checkpoints :
        /\ Enters(t) /\ skipInProgress /\ h < n /\ n <= h + L
        /\ skipInProgress' = FALSE /\ SkipTo(t, n)

\* ...and otherwise: ValidState hands over the target only if queueThread is
\* waiting for one right now.
ValidState(t) ==
    \E n \in Checkpoints :
        /\ Enters(t) /\ ~skipInProgress /\ h < n /\ n <= h + L
        /\ executor.pc \in {"sync", "transfer"}
        /\ blockHashReceiver' = {n}
        /\ UNCHANGED <<pbft, thread, executionQueue, executor, applied, ledger, lost>>

-----------------------------------------------------------------------------
(* The calls of the executor. *)

RoomOffByOne == Len(executionQueue) <= QueueSize

Room == Len(executionQueue) < QueueSize

Push(t, tx, next) ==
    /\ Room
    /\ executionQueue' = Append(executionQueue, tx)
    /\ thread' = [thread EXCEPT ![t] = next]
    /\ UNCHANGED <<pbft, executor, applied, ledger, blockHashReceiver, lost>>

\* Execute, when there is room in the queue...
Execute(t) ==
    /\ thread[t].pc = "call"
    /\ Push(t, request(thread[t].n), Idle)

\* ...and when there is none: the queue is emptied, and a request for state
\* transfer goes into it first.
ExecuteFull(t) ==
    /\ thread[t].pc = "call" /\ ~Room
    /\ executionQueue' = <<>> /\ lost' = lost \cup Discarded
    /\ thread' = [thread EXCEPT ![t] = at("full", thread[t].n)]
    /\ UNCHANGED <<pbft, executor, applied, ledger, blockHashReceiver>>

ExecuteSync(t) ==
    /\ thread[t].pc = "full"
    /\ Push(t, syncTo(thread[t].n), at("resend", thread[t].n))

ExecuteResend(t) ==
    /\ thread[t].pc = "resend"
    /\ Push(t, request(thread[t].n), Idle)

\* SkipTo, after draining the queue.
SkipToPush(t) ==
    /\ thread[t].pc = "skip"
    /\ Push(t, syncTo(thread[t].n), at("offer", thread[t].n))

SkipToOffer(t) ==
    /\ thread[t].pc = "offer"
    /\ executor.pc \in {"sync", "transfer"}
    /\ blockHashReceiver' = {thread[t].n}
    /\ thread' = [thread EXCEPT ![t] = Idle]
    /\ UNCHANGED <<pbft, executionQueue, executor, applied, ledger, lost>>

-----------------------------------------------------------------------------
(* The executor's thread. *)

\* Applies again what is applied already.
TakeAgain ==
    LET tx == Head(executionQueue)
    IN  /\ executor = Idle /\ executionQueue # <<>>
        /\ executionQueue' = Tail(executionQueue)
        /\ executor' = IF tx.sync THEN at("sync", tx.n)
                       ELSE IF tx.n \in Nulls THEN at("checkpoint", tx.n)
                       ELSE at("execute", tx.n)
        /\ UNCHANGED <<pbft, thread, applied, ledger, blockHashReceiver, lost>>

\* queueThread takes a transaction from the queue, unless it has applied it.
Take ==
    LET tx == Head(executionQueue)
    IN  /\ executor = Idle /\ executionQueue # <<>>
        /\ executionQueue' = Tail(executionQueue)
        /\ executor' = IF tx.n <= applied THEN Idle
                       ELSE IF tx.sync THEN at("sync", tx.n)
                       ELSE IF tx.n \in Nulls THEN at("checkpoint", tx.n)
                       ELSE at("execute", tx.n)
        /\ UNCHANGED <<pbft, thread, applied, ledger, blockHashReceiver, lost>>

\* execute, when it commits...
Commit ==
    LET n == executor.n
    IN  /\ executor.pc = "execute"
        /\ ledger' = ledger \cup {n} /\ applied' = n /\ lost' = lost \ {n}
        /\ executor' = IF n % K = 0 THEN at("checkpoint", 0) ELSE Idle
        /\ UNCHANGED <<pbft, thread, executionQueue, blockHashReceiver>>

\* ...and when the ledger reports an error: the batch is rolled back and the thread
\* goes on with the next request.
CommitFails ==
    /\ MayFail /\ executor.pc = "execute"
    /\ lost' = lost \cup {executor.n} /\ executor' = Idle
    /\ UNCHANGED <<pbft, thread, executionQueue, applied, ledger, blockHashReceiver>>

\* attemptStateTransfer takes the target that is waiting, if it is not behind the
\* last block.
StartTransfer ==
    \E n \in blockHashReceiver :
        /\ executor.pc = "sync"
        /\ blockHashReceiver' = {}
        /\ executor' = IF Cardinality(Agreed(n)) < Cardinality(ledger) THEN executor
                       ELSE at("transfer", n)
        /\ UNCHANGED <<pbft, thread, executionQueue, applied, ledger, lost>>

\* stateTransferCompleted, and the end of sync.  A target with as many blocks as the
\* ledger but an earlier number undoes what was applied since.
CompleteTransfer ==
    LET n == executor.n
    IN  /\ executor.pc = "transfer"
        /\ ledger' = Agreed(n) /\ applied' = n /\ lost' = {m \in lost \cup ledger : m > n}
        /\ executor' = at("checkpoint", n)
        /\ UNCHANGED <<pbft, thread, executionQueue, blockHashReceiver>>

\* pbftCore.Checkpoint, which waits for the lock.
Checkpoint ==
    /\ executor.pc = "checkpoint" /\ Unlocked
    /\ chkpts' = IF executor.n % K = 0 THEN chkpts \cup {lastExec} ELSE chkpts
    /\ executor' = Idle
    /\ UNCHANGED <<lastExec, h, skipInProgress, thread, executionQueue, applied, ledger,
                   blockHashReceiver, lost>>

ThreadStep(t) ==
    \/ ExecuteOne(t) \/ FallBehind(t) \/ StableCheckpoint(t)
    \/ NewView(t) \/ WitnessSkip(t) \/ ValidState(t)
    \/ Execute(t) \/ ExecuteFull(t) \/ ExecuteSync(t) \/ ExecuteResend(t)
    \/ SkipToPush(t) \/ SkipToOffer(t)

ExecutorStep ==
    \/ Take \/ Commit \/ CommitFails \/ StartTransfer \/ CompleteTransfer
    \/ Checkpoint

Next == ExecutorStep \/ \E t \in Threads : ThreadStep(t)

Spec == Init /\ [][Next]_vars

\* Goroutines are scheduled, the ledger answers and a state transfer ends.
FairSpec == Spec /\ WF_vars(ExecutorStep) /\ \A t \in Threads : WF_vars(ThreadStep(t))

-----------------------------------------------------------------------------
(* Properties. *)

Pcs == {"idle", "call", "full", "resend", "skip", "offer"}
ExecutorPcs == {"idle", "execute", "checkpoint", "sync", "transfer"}

\* The state stays within its types, and the queue within its capacity.
TypeOK ==
    /\ lastExec \in SeqNo /\ h \in SeqNo /\ skipInProgress \in BOOLEAN /\ chkpts \subseteq SeqNo
    /\ thread \in [Threads -> [pc : Pcs, n : SeqNo]]
    /\ executionQueue \in Seq([n : SeqNo, sync : BOOLEAN]) /\ Len(executionQueue) <= QueueSize
    /\ executor \in [pc : ExecutorPcs, n : SeqNo] /\ (executor.pc = "execute" => executor.n # 0)
    /\ applied \in SeqNo /\ ledger \subseteq 1 .. MaxSeq /\ blockHashReceiver \subseteq SeqNo
    /\ lost \subseteq 1 .. MaxSeq

\* The ledger holds every request up to the last one applied, and nothing else, but
\* for those that the executor itself gave up: discarded from the queue, failed,
\* left to a state transfer that stopped short of them, or undone by one.
NoGap == ledger = Agreed(applied) \ lost

\* The ledger holds every request up to the last one applied.
Complete == ledger = Agreed(applied)

\* SkipTo, which the whole replica waits for, returns.
SkipToReturns == \A t \in Threads : thread[t].pc = "offer" ~> thread[t] = Idle

=============================================================================
