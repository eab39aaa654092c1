--------------------------- MODULE ObcExecutorProofs ---------------------------
(***************************************************************************)
(* The executor keeps its types, and with a single thread calling it every *)
(* request up to the last one applied is in the ledger or was given up by  *)
(* the executor itself, for all periods, queue sizes and sequence numbers. *)
(***************************************************************************)
EXTENDS ObcExecutor, TLAPS

Transaction == [n : SeqNo, sync : BOOLEAN]

\* What the executor's queue and the places of its callers hold.
LEMMA ConstantTypes ==
    /\ \A pc \in Pcs, n \in SeqNo : at(pc, n) \in [pc : Pcs, n : SeqNo]
    /\ \A pc \in ExecutorPcs, n \in SeqNo : at(pc, n) \in [pc : ExecutorPcs, n : SeqNo]
    /\ Idle \in [pc : Pcs, n : SeqNo] /\ Idle \in [pc : ExecutorPcs, n : SeqNo]
    /\ \A n \in SeqNo : request(n) \in Transaction /\ syncTo(n) \in Transaction
    /\ \A n \in SeqNo : Agreed(n) \subseteq 1 .. MaxSeq
    /\ Checkpoints \subseteq SeqNo
BY ExecutorAssumption DEF at, Idle, Pcs, ExecutorPcs, SeqNo, request, syncTo, Transaction, Agreed,
   Checkpoints

\* A transaction pushed by Execute or SkipTo fits in the queue.
LEMMA PushType ==
    ASSUME TypeOK, NEW t \in Threads, NEW tx \in Transaction, NEW next \in [pc : Pcs, n : SeqNo],
           Push(t, tx, next)
    PROVE  TypeOK'
BY ExecutorAssumption DEF TypeOK, Push, Room, pbft, Transaction, SeqNo

\* SkipTo empties the queue.
LEMMA SkipToType ==
    ASSUME TypeOK, NEW t \in Threads, NEW n \in Checkpoints, SkipTo(t, n),
           skipInProgress' \in BOOLEAN
    PROVE  TypeOK'
<1>1. n \in SeqNo /\ at("skip", n) \in [pc : Pcs, n : SeqNo]  BY ConstantTypes DEF Pcs
<1>2. Discarded \subseteq 1 .. MaxSeq  BY ExecutorAssumption DEF Discarded, TypeOK, SeqNo
<1>3. Skipped(n) \subseteq 1 .. MaxSeq  BY <1>1, ConstantTypes DEF Skipped
<1>4. chkpts' \subseteq SeqNo /\ lost' \subseteq 1 .. MaxSeq
  BY <1>2, <1>3 DEF TypeOK, SkipTo
<1>5. executionQueue' = <<>> /\ <<>> \in Seq([n : SeqNo, sync : BOOLEAN]) /\ Len(<<>>) = 0
  BY DEF SkipTo
<1> QED  BY <1>1, <1>4, <1>5, ExecutorAssumption DEF TypeOK, SkipTo

\* Every step of a caller keeps the types.
LEMMA ThreadStepType ==
    ASSUME TypeOK, NEW t \in Threads, ThreadStep(t)
    PROVE  TypeOK'
<1> USE ExecutorAssumption
<1>0. thread[t] \in [pc : Pcs, n : SeqNo]  BY DEF TypeOK
<1>1. CASE ExecuteOne(t)
  <2>1. lastExec + 1 \in SeqNo  BY <1>1 DEF ExecuteOne, TypeOK, SeqNo
  <2>2. at("call", lastExec + 1) \in [pc : Pcs, n : SeqNo]  BY <2>1, ConstantTypes DEF Pcs
  <2> QED  BY <1>1, <2>1, <2>2 DEF ExecuteOne, TypeOK
<1>2. CASE FallBehind(t)
  BY <1>2, ConstantTypes DEF FallBehind, TypeOK
<1>3. CASE StableCheckpoint(t)
  BY <1>3 DEF StableCheckpoint, TypeOK
<1>4. CASE NewView(t)
  BY <1>4, SkipToType DEF NewView, TypeOK
<1>5. CASE WitnessSkip(t)
  BY <1>5, SkipToType DEF WitnessSkip, TypeOK
<1>6. CASE ValidState(t)
  BY <1>6, ConstantTypes DEF ValidState, TypeOK, pbft
<1>7. CASE Execute(t)
  BY <1>0, <1>7, PushType, ConstantTypes DEF Execute
<1>8. CASE ExecuteFull(t)
  <2>1. Discarded \subseteq 1 .. MaxSeq  BY DEF Discarded, TypeOK, SeqNo
  <2>2. at("full", thread[t].n) \in [pc : Pcs, n : SeqNo]  BY <1>0, ConstantTypes DEF Pcs
  <2> QED  BY <1>8, <2>1, <2>2 DEF ExecuteFull, TypeOK, pbft
<1>9. CASE ExecuteSync(t)
  <2>1. at("resend", thread[t].n) \in [pc : Pcs, n : SeqNo]  BY <1>0, ConstantTypes DEF Pcs
  <2> QED  BY <1>0, <1>9, <2>1, PushType, ConstantTypes DEF ExecuteSync
<1>10. CASE ExecuteResend(t)
  BY <1>0, <1>10, PushType, ConstantTypes DEF ExecuteResend
<1>11. CASE SkipToPush(t)
  <2>1. at("offer", thread[t].n) \in [pc : Pcs, n : SeqNo]  BY <1>0, ConstantTypes DEF Pcs
  <2> QED  BY <1>0, <1>11, <2>1, PushType, ConstantTypes DEF SkipToPush
<1>12. CASE SkipToOffer(t)
  BY <1>0, <1>12, ConstantTypes DEF SkipToOffer, TypeOK, pbft
<1> QED  BY <1>1, <1>2, <1>3, <1>4, <1>5, <1>6, <1>7, <1>8, <1>9, <1>10, <1>11, <1>12 DEF ThreadStep

\* Every step of queueThread keeps the types.
LEMMA ExecutorStepType ==
    ASSUME TypeOK, ExecutorStep
    PROVE  TypeOK'
<1> USE ExecutorAssumption
<1>0. executor \in [pc : ExecutorPcs, n : SeqNo]  BY DEF TypeOK
<1>1. CASE Take
  <2>1. executionQueue \in Seq(Transaction) /\ executionQueue # <<>>
    BY <1>1 DEF Take, TypeOK, Transaction
  <2>2. /\ Head(executionQueue) \in Transaction /\ Tail(executionQueue) \in Seq(Transaction)
        /\ Len(Tail(executionQueue)) <= Len(executionQueue)
    BY <2>1
  <2>3. executor' \in [pc : ExecutorPcs, n : SeqNo]
    BY <1>1, <2>2, ConstantTypes DEF Take, Transaction, ExecutorPcs
  <2>5. executor'.pc = "execute" => executor'.n # 0
    BY <1>1, <2>2 DEF Take, Transaction, TypeOK, SeqNo, at, Idle
  <2>4. executionQueue' = Tail(executionQueue) /\ Len(executionQueue') <= QueueSize
    BY <1>1, <2>1, <2>2 DEF Take, TypeOK
  <2> QED  BY <1>1, <2>2, <2>3, <2>4, <2>5 DEF Take, TypeOK, Transaction, pbft
<1>2. CASE Commit
  <2>1. executor' \in [pc : ExecutorPcs, n : SeqNo]
    BY <1>2, ConstantTypes DEF Commit, ExecutorPcs, SeqNo
  <2>2. executor'.pc # "execute"  BY <1>2 DEF Commit, at, Idle
  <2>3. executor.n \in 1 .. MaxSeq  BY <1>0, <1>2 DEF Commit, TypeOK, SeqNo
  <2> QED  BY <1>0, <1>2, <2>1, <2>2, <2>3 DEF Commit, TypeOK, pbft
<1>3. CASE CommitFails
  <2>1. executor.n \in 1 .. MaxSeq  BY <1>0, <1>3 DEF CommitFails, TypeOK, SeqNo
  <2>2. executor'.pc # "execute"  BY <1>3 DEF CommitFails, at, Idle
  <2> QED  BY <1>3, <2>1, <2>2, ConstantTypes DEF CommitFails, TypeOK, pbft
<1>4. CASE StartTransfer
  <2>1. executor' \in [pc : ExecutorPcs, n : SeqNo]
    BY <1>0, <1>4, ConstantTypes DEF StartTransfer, ExecutorPcs, TypeOK
  <2>2. executor'.pc # "execute"  BY <1>4 DEF StartTransfer, at
  <2> QED  BY <1>4, <2>1, <2>2 DEF StartTransfer, TypeOK, pbft
<1>5. CASE CompleteTransfer
  <2>1. executor' \in [pc : ExecutorPcs, n : SeqNo]
    BY <1>0, <1>5, ConstantTypes DEF CompleteTransfer, ExecutorPcs
  <2>2. ledger' \subseteq 1 .. MaxSeq  BY <1>0, <1>5, ConstantTypes DEF CompleteTransfer
  <2>3. executor'.pc # "execute"  BY <1>5 DEF CompleteTransfer, at
  <2> QED  BY <1>0, <1>5, <2>1, <2>2, <2>3 DEF CompleteTransfer, TypeOK, pbft
<1>6. CASE Checkpoint
  BY <1>6, ConstantTypes DEF Checkpoint, TypeOK, Idle, at
<1> QED  BY <1>1, <1>2, <1>3, <1>4, <1>5, <1>6 DEF ExecutorStep

\* The initial state has its types.
LEMMA InitType == Init => TypeOK
<1>1. <<>> \in Seq([n : SeqNo, sync : BOOLEAN]) /\ Len(<<>>) = 0  OBVIOUS
<1>2. 0 \in SeqNo /\ Idle.pc # "execute"  BY ExecutorAssumption DEF SeqNo, Idle, at
<1> SUFFICES ASSUME Init PROVE TypeOK  OBVIOUS
<1>3. thread \in [Threads -> [pc : Pcs, n : SeqNo]]  BY ConstantTypes DEF Init
<1>4. executionQueue \in Seq([n : SeqNo, sync : BOOLEAN]) /\ Len(executionQueue) <= QueueSize
  BY <1>1, ExecutorAssumption DEF Init
<1> QED  BY <1>2, <1>3, <1>4, ConstantTypes DEF Init, TypeOK

\* The executor's types and the capacity of its queue, however many threads call it.
THEOREM TypeCorrect == Spec => []TypeOK
<1>1. Init => TypeOK  BY InitType
<1>2. TypeOK /\ [Next]_vars => TypeOK'
  <2> SUFFICES ASSUME TypeOK, [Next]_vars PROVE TypeOK'  OBVIOUS
  <2>1. CASE UNCHANGED vars  BY <2>1 DEF TypeOK, vars, pbft
  <2> QED  BY <2>1, ThreadStepType, ExecutorStepType DEF Next
<1> QED  BY <1>1, <1>2, PTL DEF Spec

-----------------------------------------------------------------------------
(* The inductive invariant. *)

\* The requests that are still to be applied.
Pending == {x \in 1 .. MaxSeq : x > applied /\ x \notin Nulls}

\* A request was given up, is being executed, or waits before place k of the queue.
Accounted(x, k) ==
    \/ x \in lost
    \/ executor = at("execute", x)
    \/ \E j \in 1 .. k - 1 : executionQueue[j] = request(x)

\* The thread holds the request of lastExec, which it has still to put in the queue.
Calls(t) == thread[t].pc \in {"call", "full", "resend"}

\* Whatever is executed, queued or about to be queued has every request before it
\* accounted for.
InOrder ==
    /\ executor.pc = "execute" => /\ executor.n \in Pending
                                  /\ \A x \in Pending : x < executor.n => x \in lost
    /\ \A k \in 1 .. Len(executionQueue) : ~executionQueue[k].sync =>
         \A x \in Pending : x < executionQueue[k].n => Accounted(x, k)
    /\ \A t \in Threads :
         /\ Calls(t) => thread[t].n = lastExec
         /\ \A x \in Pending :
              x < lastExec \/ (x = lastExec /\ ~Calls(t)) => Accounted(x, Len(executionQueue) + 1)

Inv == TypeOK /\ NoGap /\ InOrder

\* A thread that puts the request of lastExec, or a state transfer, in the queue.
LEMMA PushInOrder ==
    ASSUME Inv, NEW t, Threads = {t}, NEW tx \in Transaction, NEW next \in [pc : Pcs, n : SeqNo],
           Push(t, tx, next),
           tx.sync \/ (Calls(t) /\ tx = request(thread[t].n)),
           next.pc \in {"call", "full", "resend"} => Calls(t) /\ next.n = lastExec,
           next.pc \notin {"call", "full", "resend"} => ~Calls(t) \/ tx = request(lastExec)
    PROVE  NoGap' /\ InOrder'
<1> DEFINE q == executionQueue
<1>0. PICK m \in Nat : m = Len(q)  BY DEF Inv, TypeOK
<1>1. q \in Seq(Transaction) /\ lastExec \in SeqNo
  BY DEF Inv, TypeOK, Transaction
<1>2. /\ q' = Append(q, tx) /\ Len(q') = m + 1 /\ q'[m + 1] = tx
      /\ \A j \in 1 .. m : q'[j] = q[j]
  BY <1>0, <1>1 DEF Push
<1>3. UNCHANGED <<lastExec, executor, applied, ledger, lost, Pending>>
  BY DEF Push, pbft, Pending
<1>4. thread'[t] = next  BY DEF Push, Inv, TypeOK
<1>5. \A x \in Pending, k \in 1 .. m + 1 : Accounted(x, k) => Accounted(x, k)'
  BY <1>1, <1>2, <1>3 DEF Accounted
<1>6. \A x \in Pending : Accounted(x, m + 1) => Accounted(x, m + 2)'
  BY <1>1, <1>2, <1>3 DEF Accounted
<1>7. NoGap'  BY <1>3 DEF Inv, NoGap, Agreed
<1>8. \A k \in 1 .. m + 1 : ~q'[k].sync => \A x \in Pending : x < q'[k].n => Accounted(x, k)'
  <2> SUFFICES ASSUME NEW k \in 1 .. m + 1, ~q'[k].sync, NEW x \in Pending, x < q'[k].n
               PROVE  Accounted(x, k)'
    OBVIOUS
  <2>1. CASE k \in 1 .. m
    BY <1>0, <1>1, <1>2, <1>5, <2>1 DEF Inv, InOrder
  <2>2. CASE k = m + 1
    <3>1. x < lastExec
      BY <1>2, <2>2 DEF Inv, InOrder, request
    <3> QED  BY <1>0, <1>5, <2>2, <3>1 DEF Inv, InOrder
  <2> QED  BY <1>1, <2>1, <2>2
<1>9. Calls(t)' => thread'[t].n = lastExec  BY <1>4 DEF Calls
<1>10. \A x \in Pending : x < lastExec \/ (x = lastExec /\ ~Calls(t)') => Accounted(x, m + 2)'
  <2> SUFFICES ASSUME NEW x \in Pending, x < lastExec \/ (x = lastExec /\ ~Calls(t)')
               PROVE  Accounted(x, m + 2)'
    OBVIOUS
  <2>1. CASE x < lastExec \/ ~Calls(t)
    BY <1>0, <1>6, <2>1 DEF Inv, InOrder
  <2>2. CASE x = lastExec /\ Calls(t)
    <3>1. tx = request(x)  BY <1>4, <2>2 DEF Calls, Pending
    <3>2. m + 1 \in 1 .. (m + 2) - 1  BY <1>1
    <3> QED  BY <1>2, <3>1, <3>2 DEF Accounted
  <2> QED  BY <2>1, <2>2
<1>11. executor'.pc = "execute" => /\ executor'.n \in Pending'
                                   /\ \A x \in Pending' : x < executor'.n => x \in lost'
  BY <1>3 DEF Inv, InOrder
<1>12. Len(q') + 1 = m + 2  BY <1>1, <1>2
<1> QED  BY <1>2, <1>3, <1>7, <1>8, <1>9, <1>10, <1>11, <1>12 DEF InOrder

\* A step that neither queues nor applies a request, and owes none it did not owe before.
LEMMA QuietInOrder ==
    ASSUME Inv, NEW t, Threads = {t}, UNCHANGED <<executionQueue, applied, ledger, lost>>,
           UNCHANGED executor \/ (executor.pc # "execute" /\ executor'.pc # "execute"),
           Calls(t)' => thread'[t].n = lastExec',
           \A x \in Pending : x < lastExec' \/ (x = lastExec' /\ ~Calls(t)')
                                => x < lastExec \/ (x = lastExec /\ ~Calls(t))
    PROVE  NoGap' /\ InOrder'
<1>0. PICK m \in Nat : m = Len(executionQueue) + 1  BY DEF Inv, TypeOK
<1>1. NoGap' /\ Pending' = Pending  BY DEF Inv, NoGap, Agreed, Pending
<1>2. \A x : executor = at("execute", x) => executor'= at("execute", x)  BY DEF at
<1>3. \A x, k : Accounted(x, k) => Accounted(x, k)'  BY <1>2 DEF Accounted
<1>4. executor'.pc = "execute" => executor'.n \in Pending /\ \A x \in Pending : x < executor'.n => x \in lost
  BY DEF Inv, InOrder
<1>5. \A x \in Pending : x < lastExec' \/ (x = lastExec' /\ ~Calls(t)') => Accounted(x, m)'
  BY <1>0, <1>3 DEF Inv, InOrder
<1>6. \A k \in 1 .. Len(executionQueue) : ~executionQueue[k].sync =>
         \A x \in Pending : x < executionQueue[k].n => Accounted(x, k)'
  BY <1>3 DEF Inv, InOrder
<1> QED  BY <1>0, <1>1, <1>4, <1>5, <1>6 DEF InOrder

\* A step that empties the queue gives up what was in it.
LEMMA DrainInOrder ==
    ASSUME Inv, NEW t, Threads = {t}, UNCHANGED <<executor, applied, ledger>>,
           executionQueue' = <<>>, lost \cup Discarded \subseteq lost', lost' \subseteq lost \cup Pending,
           Calls(t)' => thread'[t].n = lastExec',
           \A x \in Pending : x < lastExec' \/ (x = lastExec' /\ ~Calls(t)')
                                => x \in lost' \/ x < lastExec \/ (x = lastExec /\ ~Calls(t))
    PROVE  NoGap' /\ InOrder'
<1>0. PICK m \in Nat : m = Len(executionQueue) + 1  BY DEF Inv, TypeOK
<1>1. Pending' = Pending  BY DEF Pending
<1>2. NoGap'
  <2>1. \A x \in Agreed(applied) : x \notin Pending
    BY ExecutorAssumption DEF Agreed, Pending, Inv, TypeOK, SeqNo
  <2>2. \A x \in Agreed(applied) : x \in lost' <=> x \in lost  BY <2>1
  <2>3. Agreed(applied)' = Agreed(applied)  BY DEF Agreed
  <2> QED  BY <2>2, <2>3 DEF Inv, NoGap
<1>3. \A x \in Pending : Accounted(x, m) => Accounted(x, 1)'
  <2> SUFFICES ASSUME NEW x \in Pending, Accounted(x, m) PROVE Accounted(x, 1)'  OBVIOUS
  <2>1. ASSUME NEW j \in 1 .. m - 1, executionQueue[j] = request(x) PROVE x \in lost'
    <3>1. x \in (applied + 1 .. MaxSeq) \ Nulls  BY ExecutorAssumption DEF Pending, Inv, TypeOK, SeqNo
    <3>2. j \in DOMAIN executionQueue  BY <1>0 DEF Inv, TypeOK
    <3>3. x \in Discarded  BY <2>1, <3>1, <3>2 DEF Discarded
    <3> QED  BY <3>3
  <2> QED  BY <2>1 DEF Accounted
<1>4. \A x : x \in lost' => Accounted(x, 1)'  BY DEF Accounted
<1>5. \A x \in Pending : x < lastExec' \/ (x = lastExec' /\ ~Calls(t)') => Accounted(x, 1)'
  BY <1>0, <1>3, <1>4 DEF Inv, InOrder
<1>6. executor.pc = "execute" => executor.n \in Pending /\ \A x \in Pending : x < executor.n => x \in lost'
  BY DEF Inv, InOrder
<1>7. Len(executionQueue') = 0 /\ 1 .. Len(executionQueue') = {}  OBVIOUS
<1> QED  BY <1>1, <1>2, <1>5, <1>6, <1>7 DEF InOrder

\* Every step of the one thread that calls the executor.
LEMMA ThreadStepInOrder ==
    ASSUME Inv, NEW t, Threads = {t}, ThreadStep(t)
    PROVE  NoGap' /\ InOrder'
<1>0. /\ thread \in [Threads -> [pc : Pcs, n : SeqNo]] /\ thread[t] \in [pc : Pcs, n : SeqNo]
      /\ lastExec \in SeqNo /\ t \in Threads /\ lastExec \in Int
  BY ExecutorAssumption DEF Inv, TypeOK, SeqNo
<1>n. Calls(t) => thread[t].n = lastExec  BY <1>0 DEF Inv, InOrder
<1>1. CASE ExecuteOne(t)
  <2>1. lastExec' = lastExec + 1 /\ ~Calls(t) /\ UNCHANGED <<executionQueue, applied, ledger, lost, executor>>
    BY <1>1 DEF ExecuteOne, Enters, Calls, Idle, at
  <2>2. CASE lastExec + 1 \in Nulls /\ (lastExec + 1) % K # 0
    <3>1. thread' = thread  BY <1>1, <2>2 DEF ExecuteOne
    <3> QED  BY <1>0, <2>1, <2>2, <3>1, QuietInOrder DEF Calls, Pending
  <2>3. CASE ~(lastExec + 1 \in Nulls /\ (lastExec + 1) % K # 0)
    <3>1. thread'[t] = at("call", lastExec + 1)  BY <1>0, <1>1, <2>3 DEF ExecuteOne
    <3>2. Calls(t)' /\ thread'[t].n = lastExec'  BY <2>1, <3>1 DEF Calls, at
    <3> QED  BY <1>0, <2>1, <3>2, QuietInOrder DEF Pending
  <2> QED  BY <2>2, <2>3
<1>2. CASE FallBehind(t)
  BY <1>2, <1>n, QuietInOrder DEF FallBehind, Calls
<1>3. CASE StableCheckpoint(t)
  BY <1>3, <1>n, QuietInOrder DEF StableCheckpoint, Calls
<1>6. CASE ValidState(t)
  BY <1>6, <1>n, QuietInOrder DEF ValidState, Calls, pbft
<1>12. CASE SkipToOffer(t)
  <2>1. ~Calls(t) /\ ~Calls(t)'  BY <1>0, <1>12 DEF SkipToOffer, Calls, Idle, at
  <2> QED  BY <1>12, <2>1, QuietInOrder DEF SkipToOffer, pbft
<1>4. ASSUME NEW n \in Checkpoints, Enters(t), SkipTo(t, n) PROVE NoGap' /\ InOrder'
  <2>1. ~Calls(t)'  BY <1>0, <1>4 DEF SkipTo, Calls, at
  <2>2. Discarded \subseteq Pending  BY ExecutorAssumption DEF Discarded, Pending, Inv, TypeOK, SeqNo
  <2>3. n \in SeqNo  BY ConstantTypes
  <2>4. Skipped(n) \subseteq Pending /\ \A x \in Pending : x < n \/ x = n => x \in Skipped(n)
    BY <2>3, ExecutorAssumption DEF SeqNo, Pending, Skipped, Agreed
  <2> QED  BY <1>4, <2>1, <2>2, <2>4, DrainInOrder DEF SkipTo
<1>5. CASE NewView(t) \/ WitnessSkip(t)
  BY <1>4, <1>5 DEF NewView, WitnessSkip
<1>8. CASE ExecuteFull(t)
  <2>1. Calls(t) /\ Calls(t)' /\ thread'[t].n = thread[t].n
    BY <1>0, <1>8 DEF ExecuteFull, Calls, at
  <2>2. Discarded \subseteq Pending  BY ExecutorAssumption DEF Discarded, Pending, Inv, TypeOK, SeqNo
  <2> QED  BY <1>8, <1>n, <2>1, <2>2, DrainInOrder DEF ExecuteFull, pbft
<1>7. CASE Execute(t) \/ ExecuteResend(t)
  <2>1. Calls(t) /\ Push(t, request(thread[t].n), Idle)
    BY <1>7 DEF Execute, ExecuteResend, Calls
  <2>2. /\ request(thread[t].n) \in Transaction /\ Idle \in [pc : Pcs, n : SeqNo]
        /\ Idle.pc \notin {"call", "full", "resend"}
    BY <1>0, ConstantTypes DEF Idle, at
  <2>3. thread[t].n = lastExec  BY <1>n, <2>1
  <2> QED  BY <2>1, <2>2, <2>3, PushInOrder
<1>9. CASE ExecuteSync(t)
  <2>1. Calls(t) /\ Push(t, syncTo(thread[t].n), at("resend", thread[t].n))
    BY <1>9 DEF ExecuteSync, Calls
  <2>2. /\ syncTo(thread[t].n) \in Transaction /\ syncTo(thread[t].n).sync
        /\ at("resend", thread[t].n) \in [pc : Pcs, n : SeqNo]
    BY <1>0, ConstantTypes DEF syncTo, Pcs
  <2>3. at("resend", thread[t].n).pc = "resend" /\ at("resend", thread[t].n).n = lastExec
    BY <1>n, <2>1 DEF at
  <2> QED  BY <2>1, <2>2, <2>3, PushInOrder
<1>11. CASE SkipToPush(t)
  <2>1. ~Calls(t) /\ Push(t, syncTo(thread[t].n), at("offer", thread[t].n))
    BY <1>11 DEF SkipToPush, Calls
  <2>2. /\ syncTo(thread[t].n) \in Transaction /\ syncTo(thread[t].n).sync
        /\ at("offer", thread[t].n) \in [pc : Pcs, n : SeqNo]
    BY <1>0, ConstantTypes DEF syncTo, Pcs
  <2>3. at("offer", thread[t].n).pc = "offer"  BY DEF at
  <2> QED  BY <2>1, <2>2, <2>3, PushInOrder
<1> QED  BY <1>1, <1>2, <1>3, <1>5, <1>6, <1>7, <1>8, <1>9, <1>11, <1>12 DEF ThreadStep

\* queueThread, which takes the transactions in the order they were queued.
LEMMA TakeInOrder ==
    ASSUME Inv, Take
    PROVE  NoGap' /\ InOrder'
<1> DEFINE q == executionQueue
           tx == Head(executionQueue)
<1>1. /\ q \in Seq(Transaction) /\ q # <<>> /\ q' = Tail(q) /\ tx = q[1] /\ tx \in Transaction
      /\ executor = Idle /\ applied \in SeqNo
  <2>1. /\ q \in Seq(Transaction) /\ q # <<>> /\ q' = Tail(q)
        /\ executor = Idle /\ applied \in SeqNo
    BY DEF Inv, TypeOK, Transaction, Take
  <2> HIDE DEF q
  <2>2. Head(q) = q[1] /\ Head(q) \in Transaction  BY <2>1
  <2> QED  BY <2>1, <2>2 DEF q
<1>2. PICK m \in Nat : m = Len(q) /\ m >= 1  BY <1>1
<1>3. Len(q') = m - 1 /\ \A j \in 1 .. m - 1 : q'[j] = q[j + 1]  BY <1>1, <1>2
<1>4. UNCHANGED <<lastExec, applied, ledger, lost, thread, Pending>>
  BY DEF Take, pbft, Pending
<1>5. \A x : executor # at("execute", x)  BY <1>1 DEF Idle, at
<1>6. \A x \in Pending : x \in Int /\ x > applied /\ x \in SeqNo
  BY <1>1, ExecutorAssumption DEF Pending, SeqNo
<1>7. \A x \in Pending : tx = request(x) => executor' = at("execute", x)
  <2> SUFFICES ASSUME NEW x \in Pending, tx = request(x) PROVE executor' = at("execute", x)
    OBVIOUS
  <2>1. tx.n = x /\ ~tx.sync /\ ~(x <= applied) /\ x \notin Nulls
    BY <1>1, <1>6 DEF request, Pending, SeqNo
  <2> QED  BY <2>1 DEF Take
<1>8. \A x \in Pending, k \in 2 .. m + 1 : Accounted(x, k) => Accounted(x, k - 1)'
  <2> SUFFICES ASSUME NEW x \in Pending, NEW k \in 2 .. m + 1, Accounted(x, k)
               PROVE  \/ x \in lost' \/ executor' = at("execute", x)
                      \/ \E j \in 1 .. (k - 1) - 1 : q'[j] = request(x)
    BY DEF Accounted
  <2>1. CASE x \in lost  BY <1>4, <2>1
  <2>2. ASSUME NEW j \in 1 .. k - 1, q[j] = request(x)
        PROVE  executor' = at("execute", x) \/ \E i \in 1 .. (k - 1) - 1 : q'[i] = request(x)
    <3>1. CASE j = 1  BY <1>1, <1>7, <2>2, <3>1
    <3>2. CASE j # 1
      <4>1. j - 1 \in 1 .. (k - 1) - 1 /\ j - 1 \in 1 .. m - 1 /\ (j - 1) + 1 = j  BY <1>2, <3>2
      <4> QED  BY <1>3, <2>2, <4>1
    <3> QED  BY <3>1, <3>2
  <2> QED  BY <1>5, <2>1, <2>2 DEF Accounted
<1>9. NoGap'  BY <1>4 DEF Inv, NoGap, Agreed
<1>10. executor'.pc = "execute" => executor'.n \in Pending /\ \A x \in Pending : x < executor'.n => x \in lost
  <2> SUFFICES ASSUME executor'.pc = "execute" PROVE executor'.n \in Pending
                                                     /\ \A x \in Pending : x < executor'.n => x \in lost
    OBVIOUS
  <2>1. ~(tx.n <= applied) /\ ~tx.sync /\ tx.n \notin Nulls /\ executor' = at("execute", tx.n)
    BY <1>1 DEF Take, Idle, at
  <2>2. executor'.n = tx.n /\ tx.n \in Pending
    BY <1>1, <2>1, ExecutorAssumption DEF at, Pending, Transaction, SeqNo
  <2>3. \A x \in Pending : x < tx.n => Accounted(x, 1)
    BY <1>1, <1>2, <2>1 DEF Inv, InOrder
  <2> QED  BY <1>5, <2>2, <2>3 DEF Accounted
<1>11. \A k \in 1 .. m - 1 : ~q'[k].sync => \A x \in Pending : x < q'[k].n => Accounted(x, k)'
  <2> SUFFICES ASSUME NEW k \in 1 .. m - 1, ~q'[k].sync, NEW x \in Pending, x < q'[k].n
               PROVE  Accounted(x, k)'
    OBVIOUS
  <2>1. k + 1 \in 2 .. m + 1 /\ (k + 1) - 1 = k /\ k + 1 \in 1 .. m  BY <1>2
  <2>2. Accounted(x, k + 1)  BY <1>2, <1>3, <2>1 DEF Inv, InOrder
  <2>3. Accounted(x, (k + 1) - 1)'  BY <1>8, <2>1, <2>2
  <2> QED  BY <2>1, <2>3
<1>12. \A t \in Threads, x \in Pending :
          x < lastExec \/ (x = lastExec /\ ~Calls(t)) => Accounted(x, m)'
  <2>1. m + 1 \in 2 .. m + 1 /\ (m + 1) - 1 = m  BY <1>2
  <2>2. \A x \in Pending : Accounted(x, m + 1) => Accounted(x, m)'  BY <1>8, <2>1
  <2> QED  BY <1>2, <2>2 DEF Inv, InOrder
<1>13. \A t \in Threads : Calls(t)' <=> Calls(t)  BY <1>4 DEF Calls
<1>14. Len(q') + 1 = m  BY <1>2, <1>3
<1> QED  BY <1>3, <1>4, <1>9, <1>10, <1>11, <1>12, <1>13, <1>14 DEF Inv, InOrder

\* The ledger takes the next request that was not given up.
LEMMA CommitInOrder ==
    ASSUME Inv, Commit
    PROVE  NoGap' /\ InOrder'
<1> DEFINE r == executor.n
<1>1. PICK m \in Nat : m = Len(executionQueue) + 1  BY DEF Inv, TypeOK
<1>2. /\ r \in Pending /\ \A x \in Pending : x < r => x \in lost
      /\ applied \in SeqNo /\ r \in 1 .. MaxSeq /\ r > applied /\ r \notin Nulls
  BY DEF Inv, InOrder, Commit, TypeOK, Pending
<1>3. /\ ledger' = ledger \cup {r} /\ applied' = r /\ lost' = lost \ {r}
      /\ executor'.pc # "execute" /\ UNCHANGED <<lastExec, thread, executionQueue>>
  BY DEF Commit, pbft, at, Idle
<1>4. NoGap'
  <2>1. \A x : x \in Agreed(r) <=> x \in Agreed(applied) \/ x = r \/ (x \in Pending /\ x < r)
    BY <1>2, ExecutorAssumption DEF Agreed, Pending, SeqNo
  <2>2. \A x \in Agreed(applied) : x # r  BY <1>2, ExecutorAssumption DEF Agreed, SeqNo
  <2>3. r \notin Agreed(applied)  BY <2>2
  <2>4. \A x \in Pending : x \notin Agreed(applied)
    BY <1>2, ExecutorAssumption DEF Agreed, Pending, SeqNo
  <2>5. \A x : x \in ledger \cup {r} <=> x \in Agreed(r) \ (lost \ {r})
    BY <1>2, <2>1, <2>3, <2>4 DEF Inv, NoGap
  <2> QED  BY <1>3, <2>5 DEF NoGap, Agreed
<1>5. Pending' = {x \in Pending : x > r}
  BY <1>2, <1>3, ExecutorAssumption DEF Pending, SeqNo
<1>6. \A x \in Pending' : \A k : Accounted(x, k) => Accounted(x, k)'
  <2> SUFFICES ASSUME NEW x \in Pending, x > r, NEW k, Accounted(x, k)
               PROVE  x \in lost' \/ \E j \in 1 .. k - 1 : executionQueue'[j] = request(x)
    BY <1>5 DEF Accounted
  <2>1. x # r  BY <1>2 DEF Pending
  <2> QED  BY <1>3, <2>1 DEF Accounted, at
<1>7. \A k \in 1 .. Len(executionQueue) : ~executionQueue[k].sync =>
         \A x \in Pending' : x < executionQueue[k].n => Accounted(x, k)'
  BY <1>5, <1>6 DEF Inv, InOrder
<1>8. \A t \in Threads : \A x \in Pending' :
         x < lastExec \/ (x = lastExec /\ ~Calls(t)) => Accounted(x, m)'
  BY <1>1, <1>5, <1>6 DEF Inv, InOrder
<1>9. \A t \in Threads : Calls(t)' <=> Calls(t)  BY <1>3 DEF Calls
<1> QED  BY <1>1, <1>3, <1>4, <1>7, <1>8, <1>9 DEF Inv, InOrder

\* A request that the ledger refuses is given up.
LEMMA CommitFailsInOrder ==
    ASSUME Inv, CommitFails
    PROVE  NoGap' /\ InOrder'
<1> DEFINE r == executor.n
<1>1. PICK m \in Nat : m = Len(executionQueue) + 1  BY DEF Inv, TypeOK
<1>2. r \in Pending /\ applied \in SeqNo  BY DEF Inv, InOrder, CommitFails, TypeOK
<1>3. /\ lost' = lost \cup {r} /\ executor'.pc # "execute"
      /\ UNCHANGED <<lastExec, thread, executionQueue, applied, ledger, Pending>>
  BY DEF CommitFails, pbft, at, Idle, Pending
<1>4. NoGap'
  <2>1. r \notin Agreed(applied)  BY <1>2, ExecutorAssumption DEF Agreed, Pending, SeqNo
  <2> QED  BY <1>3, <2>1 DEF Inv, NoGap, Agreed
<1>6. \A x, k : Accounted(x, k) => Accounted(x, k)'
  BY <1>3 DEF Accounted, at
<1>7. \A k \in 1 .. Len(executionQueue) : ~executionQueue[k].sync =>
         \A x \in Pending : x < executionQueue[k].n => Accounted(x, k)'
  BY <1>6 DEF Inv, InOrder
<1>8. \A t \in Threads : \A x \in Pending :
         x < lastExec \/ (x = lastExec /\ ~Calls(t)) => Accounted(x, m)'
  BY <1>1, <1>6 DEF Inv, InOrder
<1>9. \A t \in Threads : Calls(t)' <=> Calls(t)  BY <1>3 DEF Calls
<1> QED  BY <1>1, <1>3, <1>4, <1>7, <1>8, <1>9 DEF Inv, InOrder

\* A state transfer applies all requests up to its target, and undoes the later ones.
LEMMA CompleteTransferInOrder ==
    ASSUME Inv, CompleteTransfer
    PROVE  NoGap' /\ InOrder'
<1> DEFINE r == executor.n
<1>1. PICK m \in Nat : m = Len(executionQueue) + 1  BY DEF Inv, TypeOK
<1>2. applied \in SeqNo /\ r \in SeqNo /\ executor.pc = "transfer"
  BY DEF Inv, TypeOK, CompleteTransfer
<1>3. /\ ledger' = Agreed(r) /\ applied' = r /\ lost' = {x \in lost \cup ledger : x > r}
      /\ executor'.pc # "execute" /\ UNCHANGED <<lastExec, thread, executionQueue>>
  BY DEF CompleteTransfer, pbft, at
<1>4. NoGap'
  <2>1. \A x \in lost' : x \notin Agreed(r)
    BY <1>2, <1>3, ExecutorAssumption DEF Agreed, SeqNo, Inv, TypeOK
  <2> QED  BY <1>3, <2>1 DEF NoGap, Agreed
<1>5. \A x \in Pending' : x > r /\ (x \in Pending \/ x \in Agreed(applied))
  BY <1>2, <1>3, ExecutorAssumption DEF Pending, Agreed, SeqNo
<1>6. \A x \in Pending' : x \in Agreed(applied) \/ x \in lost => x \in lost'
  BY <1>3, <1>5 DEF Inv, NoGap
<1>7. \A x \in Pending' : \A k : Accounted(x, k) \/ x \notin Pending => Accounted(x, k)'
  <2> SUFFICES ASSUME NEW x \in Pending', NEW k, Accounted(x, k) \/ x \notin Pending
               PROVE  x \in lost' \/ \E j \in 1 .. k - 1 : executionQueue'[j] = request(x)
    BY DEF Accounted
  <2> QED  BY <1>2, <1>3, <1>5, <1>6 DEF Accounted, at
<1>8. \A k \in 1 .. Len(executionQueue) : ~executionQueue[k].sync =>
         \A x \in Pending' : x < executionQueue[k].n => Accounted(x, k)'
  BY <1>7 DEF Inv, InOrder
<1>9. \A t \in Threads : \A x \in Pending' :
         x < lastExec \/ (x = lastExec /\ ~Calls(t)) => Accounted(x, m)'
  BY <1>1, <1>7 DEF Inv, InOrder
<1>10. \A t \in Threads : Calls(t)' <=> Calls(t)  BY <1>3 DEF Calls
<1> QED  BY <1>1, <1>3, <1>4, <1>8, <1>9, <1>10 DEF Inv, InOrder

\* Every step of queueThread.
LEMMA ExecutorStepInOrder ==
    ASSUME Inv, NEW t, Threads = {t}, ExecutorStep
    PROVE  NoGap' /\ InOrder'
<1>1. CASE StartTransfer
  <2>1. executor.pc # "execute" /\ executor'.pc # "execute"  BY <1>1 DEF StartTransfer, at
  <2>2. Calls(t)' <=> Calls(t)  BY <1>1 DEF StartTransfer, Calls
  <2> QED  BY <1>1, <2>1, <2>2, QuietInOrder DEF StartTransfer, pbft, Inv, InOrder
<1>2. CASE Checkpoint
  <2>1. executor.pc # "execute" /\ executor'.pc # "execute"  BY <1>2 DEF Checkpoint, Idle, at
  <2>2. Calls(t)' <=> Calls(t)  BY <1>2 DEF Checkpoint, Calls
  <2> QED  BY <1>2, <2>1, <2>2, QuietInOrder DEF Checkpoint, Inv, InOrder
<1> QED  BY <1>1, <1>2, TakeInOrder, CommitInOrder, CommitFailsInOrder, CompleteTransferInOrder
         DEF ExecutorStep

\* With one thread calling the executor, the ledger has no gap that the executor did
\* not make itself, by giving requests up: queueThread applies the requests in order.
THEOREM SingleThreadNoGap == (\E t : Threads = {t}) => (Spec => []NoGap)
<1> SUFFICES ASSUME NEW t, Threads = {t} PROVE Spec => []NoGap  OBVIOUS
<1>1. Init => Inv
  <2> SUFFICES ASSUME Init PROVE NoGap /\ InOrder  BY InitType DEF Inv
  <2>1. /\ lastExec = 0 /\ applied = 0 /\ ledger = {} /\ executor.pc = "idle" /\ Len(executionQueue) = 0
        /\ thread[t].pc = "idle"
    BY DEF Init, Idle, at
  <2>2. Agreed(0) = {}  BY DEF Agreed
  <2>3. \A x \in Pending : ~(x < 0) /\ x # 0  BY DEF Pending
  <2> QED  BY <2>1, <2>2, <2>3 DEF NoGap, InOrder, Calls
<1>2. Inv /\ [Next]_vars => Inv'
  <2> SUFFICES ASSUME Inv, [Next]_vars PROVE Inv'  OBVIOUS
  <2>0. CASE UNCHANGED vars
    <3>1. TypeOK'  BY <2>0 DEF TypeOK, vars, pbft, Inv
    <3>2. Calls(t)' <=> Calls(t)  BY <2>0 DEF Calls, vars
    <3>3. NoGap' /\ InOrder'
      BY <2>0, <3>2, QuietInOrder DEF vars, pbft, Inv, InOrder
    <3> QED  BY <3>1, <3>3 DEF Inv
  <2> SUFFICES ASSUME Next PROVE Inv'  BY <2>0
  <2>1. TypeOK'  BY ThreadStepType, ExecutorStepType DEF Next, Inv
  <2>2. NoGap' /\ InOrder'  BY ThreadStepInOrder, ExecutorStepInOrder DEF Next
  <2> QED  BY <2>1, <2>2 DEF Inv
<1>3. Inv => NoGap  BY DEF Inv
<1> QED  BY <1>1, <1>2, <1>3, PTL DEF Spec

=============================================================================
