------------------------------ MODULE ObcSieve ------------------------------
(***************************************************************************)
(* The Sieve consensus plugin (consensus/obcpbft/obc-sieve.go): a primary  *)
(* has every replica execute a request speculatively, collects the digests *)
(* of the results, and lets PBFT order the collection; a replica commits,  *)
(* adopts or rolls back its result when PBFT delivers the collection.      *)
(*                                                                         *)
(* PBFT is external here: it puts requests submitted by the replicas into  *)
(* one order, possibly never, and delivers that order to every replica.    *)
(* The executor is reduced to what Sieve relies on (ObcExecutor has the    *)
(* rest): a queue, a thread that executes and then waits in Validate, and  *)
(* SkipTo, which returns when that thread takes it.                        *)
(***************************************************************************)
EXTENDS Integers, Sequences, FiniteSets, SequencesExt

CONSTANTS
  Replicas,
  f,
  Primaries,     \* Primaries[v + 1] is the primary of view v
  Requests,
  Outcome,       \* Outcome[t, r]: result of the execution of t at r
  Scopes,        \* bounds: replicas that are up, requests and view changes, one record per case
  MaxOrder,      \* bound: requests ordered
  Movers,        \* bound: replicas whose PBFT takes part in view changes
  Empty0         \* no request

VARIABLES
  scope,         \* the case considered
  sv,            \* the state of obcSieve, its executor and its pbftCore, per replica
  executes,      \* Execute messages in flight, with their receiver
  verifies,      \* Verify messages sent
  pool,          \* requests submitted to PBFT and not ordered
  order          \* what PBFT ordered

sieveVars == <<scope, sv, executes, verifies, pool, order>>

primary(v) == Primaries[v + 1]
moreCorrectThanByzantineQuorum == 2 * f + 1

SieveReplica ==
  [view |-> 0, activeView |-> TRUE, epoch |-> 0, imminentEpoch |-> 0, blockNumber |-> 0,
   currentReq |-> Empty0, currentView |-> 0, verifyStore |-> {}, queuedExec |-> [q \in Replicas |-> {}],
   queuedTx |-> <<>>, received |-> {}, delivered |-> 0, ledger |-> <<>>, queue |-> <<>>,
   validating |-> {},          \* the execution whose Validate waits on validResultChan
   unsent |-> {},              \* verify of a goroutine that waits for the lock
   waits |-> [for |-> "none"]] \* what executeThread waits for

SieveInit ==
  /\ scope \in Scopes
  /\ sv = [r \in Replicas |-> SieveReplica]
  /\ executes = {} /\ verifies = {} /\ pool = {} /\ order = <<>>

(* executeThread holds the lock of pbftCore while it sends a rollback to   *)
(* Validate, and while it is in SkipTo.                                    *)
Locked(r) == sv[r].waits.for \in {"rollback", "skip"}

-----------------------------------------------------------------------------
(* The handlers, on the state s of replica r.                              *)

processExecute(r, s) ==
  LET p == primary(s.epoch)
      valid == {e \in s.queuedExec[p] : /\ e.view = s.epoch /\ e.from = p /\ s.activeView
                                        /\ e.n = s.blockNumber + 1}
      taken == [s EXCEPT !.queuedExec[p] = {}]
  IN IF s.currentReq # Empty0 THEN s
     ELSE IF valid = {} THEN taken
     ELSE LET e == CHOOSE x \in valid : TRUE
          IN [taken EXCEPT !.currentReq = e.t, !.currentView = e.view, !.blockNumber = e.n,
                           !.queue = Append(@, [n |-> e.n, t |-> e.t])]

recvExecute(r, s, e) ==
  IF ~(e.view >= s.epoch /\ e.n > s.blockNumber /\ primary(e.view) = e.from) \/ s.queuedExec[e.from] # {}
    THEN s
    ELSE processExecute(r, [s EXCEPT !.queuedExec[e.from] = {e}])

(* processRequest: the state after it, and the Execute message it sends.   *)
processRequest(r, s) ==
  IF s.queuedTx = <<>> \/ s.currentReq # Empty0 THEN [s |-> s, sent |-> {}]
  ELSE LET e == [view |-> s.epoch, n |-> s.blockNumber + 1, t |-> Head(s.queuedTx), from |-> r]
       IN [s |-> recvExecute(r, [s EXCEPT !.queuedTx = Tail(@), !.verifyStore = {}], e), sent |-> {e}]

recvRequest(r, s, t) ==
  LET queued == [s EXCEPT !.queuedTx = Append(@, t)]
  IN IF s.currentReq = Empty0 THEN processRequest(r, queued) ELSE [s |-> queued, sent |-> {}]

ToOthers(r, sent) == {[to |-> q, msg |-> e] : q \in Replicas \ {r}, e \in sent}

(* verifyDset: f+1 verifies with the same result, if there are that many.  *)
Agreeing(dset) == {S \in {{w \in dset : w.id = v.id} : v \in dset} : Cardinality(S) >= f + 1}
verifyDset(dset) == IF Agreeing(dset) # {} THEN CHOOSE S \in Agreeing(dset) : TRUE ELSE dset

-----------------------------------------------------------------------------
(* Messages.                                                               *)

(* The request reaches every replica; a backup ignores it.                 *)
RecvRequest(r, t) ==
  /\ ~Locked(r) /\ primary(sv[r].epoch) = r /\ sv[r].activeView /\ t \notin sv[r].received
  /\ LET done == recvRequest(r, [sv[r] EXCEPT !.received = @ \cup {t}], t)
     IN sv' = [sv EXCEPT ![r] = done.s] /\ executes' = executes \cup ToOthers(r, done.sent)
  /\ UNCHANGED <<verifies, pool, order>>

RecvExecute(m) ==
  /\ ~Locked(m.to)
  /\ executes' = executes \ {m}
  /\ sv' = [sv EXCEPT ![m.to] = recvExecute(m.to, @, m.msg)]
  /\ UNCHANGED <<verifies, pool, order>>

(* recvVerify; the verify that completes the quorum submits the collection *)
(* to PBFT.                                                                *)
recvVerify(r, v) ==
  LET s == sv[r]
      store == s.verifyStore \cup {v}
  IN /\ ~Locked(r)
     /\ primary(s.epoch) = r /\ s.activeView
     /\ v.view = s.epoch /\ v.n = s.blockNumber /\ v.t = s.currentReq
     /\ \A w \in s.verifyStore : w.from # v.from
     /\ sv' = [sv EXCEPT ![r].verifyStore = store]
     /\ pool' = IF Cardinality(store) # moreCorrectThanByzantineQuorum THEN pool
                ELSE pool \cup {[kind |-> "vset", view |-> s.epoch, n |-> s.blockNumber, t |-> s.currentReq,
                                 dset |-> verifyDset(store)]}
     /\ UNCHANGED <<executes, verifies, order>>

-----------------------------------------------------------------------------
(* The executor.                                                           *)

(* The next execution of the queue, up to where Validate waits; one for a  *)
(* block that is there already is skipped.  The goroutine that sends the   *)
(* verify needs the lock of pbftCore.                                      *)
ExecuteNext(r) ==
  LET s == sv[r]
      tx == Head(s.queue)
  IN /\ s.validating = {} /\ s.queue # <<>>
     /\ IF tx.n <= Len(s.ledger)
          THEN sv' = [sv EXCEPT ![r].queue = Tail(@)] /\ UNCHANGED verifies
          ELSE LET id == Append(s.ledger, Outcome[tx.t, r])
                   v == [view |-> s.currentView, n |-> tx.n, t |-> s.currentReq, id |-> id, from |-> r]
               IN /\ sv' = [sv EXCEPT ![r] = [@ EXCEPT !.queue = Tail(@), !.validating = {[n |-> tx.n, id |-> id]},
                                                       !.unsent = IF Locked(r) THEN @ \cup {v} ELSE @]]
                  /\ verifies' = IF Locked(r) THEN verifies ELSE verifies \cup {v}
     /\ UNCHANGED <<executes, pool, order>>

SendVerify(r) ==
  /\ ~Locked(r) /\ sv[r].unsent # {}
  /\ verifies' = verifies \cup sv[r].unsent
  /\ sv' = [sv EXCEPT ![r].unsent = {}]
  /\ UNCHANGED <<executes, pool, order>>

-----------------------------------------------------------------------------
(* executeThread.                                                          *)

(* The end of executeVerifySet, when the decision was acted on.            *)
Decided(r, s) ==
  LET next == processRequest(r, [s EXCEPT !.currentReq = Empty0, !.waits = [for |-> "none"]])
  IN [s |-> IF primary(s.epoch) # r THEN processExecute(r, next.s) ELSE next.s, sent |-> next.sent]

(* What executeVerifySet and executeFlush begin with the request d.        *)
executeVerifySet(r, s, d) ==
  LET sync == s.currentReq = Empty0 \/ d.n # s.blockNumber \/ d.t # s.currentReq
      dSet == verifyDset(d.dset)
      decision == (CHOOSE v \in dSet : TRUE).id
  IN CASE d.view # s.epoch \/ d.n < s.blockNumber \/ (d.n = s.blockNumber /\ s.currentReq = Empty0) -> s
       [] Agreeing(d.dset) = {} /\ ~sync -> [s EXCEPT !.waits = [for |-> "rollback", flush |-> FALSE]]
       [] Agreeing(d.dset) = {} /\ sync -> s
       [] ~sync -> [s EXCEPT !.waits = [for |-> "commit", id |-> decision]]
       [] OTHER -> [s EXCEPT !.waits = [for |-> "skip", id |-> decision], !.blockNumber = Len(decision),
                             !.queue = <<>>]

executeFlush(r, s, d) ==
  LET next == [s EXCEPT !.epoch = d.view, !.queuedTx = <<>>]
  IN IF d.view < s.epoch THEN s
     ELSE IF s.currentReq = Empty0 THEN next
     ELSE [next EXCEPT !.waits = [for |-> "rollback", flush |-> TRUE]]

executeImpl(r) ==
  LET s == sv[r]
      d == order[s.delivered + 1]
      next == [s EXCEPT !.delivered = @ + 1]
  IN /\ s.waits.for = "none" /\ s.delivered < Len(order)
     /\ sv' = [sv EXCEPT ![r] = IF d.kind = "vset" THEN executeVerifySet(r, next, d) ELSE executeFlush(r, next, d)]
     /\ UNCHANGED <<executes, verifies, pool, order>>

(* The rendezvous on validResultChan: Validate returns the decision, and   *)
(* the executor commits its result, or adopts the one decided by a state   *)
(* transfer, or rolls back.                                                *)
CommitResult(r) ==
  LET s == sv[r]
      done == Decided(r, [s EXCEPT !.validating = {}, !.ledger = s.waits.id])
  IN /\ s.waits.for = "commit" /\ s.validating # {}
     /\ LET x == CHOOSE y \in s.validating : TRUE
            back == Decided(r, [s EXCEPT !.validating = {}])
        IN IF x.n # Len(s.waits.id)
             THEN sv' = [sv EXCEPT ![r] = back.s] /\ executes' = executes \cup ToOthers(r, back.sent)
             ELSE sv' = [sv EXCEPT ![r] = done.s] /\ executes' = executes \cup ToOthers(r, done.sent)
     /\ UNCHANGED <<verifies, pool, order>>

(* Forgets to take the block number back.                                  *)
RollbackResultKeepsNumber(r) ==
  LET s == [sv[r] EXCEPT !.validating = {}]
      done == IF sv[r].waits.flush
                THEN [s |-> [s EXCEPT !.currentReq = Empty0, !.waits = [for |-> "none"]], sent |-> {}]
                ELSE Decided(r, s)
  IN /\ sv[r].waits.for = "rollback" /\ sv[r].validating # {}
     /\ sv' = [sv EXCEPT ![r] = done.s] /\ executes' = executes \cup ToOthers(r, done.sent)
     /\ UNCHANGED <<verifies, pool, order>>

RollbackResult(r) ==
  LET s == [sv[r] EXCEPT !.validating = {}, !.blockNumber = @ - 1]
      done == IF sv[r].waits.flush
                THEN [s |-> [s EXCEPT !.currentReq = Empty0, !.waits = [for |-> "none"]], sent |-> {}]
                ELSE Decided(r, s)
  IN /\ sv[r].waits.for = "rollback" /\ sv[r].validating # {}
     /\ sv' = [sv EXCEPT ![r] = done.s] /\ executes' = executes \cup ToOthers(r, done.sent)
     /\ UNCHANGED <<verifies, pool, order>>

(* SkipTo returns when the executor's thread takes the target; the         *)
(* transfer it starts is taken to end at once.                             *)
SkipToReturns0(r) ==
  LET done == Decided(r, [sv[r] EXCEPT !.ledger = sv[r].waits.id])
  IN /\ sv[r].waits.for = "skip" /\ sv[r].validating = {}
     /\ sv' = [sv EXCEPT ![r] = done.s] /\ executes' = executes \cup ToOthers(r, done.sent)
     /\ UNCHANGED <<verifies, pool, order>>

-----------------------------------------------------------------------------
(* PBFT, external: the order, and the views.                               *)

PbftOrder(d) ==
  /\ Len(order) < MaxOrder
  /\ order' = Append(order, d) /\ pool' = pool \ {d}
  /\ UNCHANGED <<sv, executes, verifies>>

StartViewChange(r) ==
  /\ r \in Movers /\ ~Locked(r) /\ sv[r].activeView /\ sv[r].view < scope.views
  /\ sv' = [sv EXCEPT ![r].activeView = FALSE, ![r].view = @ + 1]
  /\ UNCHANGED <<executes, verifies, pool, order>>

(* viewChange, called by pbftCore when it enters the view.                 *)
ViewChange(r) ==
  /\ ~Locked(r) /\ ~sv[r].activeView
  /\ sv' = [sv EXCEPT ![r] = [@ EXCEPT !.activeView = TRUE, !.queuedTx = <<>>, !.imminentEpoch = sv[r].view]]
  /\ pool' = IF primary(sv[r].view) = r THEN pool \cup {[kind |-> "flush", view |-> sv[r].view]} ELSE pool
  /\ UNCHANGED <<executes, verifies, order>>

SieveStep(r) ==
  \/ ExecuteNext(r) \/ SendVerify(r) \/ executeImpl(r) \/ CommitResult(r) \/ RollbackResult(r)
  \/ SkipToReturns0(r) \/ StartViewChange(r) \/ ViewChange(r)
  \/ \E t \in scope.requests : RecvRequest(r, t)
  \/ \E v \in verifies : recvVerify(r, v)

SieveNext ==
  /\ \/ \E r \in scope.up : SieveStep(r)
     \/ \E m \in executes : m.to \in scope.up /\ RecvExecute(m)
     \/ \E d \in pool : PbftOrder(d)
  /\ UNCHANGED scope

SieveSpec == SieveInit /\ [][SieveNext]_sieveVars

-----------------------------------------------------------------------------
(* Types.                                                                  *)
SieveTypeOK ==
  \A r \in Replicas :
    /\ sv[r].currentReq \in Requests \cup {Empty0}
    /\ sv[r].blockNumber \in Nat /\ sv[r].epoch \in 0 .. scope.views
    /\ Cardinality(sv[r].validating) <= 1
    /\ Cardinality(sv[r].verifyStore) <= Cardinality(Replicas)

(* Two ledgers agree on every block both have, although the executions of  *)
(* a request may differ from replica to replica (the point of Sieve).      *)
SieveAgreement ==
  \A r, q \in Replicas : IsPrefix(sv[r].ledger, sv[q].ledger) \/ IsPrefix(sv[q].ledger, sv[r].ledger)

(* The block number is that of the ledger, plus one for the execution that *)
(* is still speculative: the decrements of executeVerifySet and            *)
(* executeFlush undo exactly the increment of processExecute.              *)
BlockNumberCounts ==
  \A r \in Replicas :
    sv[r].waits.for # "skip" =>
      sv[r].blockNumber = Len(sv[r].ledger) + (IF sv[r].currentReq = Empty0 THEN 0 ELSE 1)
=============================================================================
