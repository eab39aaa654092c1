------------------------------- MODULE PbftCore -------------------------------
(***************************************************************************)
(* A network of pbftCore instances.  Every handler of an instance runs     *)
(* under its lock, so one handler is one action; the network may lose,     *)
(* delay, reorder and duplicate what is sent, so a message once sent may   *)
(* be received by any replica at any later time, any number of times, or   *)
(* never.  Faulty replicas do not run the code: what they send is given by *)
(* FaultyMsgs.                                                             *)
(***************************************************************************)
EXTENDS PbftViewChange

CONSTANTS
    Faulty,       \* the replicas that do not follow the protocol, at most F
    FaultyMsgs,   \* what they send
    Client        \* Client[i]: the requests that reach replica i as requests

ASSUME FaultAssumption ==
    /\ Faulty \subseteq Replica /\ Cardinality(Faulty) <= F
    /\ FaultyMsgs \subseteq Message /\ \A m \in FaultyMsgs : m.i \in Faulty
    /\ Client \in [Replica -> SUBSET Requests]

VARIABLES
    rep,    \* rep[i]: the pbftCore of the correct replica i
    msgs,   \* every message sent so far
    todo    \* todo[i]: the requests that have not reached replica i yet

vars == <<rep, msgs, todo>>

Correct == Replica \ Faulty

Init ==
    /\ rep = [i \in Correct |-> newPbftCore]
    /\ msgs = FaultyMsgs
    /\ todo = [i \in Correct |-> Client[i]]

\* The instance i ends its handler in the state t: what it sent is on the network.
Finish(i, t) ==
    /\ rep' = [rep EXCEPT ![i] = [t EXCEPT !.snd = {}]]
    /\ msgs' = msgs \cup t.snd

\* The lock is free: no handler is stuck in skipTo, still has requests to execute,
\* or still has the instance's own view-change to handle.
Free(i) == ~rep[i].hung /\ ~rep[i].more /\ rep[i].ownVC = {}

Request(i, d) ==
    /\ Free(i) /\ d \in todo[i]
    /\ todo' = [todo EXCEPT ![i] = @ \ {d}]
    /\ Finish(i, recvRequest(rep[i], i, d))

\* recvMsgSync: the dispatch on the message's type.
recvMsgSync(s, i, m) ==
    CASE m.type = "prePrepare" -> {recvPrePrepare(s, i, m)}
      [] m.type = "prepare" -> {recvPrepare(s, i, m)}
      [] m.type = "commit" -> {recvCommit(s, m.v, m.n, m.i)}
      [] m.type = "checkpoint" -> recvCheckpoint(s, i, m)
      [] m.type = "viewChange" -> recvViewChange(s, i, m)
      [] m.type = "newView" -> recvNewView(s, i, m)
      [] m.type = "fetchRequest" -> recvFetchRequest(s, i, m)
      [] m.type = "returnRequest" -> recvReturnRequest(s, i, m)

\* A broadcast goes to all other replicas, a returned request to the one that
\* asked.  Receiving a message that changes nothing is a stuttering step.
Receive(i, m) ==
    /\ Free(i) /\ m.i # i
    /\ m.type = "returnRequest" => m.to = i
    /\ \E t \in recvMsgSync(rep[i], i, m) : t # rep[i] /\ Finish(i, t)
    /\ UNCHANGED todo

OwnViewChange(i) ==
    /\ \E m \in rep[i].ownVC :
         \E t \in recvViewChange([rep[i] EXCEPT !.ownVC = {}], i, m) : Finish(i, t)
    /\ UNCHANGED todo

\* timerHander, when the timer has not been reset meanwhile (see PbftTimer).
Timeout(i) ==
    /\ Free(i) /\ rep[i].timerActive
    /\ \E t \in sendViewChange(rep[i], i) : Finish(i, t)
    /\ UNCHANGED todo

\* The executor's thread gets to the end of a request that asked for a checkpoint.
CheckpointDone(i) ==
    /\ Free(i) /\ rep[i].ckq # <<>>
    /\ \E t \in checkpoint([rep[i] EXCEPT !.ckq = Tail(@)], i, Head(rep[i].ckq)) : Finish(i, t)
    /\ UNCHANGED todo

Resume(i) ==
    /\ Free(i) /\ rep[i].calling > 0
    /\ Finish(i, resume(rep[i]))
    /\ UNCHANGED todo

ExecuteMore(i) ==
    /\ rep[i].more
    /\ Finish(i, executeOutstanding([rep[i] EXCEPT !.more = FALSE]))
    /\ UNCHANGED todo

Next ==
    \E i \in Correct :
        \/ \E d \in Requests : Request(i, d)
        \/ \E m \in msgs : Receive(i, m)
        \/ OwnViewChange(i)
        \/ Timeout(i)
        \/ CheckpointDone(i)
        \/ Resume(i)
        \/ ExecuteMore(i)

Spec == Init /\ [][Next]_vars

-----------------------------------------------------------------------------
(* Properties. *)

\* The state stays within its types, and an instance outside a handler has
\* nothing left to send.
TypeOK ==
    /\ rep \in [Correct -> Instance]
    /\ \A i \in Correct : rep[i].snd = {}
    /\ msgs \subseteq Message
    /\ todo \in [Correct -> SUBSET Requests]

\* All correct replicas execute the same request, or all none, as a sequence number,
\* in whatever views they do it, and whatever at most F faulty replicas send.
Agreement ==
    \A i, j \in Correct : \A x \in DOMAIN rep[i].done, y \in DOMAIN rep[j].done :
        rep[i].done[x].n = rep[j].done[y].n => rep[i].done[x].d = rep[j].done[y].d

\* Correct replicas that have got to the same sequence number have the same ledger,
\* whether they executed the requests up to it or got its state by state transfer.
LedgerAgreement ==
    \A i, j \in Correct :
        rep[i].lastExec = rep[j].lastExec /\ ~rep[i].hung /\ ~rep[j].hung
        => rep[i].app = rep[j].app

\* Correct replicas announce one state per sequence number, so that their
\* checkpoints can become stable.
CheckpointAgreement ==
    \A m, w \in msgs :
        /\ m.type = "checkpoint" /\ w.type = "checkpoint"
        /\ m.i \in Correct /\ w.i \in Correct /\ m.n = w.n
        => m.id = w.id

\* Two correct replicas never hold prepared certificates for different requests
\* of the same view and sequence number.
PreparedAgreement ==
    \A i, j \in Correct : \A x \in rep[i].pp, y \in rep[j].pp :
        /\ x.v = y.v /\ x.n = y.n
        /\ prepared(rep[i], x.d, x.v, x.n) /\ prepared(rep[j], y.d, y.v, y.n)
        => x.d = y.d

\* A low watermark never passes what some correct replica has executed: no
\* replica discards the log of a sequence number that nobody correct has executed.
WatermarkExecuted ==
    \A i \in Correct : rep[i].h > 0 => \E j \in Correct : rep[j].lastExec >= rep[i].h

\* View, watermark and the primary's sequence number only ever grow.
NeverBack ==
    [][\A i \in Correct : /\ rep[i].view <= rep'[i].view
                          /\ rep[i].h <= rep'[i].h
                          /\ rep[i].seqNo <= rep'[i].seqNo]_vars

=============================================================================
