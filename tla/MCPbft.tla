-------------------------------- MODULE MCPbft --------------------------------
(* Instances of PbftCore for TLC. *)
EXTENDS PbftCore, TLC

CONSTANTS a, b, c    \* requests

vote(t, r, i) == [type |-> t, v |-> 0, n |-> 1, d |-> r, i |-> i]

\* Replica 0, the primary of view 0, having pre-prepared a for number 1, pre-prepares
\* b for it too, and commits.
MCEquivocate == {vote("prePrepare", b, 0), vote("commit", a, 0)}
MCNoMsgs == {}

MCClientBC == [i \in Replica |-> IF i = 0 THEN {b, c} ELSE {}]
MCPermutations == Permutations({b, c})
MCClientAB == [i \in Replica |-> IF i = 0 THEN {a, b} ELSE {}]
MCNoClient == [i \in Replica |-> {}]

(***************************************************************************)
(* Runs that do not start with an empty log start with one request ordered *)
(* as number 1 of view 0, as far as stage lev[i] at replica i; dig[i] is   *)
(* the request that replica i has there.  A vote is cast at the stage that *)
(* casts it, and received at the stage that needs it.                      *)
(***************************************************************************)
Idle == 0
PrePrepared == 1
Prepared == 2
Executed == 3

With(lev, dig, r, stage) == {j \in Correct : lev[j] >= stage /\ dig[j] = r}

\* Prepares come from backups; replica 0 commits, correct or not.
Prepares(lev, dig, r) == With(lev, dig, r, PrePrepared) \ {0}
Commits(lev, dig, r) == With(lev, dig, r, Prepared) \cup {0}

Reached(lev, dig) ==
    \A i \in Correct :
        /\ lev[i] = Idle => dig[i] = a
        /\ lev[i] >= Prepared =>
             Cardinality(Prepares(lev, dig, dig[i])) >= intersectionQuorum - 1
        /\ lev[i] = Executed =>
             Cardinality(Commits(lev, dig, dig[i])) >= intersectionQuorum

Log(i, lev, dig) ==
    LET r == dig[i]
        at == {[v |-> 0, n |-> 1]}
        votes(S) == {[v |-> 0, n |-> 1, d |-> r, i |-> j] : j \in S}
        commits(S) == {[v |-> 0, n |-> 1, i |-> j] : j \in S}
        s1 == [newPbftCore EXCEPT
                 !.pp = {[v |-> 0, n |-> 1, d |-> r]}, !.prep = votes({i} \ {0}),
                 !.sentP = IF i = 0 THEN {} ELSE at, !.seqNo = IF i = 0 THEN 1 ELSE 0,
                 !.reqStore = {r}, !.outstandingReqs = {r}, !.timerActive = TRUE]
        s2 == [s1 EXCEPT !.prep = votes(Prepares(lev, dig, r)), !.sentC = at,
                         !.com = commits({i})]
        s3 == [s2 EXCEPT !.com = commits(Commits(lev, dig, r)),
                         !.lastExec = 1, !.app = <<r>>, !.done = <<[n |-> 1, d |-> r]>>,
                         !.ckq = IF 1 % K = 0 THEN <<[at |-> 1, n |-> 0, id |-> <<r>>]>> ELSE <<>>,
                         !.outstandingReqs = {}, !.timerActive = FALSE]
    IN  CASE lev[i] = Idle -> newPbftCore
          [] lev[i] = PrePrepared -> s1
          [] lev[i] = Prepared -> s2
          [] lev[i] = Executed -> s3

\* The faulty primary has pre-prepared a to replicas 1 and 2, and perhaps to 3; what
\* it sends from now on reaches whoever it may.  Up to the names of the backups and
\* of the requests this is how an equivocation in view 0 goes.
InitEquivocate ==
    \E stage \in {Idle, PrePrepared} :
        LET lev == [i \in Correct |-> IF i = 3 THEN stage ELSE PrePrepared]
        IN  /\ rep = [i \in Correct |-> Log(i, lev, [j \in Correct |-> a])]
            /\ msgs = FaultyMsgs \cup {vote("prepare", a, i) : i \in
                                        {j \in Correct : lev[j] = PrePrepared}}
            /\ todo = Client

\* View 0 has ended: its primary, the faulty replica 0, has pre-prepared a to some
\* replicas and b to others, has committed and has stopped, and the messages under
\* way are lost.  Left out, to bound the run, are the endings after which view 1
\* orders a second request: those in which its primary, 1, holds one that nobody
\* has prepared.
InitEndOfView0 ==
    \E lev \in [Correct -> Idle .. Executed], dig \in [Correct -> {a, b}] :
        /\ Reached(lev, dig)
        /\ dig[1] = a
        /\ lev[1] = Idle \/ \E i \in Correct : lev[i] >= Prepared /\ dig[i] = a
        /\ rep = [i \in Correct |-> Log(i, lev, dig)]
        /\ msgs = FaultyMsgs
        /\ todo = [i \in Correct |-> {}]

\* Request a is executed, and its checkpoint is stable.
Stable(i) ==
    [newPbftCore EXCEPT
       !.h = 1, !.seqNo = IF i = 0 THEN 1 ELSE 0, !.lastExec = 1, !.app = <<a>>,
       !.done = <<[n |-> 1, d |-> a]>>, !.chkpts = {[n |-> 1, id |-> <<a>>]}]

\* All replicas have executed a and owe its Checkpoint call; or its checkpoint is
\* stable at 0 and 1, replica 2 has missed it all, and more requests follow.
InitCheckpoint ==
    /\ \/ /\ rep = [i \in Correct |-> Log(i, [j \in Correct |-> Executed], [j \in Correct |-> a])]
          /\ todo = MCNoClient
       \/ /\ rep = [i \in Correct |-> IF i = 2 THEN newPbftCore ELSE Stable(i)]
          /\ todo = Client
    /\ msgs = FaultyMsgs
=============================================================================
