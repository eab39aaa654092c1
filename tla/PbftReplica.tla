------------------------------ MODULE PbftReplica ------------------------------
(***************************************************************************)
(* One pbftCore instance (consensus/obcpbft/pbft-core.go): its state, its  *)
(* quorum predicates, and the parts of its handlers that run while no view *)
(* is changing.  A handler is an operator from the instance's state s (a   *)
(* record) to the state it leaves, or, where Go's map iteration order      *)
(* decides, to the set of states it may leave.  The messages it hands to   *)
(* innerBroadcast are collected in s.snd.                                  *)
(*                                                                         *)
(* Data abstraction: a digest stands for its request (hashReq is           *)
(* injective), certStore is the five sets pp, prep, com, sentP, sentC      *)
(* indexed by (v, n), and the state id of a checkpoint is the sequence of  *)
(* requests executed so far, which is what the block hash commits to.      *)
(***************************************************************************)
EXTENDS Integers, FiniteSets, Sequences

CONSTANTS
    N,         \* general.N, the number of replicas
    F,         \* general.f, the number of faults tolerated
    K,         \* general.K, the checkpoint period
    L,         \* logMultiplier * K, the log size
    Requests   \* the digests of the requests clients submit

\* newPbftCore panics unless N is large enough; the rest is configuration.
ASSUME ConfigAssumption ==
    /\ N \in Nat /\ F \in Nat /\ 3 * F + 1 <= N
    /\ K \in Nat \ {0} /\ L \in Nat \ {0}
    /\ IsFiniteSet(Requests) /\ "" \notin Requests

Replica == 0 .. N - 1
Null == ""                          \* the digest of the null request
Digest == Requests \cup {Null}

primary(v) == v % N

\* Two of these need not share a correct replica.
intersectionQuorumRoundedDown == (N + F) \div 2

intersectionQuorum == (N + F + 2) \div 2
allCorrectReplicasQuorum == N - F

PQ == [n : Nat, d : Digest, v : Nat]               \* ViewChange_PQ
C == [n : Nat, id : Seq(Requests)]                 \* ViewChange_C
ViewChange ==
    [type : {"viewChange"}, v : Nat, h : Nat, C : SUBSET C, P : SUBSET PQ,
     Q : SUBSET PQ, i : Replica]
NewView ==
    [type : {"newView"}, v : Nat, V : SUBSET ViewChange,
     X : SUBSET [n : Nat, d : Digest], i : Replica]
Vote == [v : Nat, n : Nat, d : Digest, i : Replica, type : {"prePrepare", "prepare", "commit"}]
Checkpoint == [type : {"checkpoint"}, n : Nat, id : Seq(Requests), i : Replica]
Fetch == [type : {"fetchRequest"}, d : Requests, i : Replica]
Return == [type : {"returnRequest"}, d : Requests, i : Replica, to : Replica]
Message == Vote \cup Checkpoint \cup ViewChange \cup NewView \cup Fetch \cup Return

\* Entries of the certificates.
MsgID == [v : Nat, n : Nat]
PPEntry == [v : Nat, n : Nat, d : Digest]
PrepEntry == [v : Nat, n : Nat, d : Digest, i : Replica]
ComEntry == [v : Nat, n : Nat, i : Replica]

\* The fields of pbftCore, and of its surroundings:
\*   app      the ledger once the executor has worked off the calls made so far;
\*   ckq      the Checkpoint calls it will make when it gets to them: an execute
\*            call for number `at' had Checkpoint set;
\*   calling  how many threads are outside the lock, in a call of execute;
\*   hung     a call of skipTo never returns, with the lock held;
\*   more     the thread that has the lock goes on with executeOutstanding;
\*   ownVC    the instance's own view-change, which it handles before anything else;
\*   done     the requests executed so far, null ones included, as history;
\*   snd      the messages sent by the handler that is running.
Instance ==
    [view : Nat, activeView : BOOLEAN, h : Nat, seqNo : Nat, lastExec : Nat,
     skipInProgress : BOOLEAN, timerActive : BOOLEAN,
     pp : SUBSET PPEntry, prep : SUBSET PrepEntry, com : SUBSET ComEntry,
     sentP : SUBSET MsgID, sentC : SUBSET MsgID,
     reqStore : SUBSET Requests, outstandingReqs : SUBSET Requests,
     missingReqs : SUBSET Requests,
     chkpts : SUBSET C, checkpointStore : SUBSET [n : Nat, id : Seq(Requests), i : Replica],
     hChkpts : SUBSET [i : Replica, n : Nat],
     pset : SUBSET PQ, qset : SUBSET PQ,
     viewChangeStore : SUBSET ViewChange, newViewStore : SUBSET NewView,
     ownVC : SUBSET ViewChange,
     app : Seq(Requests), ckq : Seq([at : Nat, n : Nat, id : Seq(Requests)]),
     done : Seq([n : Nat, d : Digest]), calling : Nat, more : BOOLEAN,
     hung : BOOLEAN,
     snd : SUBSET Message]

newPbftCore ==
    [view |-> 0, activeView |-> TRUE, h |-> 0, seqNo |-> 0, lastExec |-> 0,
     skipInProgress |-> FALSE, timerActive |-> FALSE,
     pp |-> {}, prep |-> {}, com |-> {}, sentP |-> {}, sentC |-> {},
     reqStore |-> {}, outstandingReqs |-> {}, missingReqs |-> {},
     chkpts |-> {[n |-> 0, id |-> <<>>]}, checkpointStore |-> {}, hChkpts |-> {},
     pset |-> {}, qset |-> {}, viewChangeStore |-> {}, newViewStore |-> {},
     ownVC |-> {}, app |-> <<>>, ckq |-> <<>>, done |-> <<>>,
     calling |-> 0, more |-> FALSE, hung |-> FALSE, snd |-> {}]

-----------------------------------------------------------------------------
(* Watermarks and certificates. *)

\* n - h as a signed number.
inWSigned(s, n) == n <= s.h + L

\* One sequence number too many.
inWOffByOne(s, n) == s.h < n /\ n <= s.h + L + 1

\* In the code n - h is unsigned, so n < h wraps to a value above L.
inW(s, n) == s.h < n /\ n <= s.h + L
inWV(s, v, n) == s.view = v /\ inW(s, n)

prePrepared(s, d, v, n) ==
    /\ d = Null \/ d \in s.reqStore
    /\ \/ [n |-> n, d |-> d, v |-> v] \in s.qset
       \/ [v |-> v, n |-> n, d |-> d] \in s.pp

\* Counts prepares for other requests too.
prepareVotesAnyDigest(s, d, v, n) == {p \in s.prep : p.v = v /\ p.n = n}

prepareVotes(s, d, v, n) == {p \in s.prep : p.v = v /\ p.n = n /\ p.d = d}

prepared(s, d, v, n) ==
    /\ prePrepared(s, d, v, n)
    /\ \/ [n |-> n, d |-> d, v |-> v] \in s.pset
       \/ Cardinality(prepareVotes(s, d, v, n)) >= intersectionQuorum - 1

\* The digest of a commit is not looked at.
commitVotes(s, v, n) == {c \in s.com : c.v = v /\ c.n = n}

committed(s, d, v, n) ==
    /\ prepared(s, d, v, n)
    /\ Cardinality(commitVotes(s, v, n)) >= intersectionQuorum

-----------------------------------------------------------------------------
(* Execution. *)

\* executeOne's guards, for the certificates of sequence number n.
executable(s, n) == {p \in s.pp : p.n = n /\ committed(s, p.d, p.v, n)}

\* executeOutstanding runs until it finds nothing to execute, and skips no number.
\* It releases the lock for each call of execute and goes on when it has it back,
\* in resume.  A null request is executed without a call, except at a checkpoint:
\* then it goes on at once, in `more'.
executeOutstanding(s) ==
    LET n == s.lastExec + 1
        d == (CHOOSE p \in executable(s, n) : TRUE).d
        silent == d = Null /\ n % K # 0
        left == s.outstandingReqs \ {d}
        ledger == IF d = Null THEN s.app ELSE Append(s.app, d)
    IN  IF s.skipInProgress \/ executable(s, n) = {} THEN s
        ELSE IF silent
        THEN [s EXCEPT !.lastExec = n, !.timerActive = left # {}, !.more = TRUE,
                       !.done = Append(@, [n |-> n, d |-> d])]
        ELSE [s EXCEPT !.lastExec = n,
                       !.timerActive = FALSE,
                       !.outstandingReqs = left,
                       !.app = ledger,
                       \* queueThread passes its unset seqNo, 0, unless the request is null
                       !.ckq = IF n % K # 0 THEN @
                               ELSE Append(@, [at |-> n, n |-> IF d = Null THEN n ELSE 0,
                                               id |-> ledger]),
                       !.done = Append(@, [n |-> n, d |-> d]),
                       !.calling = @ + 1]

\* A thread is back from execute and has the lock again.
resume(s) ==
    executeOutstanding([s EXCEPT !.calling = @ - 1,
                                 !.timerActive = @ \/ s.outstandingReqs # {}])

-----------------------------------------------------------------------------
(* Pre-prepare, prepare, commit. *)

message(t, p, i) == [type |-> t, v |-> p.v, n |-> p.n, d |-> p.d, i |-> i]

recvCommit(s, v, n, i) ==
    IF ~inWV(s, v, n) \/ [v |-> v, n |-> n, i |-> i] \in s.com THEN s
    ELSE executeOutstanding([s EXCEPT !.com = @ \cup {[v |-> v, n |-> n, i |-> i]}])

\* maybeSendCommit for each certificate of ps; a commit is also received locally.
maybeSendCommit(s, me, ps) ==
    LET go == {p \in ps : prepared(s, p.d, p.v, p.n) /\ [v |-> p.v, n |-> p.n] \notin s.sentC}
    IN  IF go = {} THEN s ELSE
        executeOutstanding(
          [s EXCEPT !.sentC = @ \cup {[v |-> p.v, n |-> p.n] : p \in go},
                    !.com = @ \cup {[v |-> p.v, n |-> p.n, i |-> me] : p \in go},
                    !.snd = @ \cup {message("commit", p, me) : p \in go}])

recvPrepare(s, me, m) ==
    IF \/ primary(m.v) = m.i
       \/ ~inWV(s, m.v, m.n)
       \/ \E p \in s.prep : p.v = m.v /\ p.n = m.n /\ p.i = m.i
    THEN s
    ELSE maybeSendCommit(
           [s EXCEPT !.prep = @ \cup {[v |-> m.v, n |-> m.n, d |-> m.d, i |-> m.i]}],
           me, {[v |-> m.v, n |-> m.n, d |-> m.d]})

\* The certificate keeps its first pre-prepare, but the handler goes on.  A
\* pre-prepare with the null digest fails the digest check: no request hashes to it.
recvPrePrepare(s, me, m) ==
    LET s1 == IF \E p \in s.pp : p.v = m.v /\ p.n = m.n THEN s
              ELSE [s EXCEPT !.pp = @ \cup {[v |-> m.v, n |-> m.n, d |-> m.d]}]
        s2 == IF m.d \in s1.reqStore THEN [s1 EXCEPT !.timerActive = TRUE]
              ELSE [s1 EXCEPT !.reqStore = @ \cup {m.d}, !.outstandingReqs = @ \cup {m.d},
                              !.timerActive = TRUE]
        id == [v |-> m.v, n |-> m.n]
    IN  IF ~s.activeView \/ primary(s.view) # m.i \/ ~inWV(s, m.v, m.n) THEN s
        ELSE IF m.d = Null THEN s1
        ELSE IF primary(s.view) # me /\ prePrepared(s2, m.d, m.v, m.n) /\ id \notin s2.sentP
        THEN recvPrepare([s2 EXCEPT !.sentP = @ \cup {id},
                                    !.snd = @ \cup {message("prepare", m, me)}],
                         me, message("prepare", m, me))
        ELSE s2

\* The primary's step of recvRequest: bind the digests of new to the next
\* sequence numbers, in the order ds.
assign(s, me, ds) ==
    LET new == {[v |-> s.view, n |-> s.seqNo + j, d |-> ds[j]] : j \in DOMAIN ds}
    IN  maybeSendCommit(
          [s EXCEPT !.seqNo = @ + Len(ds),
                    !.pp = {p \in @ : \A q \in new : p.v # q.v \/ p.n # q.n} \cup new,
                    !.snd = @ \cup {message("prePrepare", p, me) : p \in new}],
          me, new)

recvRequest(s, me, d) ==
    LET s1 == [s EXCEPT !.reqStore = @ \cup {d}, !.outstandingReqs = @ \cup {d},
                        !.timerActive = @ \/ s.activeView]
    IN  IF /\ primary(s.view) = me /\ s.activeView
           /\ inW(s, s.seqNo + 1)
           /\ \A p \in s.pp : ~(p.v = s.view /\ p.n # s.seqNo + 1 /\ p.d = d)
        THEN assign(s1, me, <<d>>)
        ELSE s1

\* recvRequest once more for every outstanding request no certificate holds, in
\* any order; the log has room for the first `room' of them.
resubmitRequests(s, me) ==
    LET todo == {d \in s.outstandingReqs : \A p \in s.pp : p.d # d}
        s1 == [s EXCEPT !.reqStore = @ \cup todo, !.timerActive = @ \/ s.activeView]
        room == IF s.activeView /\ inW(s, s.seqNo + 1) THEN s.h + L - s.seqNo ELSE 0
        k == IF Cardinality(todo) < room THEN Cardinality(todo) ELSE room
    IN  IF primary(s.view) # me \/ todo = {} THEN {s}
        ELSE {assign(s1, me, ds) :
                ds \in {f \in [1 .. k -> todo] : \A x, y \in 1 .. k : f[x] = f[y] => x = y}}

\* The low watermark is one too high.
moveWatermarksOffByOne(s, me, h) ==
    resubmitRequests(
      [s EXCEPT !.reqStore = @ \ {p.d : p \in {q \in s.pp : q.n <= h}},
                !.pp = {p \in @ : p.n > h},
                !.prep = {p \in @ : p.n > h},
                !.com = {p \in @ : p.n > h},
                !.sentP = {p \in @ : p.n > h},
                !.sentC = {p \in @ : p.n > h},
                !.checkpointStore = {c \in @ : c.n > h},
                !.pset = {p \in @ : p.n > h},
                !.qset = {q \in @ : q.n > h},
                !.chkpts = {c \in @ : c.n >= h},
                !.h = h + 1],
      me)

moveWatermarks(s, me, h) ==
    resubmitRequests(
      [s EXCEPT !.reqStore = @ \ {p.d : p \in {q \in s.pp : q.n <= h}},
                !.pp = {p \in @ : p.n > h},
                !.prep = {p \in @ : p.n > h},
                !.com = {p \in @ : p.n > h},
                !.sentP = {p \in @ : p.n > h},
                !.sentC = {p \in @ : p.n > h},
                !.checkpointStore = {c \in @ : c.n > h},
                !.pset = {p \in @ : p.n > h},
                !.qset = {q \in @ : q.n > h},
                !.chkpts = {c \in @ : c.n >= h},
                !.h = h],
      me)

=============================================================================
