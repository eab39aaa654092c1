------------------------------- MODULE PbftTypes -------------------------------
(***************************************************************************)
(* TypeOK is an invariant of PbftCore, for every configuration, every set  *)
(* of at most F faulty replicas and everything they may send.              *)
(***************************************************************************)
EXTENDS PbftCore, FiniteSetTheorems, TLAPS

\* The type of each field of an instance.
LEMMA Fields ==
    ASSUME NEW s \in Instance
    PROVE  /\ s.view \in Nat /\ s.activeView \in BOOLEAN /\ s.h \in Nat /\ s.seqNo \in Nat
           /\ s.lastExec \in Nat /\ s.skipInProgress \in BOOLEAN /\ s.timerActive \in BOOLEAN
           /\ s.pp \in SUBSET PPEntry /\ s.prep \in SUBSET PrepEntry /\ s.com \in SUBSET ComEntry
           /\ s.sentP \in SUBSET MsgID /\ s.sentC \in SUBSET MsgID
           /\ s.reqStore \in SUBSET Requests /\ s.outstandingReqs \in SUBSET Requests
           /\ s.missingReqs \in SUBSET Requests /\ s.chkpts \in SUBSET C
           /\ s.checkpointStore \in SUBSET [n : Nat, id : Seq(Requests), i : Replica]
           /\ s.hChkpts \in SUBSET [i : Replica, n : Nat]
           /\ s.pset \in SUBSET PQ /\ s.qset \in SUBSET PQ
           /\ s.viewChangeStore \in SUBSET ViewChange /\ s.newViewStore \in SUBSET NewView
           /\ s.ownVC \in SUBSET ViewChange /\ s.app \in Seq(Requests)
           /\ s.ckq \in Seq([at : Nat, n : Nat, id : Seq(Requests)])
           /\ s.done \in Seq([n : Nat, d : Digest]) /\ s.calling \in Nat
           /\ s.more \in BOOLEAN /\ s.hung \in BOOLEAN /\ s.snd \in SUBSET Message
BY DEF Instance

\* Appending to a sequence and taking from it keep the type of its elements.
LEMMA SeqTypes ==
    ASSUME NEW S
    PROVE  /\ <<>> \in Seq(S)
           /\ \A q \in Seq(S), e \in S : Append(q, e) \in Seq(S)
           /\ \A q \in Seq(S) : q # <<>> => Head(q) \in S /\ Tail(q) \in Seq(S)
OBVIOUS

\* newPbftCore returns an instance.
LEMMA NewInstance == newPbftCore \in Instance
<1>1. {[n |-> 0, id |-> <<>>]} \in SUBSET C  BY SeqTypes DEF C
<1>2. 0 \in Nat  OBVIOUS
<1>3. \A S : {} \in SUBSET S  OBVIOUS
<1> QED  BY <1>1, <1>2, <1>3, SeqTypes, ZenonT(60) DEF Instance, newPbftCore

\* The messages of the normal case.
LEMMA VoteMessage ==
    ASSUME NEW t \in {"prePrepare", "prepare", "commit"}, NEW p, NEW i \in Replica,
           p.v \in Nat, p.n \in Nat, p.d \in Digest
    PROVE  message(t, p, i) \in Message
BY DEF message, Message, Vote

\* executeOutstanding, executeOne included, leaves an instance.
LEMMA ExecuteOutstandingType ==
    ASSUME NEW s \in Instance
    PROVE  executeOutstanding(s) \in Instance
<1> DEFINE n == s.lastExec + 1
           d == (CHOOSE p \in executable(s, n) : TRUE).d
           left == s.outstandingReqs \ {d}
           ledger == IF d = Null THEN s.app ELSE Append(s.app, d)
           owed == [at |-> n, n |-> IF d = Null THEN n ELSE 0, id |-> ledger]
<1>1. CASE s.skipInProgress \/ executable(s, n) = {}
  BY <1>1 DEF executeOutstanding
<1>2. CASE ~(s.skipInProgress \/ executable(s, n) = {})
  <2>1. n \in Nat  BY Fields
  <2>2. d \in Digest  BY <1>2, Fields DEF executable, PPEntry
  <2>3. left \in SUBSET Requests /\ (left # {}) \in BOOLEAN  BY Fields
  <2>4. ledger \in Seq(Requests)  BY <2>2, Fields DEF Digest
  <2>5. owed \in [at : Nat, n : Nat, id : Seq(Requests)]  BY <2>1, <2>4
  <2>6. (IF n % K # 0 THEN s.ckq ELSE Append(s.ckq, owed))
          \in Seq([at : Nat, n : Nat, id : Seq(Requests)])
    BY <2>5, Fields, SeqTypes, Zenon
  <2>7. Append(s.done, [n |-> n, d |-> d]) \in Seq([n : Nat, d : Digest])
    <3>1. [n |-> n, d |-> d] \in [n : Nat, d : Digest]  BY <2>1, <2>2
    <3> QED  BY <3>1, Fields, SeqTypes, Zenon
  <2>8. s.calling + 1 \in Nat  BY Fields
  <2> HIDE DEF n, d, left, ledger, owed
  <2>9. [s EXCEPT !.lastExec = n, !.timerActive = left # {}, !.more = TRUE,
                  !.done = Append(s.done, [n |-> n, d |-> d])] \in Instance
    BY <2>1, <2>3, <2>7, ZenonT(60) DEF Instance
  <2>10. [s EXCEPT !.lastExec = n, !.timerActive = FALSE, !.outstandingReqs = left,
                   !.app = ledger, !.ckq = IF n % K # 0 THEN s.ckq ELSE Append(s.ckq, owed),
                   !.done = Append(s.done, [n |-> n, d |-> d]), !.calling = s.calling + 1]
            \in Instance
    BY <2>1, <2>3, <2>4, <2>6, <2>7, <2>8, ZenonT(60) DEF Instance
  <2> QED  BY <1>2, <2>9, <2>10 DEF executeOutstanding, n, d, left, ledger, owed
<1> QED  BY <1>1, <1>2

\* recvCommit leaves an instance.
LEMMA RecvCommitType ==
    ASSUME NEW s \in Instance, NEW v \in Nat, NEW n \in Nat, NEW i \in Replica
    PROVE  recvCommit(s, v, n, i) \in Instance
<1>1. s.com \cup {[v |-> v, n |-> n, i |-> i]} \in SUBSET ComEntry  BY Fields DEF ComEntry
<1>2. [s EXCEPT !.com = s.com \cup {[v |-> v, n |-> n, i |-> i]}] \in Instance
  BY <1>1, ZenonT(60) DEF Instance
<1> QED  BY <1>2, ExecuteOutstandingType DEF recvCommit

\* maybeSendCommit, and the receipt of its own commit, leave an instance.
LEMMA MaybeSendCommitType ==
    ASSUME NEW s \in Instance, NEW me \in Replica, NEW ps \in SUBSET PPEntry
    PROVE  maybeSendCommit(s, me, ps) \in Instance
<1> DEFINE go == {p \in ps : prepared(s, p.d, p.v, p.n) /\ [v |-> p.v, n |-> p.n] \notin s.sentC}
           c1 == s.sentC \cup {[v |-> p.v, n |-> p.n] : p \in go}
           c2 == s.com \cup {[v |-> p.v, n |-> p.n, i |-> me] : p \in go}
           c3 == s.snd \cup {message("commit", p, me) : p \in go}
<1>1. \A p \in go : p.v \in Nat /\ p.n \in Nat /\ p.d \in Digest  BY DEF PPEntry
<1> HIDE DEF go
<1>2. c1 \in SUBSET MsgID  BY <1>1, Fields DEF MsgID
<1>3. c2 \in SUBSET ComEntry  BY <1>1, Fields DEF ComEntry
<1>4. c3 \in SUBSET Message
  <2>1. \A p \in go : message("commit", p, me) \in Message  BY <1>1, VoteMessage
  <2> QED  BY <2>1, Fields
<1> HIDE DEF c1, c2, c3
<1>5. [s EXCEPT !.sentC = c1, !.com = c2, !.snd = c3] \in Instance
  BY <1>2, <1>3, <1>4, ZenonT(60) DEF Instance
<1> QED  BY <1>5, ExecuteOutstandingType DEF maybeSendCommit, go, c1, c2, c3

\* recvPrepare leaves an instance.
LEMMA RecvPrepareType ==
    ASSUME NEW s \in Instance, NEW me \in Replica, NEW m, m.v \in Nat, m.n \in Nat,
           m.d \in Digest, m.i \in Replica
    PROVE  recvPrepare(s, me, m) \in Instance
<1> DEFINE c == s.prep \cup {[v |-> m.v, n |-> m.n, d |-> m.d, i |-> m.i]}
<1>1. c \in SUBSET PrepEntry  BY Fields DEF PrepEntry
<1>2. {[v |-> m.v, n |-> m.n, d |-> m.d]} \in SUBSET PPEntry  BY DEF PPEntry
<1> HIDE DEF c
<1>3. [s EXCEPT !.prep = c] \in Instance  BY <1>1, ZenonT(60) DEF Instance
<1> QED  BY <1>2, <1>3, MaybeSendCommitType DEF recvPrepare, c

\* recvPrePrepare leaves an instance, whether or not it prepares.
LEMMA RecvPrePrepareType ==
    ASSUME NEW s \in Instance, NEW me \in Replica, NEW m, m.v \in Nat, m.n \in Nat,
           m.d \in Digest, m.i \in Replica
    PROVE  recvPrePrepare(s, me, m) \in Instance
<1> DEFINE c == s.pp \cup {[v |-> m.v, n |-> m.n, d |-> m.d]}
           s1 == IF \E p \in s.pp : p.v = m.v /\ p.n = m.n THEN s ELSE [s EXCEPT !.pp = c]
           s2 == IF m.d \in s1.reqStore THEN [s1 EXCEPT !.timerActive = TRUE]
                 ELSE [s1 EXCEPT !.reqStore = s1.reqStore \cup {m.d},
                                 !.outstandingReqs = s1.outstandingReqs \cup {m.d},
                                 !.timerActive = TRUE]
           id == [v |-> m.v, n |-> m.n]
           pm == message("prepare", m, me)
           s3 == [s2 EXCEPT !.sentP = s2.sentP \cup {id}, !.snd = s2.snd \cup {pm}]
<1>1. s1 \in Instance
  <2>1. c \in SUBSET PPEntry  BY Fields DEF PPEntry
  <2> HIDE DEF c
  <2> QED  BY <2>1, ZenonT(60) DEF Instance
<1>2. m.d # Null => s2 \in Instance
  <2> HIDE DEF s1
  <2>1. m.d # Null => /\ s1.reqStore \cup {m.d} \in SUBSET Requests
                      /\ s1.outstandingReqs \cup {m.d} \in SUBSET Requests
    BY <1>1, Fields DEF Digest
  <2> QED  BY <1>1, <2>1, ZenonT(60) DEF Instance
<1>3. s2 \in Instance => s3 \in Instance
  <2> HIDE DEF s2
  <2>1. s2 \in Instance => s2.sentP \cup {id} \in SUBSET MsgID  BY Fields DEF MsgID
  <2>2. pm \in Message  BY VoteMessage
  <2> HIDE DEF id, pm
  <2>3. s2 \in Instance => s2.snd \cup {pm} \in SUBSET Message  BY <2>2, Fields
  <2> QED  BY <2>1, <2>3, ZenonT(60) DEF Instance
<1>4. s2 \in Instance => recvPrepare(s3, me, pm) \in Instance
  <2> HIDE DEF s3, s2
  <2>1. pm.v = m.v /\ pm.n = m.n /\ pm.d = m.d /\ pm.i = me  BY DEF message
  <2> HIDE DEF pm
  <2> QED  BY <1>3, <2>1, RecvPrepareType
<1> HIDE DEF s1, s2, s3, pm, id
<1>5. recvPrePrepare(s, me, m) \in {s, s1, s2, recvPrepare(s3, me, pm)}
        /\ (recvPrePrepare(s, me, m) \in {s, s1} \/ m.d # Null)
  BY DEF recvPrePrepare, s1, s2, s3, pm, id, c
<1> QED  BY <1>1, <1>2, <1>4, <1>5

\* A primary that gives a request a sequence number stays an instance.
LEMMA AssignType ==
    ASSUME NEW s \in Instance, NEW me \in Replica, NEW k \in Nat, NEW ds \in [1 .. k -> Requests]
    PROVE  assign(s, me, ds) \in Instance
<1> DEFINE new == {[v |-> s.view, n |-> s.seqNo + j, d |-> ds[j]] : j \in DOMAIN ds}
           kept == {p \in s.pp : \A q \in new : p.v # q.v \/ p.n # q.n}
           sent == {message("prePrepare", p, me) : p \in new}
           s1 == [s EXCEPT !.seqNo = s.seqNo + Len(ds), !.pp = kept \cup new,
                           !.snd = s.snd \cup sent]
<1>1. ds \in Seq(Requests) /\ DOMAIN ds = 1 .. k /\ Len(ds) = k
  <2>1. ds \in Seq(Requests)  BY SMT
  <2> QED  BY <2>1
<1>2. new \in SUBSET PPEntry  BY <1>1, Fields DEF PPEntry, Digest
<1> HIDE DEF new
<1>3. kept \cup new \in SUBSET PPEntry  BY <1>2, Fields
<1>4. s.snd \cup sent \in SUBSET Message
  <2>1. \A p \in new : message("prePrepare", p, me) \in Message
    BY <1>2, VoteMessage DEF PPEntry
  <2> QED  BY <2>1, Fields
<1>5. s.seqNo + Len(ds) \in Nat  BY <1>1, Fields
<1> HIDE DEF kept, sent
<1>6. s1 \in Instance  BY <1>3, <1>4, <1>5, ZenonT(60) DEF Instance
<1> HIDE DEF s1
<1>7. assign(s, me, ds) = maybeSendCommit(s1, me, new)  BY DEF assign, new, kept, sent, s1
<1> QED  BY <1>2, <1>6, <1>7, MaybeSendCommitType

\* recvRequest leaves an instance.
LEMMA RecvRequestType ==
    ASSUME NEW s \in Instance, NEW me \in Replica, NEW d \in Requests
    PROVE  recvRequest(s, me, d) \in Instance
<1> DEFINE s1 == [s EXCEPT !.reqStore = s.reqStore \cup {d},
                           !.outstandingReqs = s.outstandingReqs \cup {d},
                           !.timerActive = s.timerActive \/ s.activeView]
<1>1. /\ s.reqStore \cup {d} \in SUBSET Requests
      /\ s.outstandingReqs \cup {d} \in SUBSET Requests
      /\ (s.timerActive \/ s.activeView) \in BOOLEAN
  BY Fields
<1>2. s1 \in Instance  BY <1>1, ZenonT(60) DEF Instance
<1>3. <<d>> \in [1 .. 1 -> Requests]  OBVIOUS
<1> HIDE DEF s1
<1>4. recvRequest(s, me, d) \in {s1, assign(s1, me, <<d>>)}  BY DEF recvRequest, s1
<1> QED  BY <1>2, <1>3, <1>4, AssignType

\* resubmitRequests leaves an instance, in whatever order it takes the requests.
LEMMA ResubmitRequestsType ==
    ASSUME NEW s \in Instance, NEW me \in Replica
    PROVE  resubmitRequests(s, me) \subseteq Instance
<1> DEFINE again == {d \in s.outstandingReqs : \A p \in s.pp : p.d # d}
           s1 == [s EXCEPT !.reqStore = s.reqStore \cup again,
                           !.timerActive = s.timerActive \/ s.activeView]
           room == IF s.activeView /\ inW(s, s.seqNo + 1) THEN s.h + L - s.seqNo ELSE 0
           k == IF Cardinality(again) < room THEN Cardinality(again) ELSE room
<1>1. again \in SUBSET Requests  BY Fields
<1> HIDE DEF again
<1>2. s.reqStore \cup again \in SUBSET Requests /\ (s.timerActive \/ s.activeView) \in BOOLEAN
  BY <1>1, Fields
<1>3. s1 \in Instance  BY <1>2, ZenonT(60) DEF Instance
<1> HIDE DEF s1
<1>4. k \in Nat
  <2>1. Cardinality(again) \in Nat
    BY <1>1, FS_Subset, FS_CardinalityType, ConfigAssumption
  <2>2. room \in Nat
    <3>1. s.h \in Nat /\ s.seqNo \in Nat /\ L \in Nat  BY Fields, ConfigAssumption
    <3> QED  BY <3>1 DEF inW
  <2> QED  BY <2>1, <2>2
<1> HIDE DEF k
<1>5. ASSUME NEW f \in [1 .. k -> again]
      PROVE  assign(s1, me, f) \in Instance
  <2>1. f \in [1 .. k -> Requests]  BY <1>1
  <2> QED  BY <1>3, <1>4, <2>1, AssignType
<1>6. resubmitRequests(s, me) \subseteq {s} \cup {assign(s1, me, f) : f \in [1 .. k -> again]}
  BY DEF resubmitRequests, again, s1, room, k
<1> QED  BY <1>5, <1>6

\* moveWatermarks, with the resubmission it ends in, leaves an instance.
LEMMA MoveWatermarksType ==
    ASSUME NEW s \in Instance, NEW me \in Replica, NEW h \in Nat
    PROVE  moveWatermarks(s, me, h) \subseteq Instance
<1> DEFINE c1 == s.reqStore \ {p.d : p \in {q \in s.pp : q.n <= h}}
           c2 == {p \in s.pp : p.n > h}
           c3 == {p \in s.prep : p.n > h}
           c4 == {p \in s.com : p.n > h}
           c5 == {p \in s.sentP : p.n > h}
           c6 == {p \in s.sentC : p.n > h}
           c7 == {c \in s.checkpointStore : c.n > h}
           c8 == {p \in s.pset : p.n > h}
           c9 == {q \in s.qset : q.n > h}
           c10 == {c \in s.chkpts : c.n >= h}
           t == [s EXCEPT !.reqStore = c1, !.pp = c2, !.prep = c3, !.com = c4, !.sentP = c5,
                          !.sentC = c6, !.checkpointStore = c7, !.pset = c8, !.qset = c9,
                          !.chkpts = c10, !.h = h]
<1>1. /\ c1 \in SUBSET Requests /\ c2 \in SUBSET PPEntry /\ c3 \in SUBSET PrepEntry
      /\ c4 \in SUBSET ComEntry /\ c5 \in SUBSET MsgID /\ c6 \in SUBSET MsgID
      /\ c7 \in SUBSET [n : Nat, id : Seq(Requests), i : Replica]
      /\ c8 \in SUBSET PQ /\ c9 \in SUBSET PQ /\ c10 \in SUBSET C
  BY Fields, Zenon
<1> HIDE DEF c1, c2, c3, c4, c5, c6, c7, c8, c9, c10
<1>2. t \in Instance  BY <1>1, ZenonT(120) DEF Instance
<1> HIDE DEF t
<1>3. moveWatermarks(s, me, h) = resubmitRequests(t, me)
  BY DEF moveWatermarks, t, c1, c2, c3, c4, c5, c6, c7, c8, c9, c10
<1> QED  BY <1>2, <1>3, ResubmitRequestsType

-----------------------------------------------------------------------------
(* View changes. *)

\* A message list binds every number to at most one digest.
LEMMA AssignSequenceNumbersType ==
    ASSUME NEW V \in SUBSET ViewChange, NEW h \in Nat, NEW X \in assignSequenceNumbers(V, h)
    PROVE  /\ X \in SUBSET [n : Nat, d : Digest]
           /\ \A x, y \in X : x.n = y.n => x = y
<1> DEFINE real == {n \in h + 1 .. h + L : candidates(V, n) # {}}
           choices(n) == IF n \in real THEN candidates(V, n) ELSE {Null}
           last == {n \in real \cup {h + 1} : \A k \in real : k <= n}
           range(maxN) == UNION {choices(n) : n \in h + 1 .. maxN}
           lists(maxN) == {f \in [h + 1 .. maxN -> range(maxN)] :
                             \A n \in h + 1 .. maxN : f[n] \in choices(n)}
           list(f, maxN) == {[n |-> n, d |-> f[n]] : n \in h + 1 .. maxN}
<1>1. \A n : choices(n) \subseteq Digest
  <2>1. \A n : candidates(V, n) \subseteq Digest  BY DEF candidates, ViewChange, PQ
  <2> QED  BY <2>1 DEF Digest
<1>2. last \subseteq Nat
  <2>1. real \subseteq h + 1 .. h + L  OBVIOUS
  <2>2. h + 1 .. h + L \subseteq Nat /\ h + 1 \in Nat
    <3>1. L \in Nat  BY ConfigAssumption
    <3> QED  BY <3>1
  <2> HIDE DEF real
  <2> QED  BY <2>1, <2>2, Zenon
<1>3. X \in UNION {{list(f, maxN) : f \in lists(maxN)} : maxN \in last}
  BY Zenon DEF assignSequenceNumbers
<1> HIDE DEF choices, last
<1>4. PICK maxN \in last : X \in {list(f, maxN) : f \in lists(maxN)}  BY <1>3, Zenon
<1>5. PICK f \in lists(maxN) : X = list(f, maxN)  BY <1>4, Zenon
<1>6. \A n \in h + 1 .. maxN : n \in Nat /\ f[n] \in Digest  BY <1>1, <1>2
<1> QED  BY <1>5, <1>6

\* The P and Q sets that sendViewChange computes are sets of entries.
LEMMA NewPQType ==
    ASSUME NEW s \in Instance
    PROVE  newP(s) \in SUBSET PQ /\ newQ(s) \in SUBSET PQ
<1>1. newP(s) \in SUBSET PQ  BY Fields DEF newP, PQ, PPEntry
<1>2. newQ(s) \in SUBSET PQ  BY Fields DEF newQ, PQ, PPEntry
<1> QED  BY <1>1, <1>2

\* sendViewChange leaves an instance, whose view change is a message.
LEMMA SendViewChangeType ==
    ASSUME NEW s \in Instance, NEW me \in Replica
    PROVE  sendViewChange(s, me) \subseteq Instance
<1> DEFINE v == s.view + 1
           sP == [s EXCEPT !.pset = newP(s)]
           sQ == [sP EXCEPT !.qset = newQ(sP)]
           vc == [type |-> "viewChange", v |-> v, h |-> s.h, C |-> s.chkpts,
                  P |-> sQ.pset, Q |-> sQ.qset, i |-> me]
           keep(S) == {x \in S : x.v >= v}
           nvs == {nv \in sQ.newViewStore : nv.v # s.view}
           t == [sQ EXCEPT !.timerActive = FALSE, !.newViewStore = nvs, !.view = v,
                           !.activeView = FALSE, !.pp = keep(sQ.pp), !.prep = keep(sQ.prep),
                           !.com = keep(sQ.com), !.sentP = keep(sQ.sentP),
                           !.sentC = keep(sQ.sentC),
                           !.viewChangeStore = keep(sQ.viewChangeStore),
                           !.ownVC = {vc}, !.snd = sQ.snd \cup {vc}]
<1>1. sP \in Instance  BY NewPQType, ZenonT(60) DEF Instance
<1> HIDE DEF sP
<1>2. sQ \in Instance  BY <1>1, NewPQType, ZenonT(60) DEF Instance
<1> HIDE DEF sQ
<1>3. v \in Nat  BY Fields
<1>4. vc \in ViewChange  BY <1>2, <1>3, Fields DEF ViewChange
<1>5. sQ.snd \cup {vc} \in SUBSET Message /\ {vc} \in SUBSET ViewChange
  BY <1>2, <1>4, Fields, Zenon DEF Message
<1>6. /\ nvs \in SUBSET NewView /\ keep(sQ.pp) \in SUBSET PPEntry
      /\ keep(sQ.prep) \in SUBSET PrepEntry /\ keep(sQ.com) \in SUBSET ComEntry
      /\ keep(sQ.sentP) \in SUBSET MsgID /\ keep(sQ.sentC) \in SUBSET MsgID
      /\ keep(sQ.viewChangeStore) \in SUBSET ViewChange
  BY <1>2, Fields, Zenon
<1> HIDE DEF v, vc, keep, nvs
<1>7. t \in Instance  BY <1>2, <1>3, <1>5, <1>6, ZenonT(120) DEF Instance
<1> HIDE DEF t
<1>8. sendViewChange(s, me) \subseteq {t}  BY DEF sendViewChange, t, v, vc, keep, nvs, sQ, sP
<1> QED  BY <1>7, <1>8

\* processNewView2 leaves an instance.
LEMMA ProcessNewView2Type ==
    ASSUME NEW s \in Instance, NEW me \in Replica, NEW nv \in NewView
    PROVE  processNewView2(s, me, nv) \subseteq Instance
<1> DEFINE new == {[v |-> s.view, n |-> x.n, d |-> x.d] : x \in nv.X}
           nvs == {m \in s.newViewStore : m.v + 1 # s.view}
           pps == {p \in s.pp : \A q \in new : p.v # q.v \/ p.n # q.n} \cup new
           enter(n) == [s EXCEPT !.activeView = TRUE, !.newViewStore = nvs, !.pp = pps,
                                 !.seqNo = n]
           prepares == {[v |-> p.v, n |-> p.n, d |-> p.d, i |-> me] : p \in new}
           ids == {[v |-> p.v, n |-> p.n] : p \in new}
           sent == {message("prepare", p, me) : p \in new}
           vote(n) == [enter(n) EXCEPT !.prep = enter(n).prep \cup prepares,
                                       !.sentP = enter(n).sentP \cup ids,
                                       !.snd = enter(n).snd \cup sent]
           tops == {s.seqNo} \cup {x.n : x \in nv.X}
<1>1. new \in SUBSET PPEntry  BY Fields DEF PPEntry, NewView
<1>2. tops \subseteq Nat  BY Fields DEF NewView
<1> HIDE DEF new, tops
<1>3. nvs \in SUBSET NewView /\ pps \in SUBSET PPEntry  BY <1>1, Fields, Zenon
<1>4. prepares \in SUBSET PrepEntry /\ ids \in SUBSET MsgID
  BY <1>1 DEF PPEntry, PrepEntry, MsgID
<1>5. sent \in SUBSET Message
  <2>1. \A p \in new : message("prepare", p, me) \in Message  BY <1>1, VoteMessage DEF PPEntry
  <2> QED  BY <2>1
<1> HIDE DEF nvs, pps, prepares, ids, sent
<1>6. ASSUME NEW n \in tops PROVE enter(n) \in Instance /\ vote(n) \in Instance
  <2>1. enter(n) \in Instance  BY <1>2, <1>3, ZenonT(60) DEF Instance
  <2> HIDE DEF enter
  <2>2. /\ enter(n).prep \cup prepares \in SUBSET PrepEntry
        /\ enter(n).sentP \cup ids \in SUBSET MsgID
        /\ enter(n).snd \cup sent \in SUBSET Message
    BY <1>4, <1>5, <2>1, Fields
  <2> QED  BY <2>1, <2>2, ZenonT(60) DEF Instance
<1> HIDE DEF enter
<1> DEFINE top == {n \in tops : n >= s.seqNo /\ \A x \in nv.X : n >= x.n}
<1>7. processNewView2(s, me, nv) =
        IF primary(s.view) = me THEN UNION {resubmitRequests(enter(n), me) : n \in top}
        ELSE {vote(n) : n \in top}
  BY Zenon DEF processNewView2, new, nvs, pps, enter, prepares, ids, sent, tops
<1>8. top \subseteq tops  OBVIOUS
<1> HIDE DEF vote, top
<1> QED  BY <1>6, <1>7, <1>8, ResubmitRequestsType

\* The state transfer that skipTo requests leaves an instance.
LEMMA SkipToType ==
    ASSUME NEW s \in Instance, NEW n \in Nat, NEW id \in Seq(Requests)
    PROVE  skipTo(s, n, id) \subseteq Instance
<1> DEFINE q == <<[at |-> n, n |-> n, id |-> id]>>
<1>1. q \in Seq([at : Nat, n : Nat, id : Seq(Requests)])
  <2>1. [at |-> n, n |-> n, id |-> id] \in [at : Nat, n : Nat, id : Seq(Requests)]  OBVIOUS
  <2>2. \A S : \A e \in S : <<e>> \in Seq(S)  OBVIOUS
  <2> QED  BY <2>1, <2>2, Zenon
<1> HIDE DEF q
<1>2. [s EXCEPT !.app = id, !.ckq = q] \in Instance  BY <1>1, ZenonT(60) DEF Instance
<1>3. [s EXCEPT !.hung = TRUE] \in Instance  BY ZenonT(60) DEF Instance
<1>4. skipTo(s, n, id) \subseteq {[s EXCEPT !.app = id, !.ckq = q], [s EXCEPT !.hung = TRUE]}
  BY Zenon DEF skipTo, q
<1> QED  BY <1>2, <1>3, <1>4

\* The end of processNewView, which takes over the new view, leaves an instance.
LEMMA AcceptNewViewType ==
    ASSUME NEW s \in Instance, NEW me \in Replica, NEW nv \in NewView, NEW cp \in C
    PROVE  acceptNewView(s, me, nv, cp) \subseteq Instance
<1> DEFINE caught(u) == IF u.hung THEN u ELSE [u EXCEPT !.lastExec = cp.n]
           starts == IF s.h < cp.n
                     THEN {caught(u) : u \in UNION {skipTo(w, cp.n, cp.id) :
                                                      w \in moveWatermarks(s, me, cp.n)}}
                     ELSE {s}
           need(t) == {x.d : x \in {y \in nv.X : y.n > t.h /\ y.d # Null}} \ t.reqStore
           missing(t) == t.missingReqs \cup need(t)
           t1(t) == [t EXCEPT !.missingReqs = missing(t)]
           fetches(t) == {[type |-> "fetchRequest", d |-> d, i |-> me] : d \in missing(t)}
           t2(t) == [t1(t) EXCEPT !.snd = t1(t).snd \cup fetches(t)]
           body(t) == IF t.hung THEN {t}
                      ELSE IF missing(t) = {} THEN processNewView2(t, me, nv)
                      ELSE IF need(t) \subseteq t.missingReqs THEN {t}
                      ELSE {t2(t)}
<1>1. cp.n \in Nat /\ cp.id \in Seq(Requests)  BY DEF C
<1>2. ASSUME NEW u \in Instance PROVE caught(u) \in Instance
  BY <1>1, ZenonT(60) DEF Instance
<1> HIDE DEF caught
<1>3. starts \subseteq Instance
  <2>1. \A w \in moveWatermarks(s, me, cp.n) : skipTo(w, cp.n, cp.id) \subseteq Instance
    BY <1>1, MoveWatermarksType, SkipToType
  <2> QED  BY <1>2, <2>1
<1>4. ASSUME NEW t \in Instance PROVE body(t) \subseteq Instance
  <2>1. missing(t) \in SUBSET Requests  BY Fields DEF NewView, Digest
  <2>2. fetches(t) \in SUBSET Message
    <3>1. fetches(t) \in SUBSET Fetch  BY <2>1 DEF Fetch
    <3> QED  BY <3>1 DEF Message
  <2> HIDE DEF missing, fetches
  <2>3. t1(t) \in Instance  BY <2>1, ZenonT(60) DEF Instance
  <2> HIDE DEF t1
  <2>4. t1(t).snd \cup fetches(t) \in SUBSET Message  BY <2>2, <2>3, Fields
  <2>5. t2(t) \in Instance  BY <2>3, <2>4, ZenonT(60) DEF Instance
  <2> HIDE DEF t2
  <2> QED  BY <2>5, ProcessNewView2Type
<1>5. acceptNewView(s, me, nv, cp) = UNION {body(t) : t \in starts}
  BY Zenon DEF acceptNewView, caught
<1> HIDE DEF body, starts
<1> QED  BY <1>3, <1>4, <1>5

\* selectInitialCheckpoint returns checkpoints.
LEMMA SelectInitialCheckpointType ==
    ASSUME NEW V \in SUBSET ViewChange
    PROVE  selectInitialCheckpoint(V) \subseteq C
BY DEF selectInitialCheckpoint, ViewChange

\* processNewView leaves an instance.
LEMMA ProcessNewViewType ==
    ASSUME NEW s \in Instance, NEW me \in Replica
    PROVE  processNewView(s, me) \subseteq Instance
<1> DEFINE nvs == {nv \in s.newViewStore : nv.v = s.view}
           enter(nv, cp) == IF nv.X \in assignSequenceNumbers(nv.V, cp.n)
                            THEN acceptNewView(s, me, nv, cp) ELSE sendViewChange(s, me)
           body(nv) == LET cps == selectInitialCheckpoint(nv.V)
                       IN  IF cps = {} THEN sendViewChange(s, me)
                           ELSE UNION {enter(nv, cp) : cp \in cps}
<1>1. nvs \subseteq NewView  BY Fields
<1>2. ASSUME NEW nv \in NewView, NEW cp \in C PROVE enter(nv, cp) \subseteq Instance
  BY AcceptNewViewType, SendViewChangeType
<1> HIDE DEF enter
<1>3. ASSUME NEW nv \in NewView PROVE body(nv) \subseteq Instance
  <2>1. selectInitialCheckpoint(nv.V) \subseteq C  BY SelectInitialCheckpointType DEF NewView
  <2> QED  BY <1>2, <2>1, SendViewChangeType
<1>4. processNewView(s, me) \subseteq {s} \cup UNION {body(nv) : nv \in nvs}
  BY Zenon DEF processNewView, enter
<1> HIDE DEF body, nvs
<1> QED  BY <1>1, <1>3, <1>4

\* sendNewView leaves an instance.
LEMMA SendNewViewType ==
    ASSUME NEW s \in Instance, NEW me \in Replica
    PROVE  sendNewView(s, me) \subseteq Instance
<1> DEFINE V == s.viewChangeStore
           cps == selectInitialCheckpoint(V)
           nvs == {[type |-> "newView", v |-> s.view, V |-> V, X |-> X, i |-> me] :
                     X \in UNION {assignSequenceNumbers(V, cp.n) : cp \in cps}}
           with(nv) == [s EXCEPT !.newViewStore = s.newViewStore \cup {nv},
                                 !.snd = s.snd \cup {nv}]
<1>1. V \in SUBSET ViewChange  BY Fields
<1>2. nvs \subseteq NewView
  <2>1. cps \subseteq C  BY <1>1, SelectInitialCheckpointType
  <2>2. \A cp \in cps : assignSequenceNumbers(V, cp.n) \subseteq SUBSET [n : Nat, d : Digest]
    BY <1>1, <2>1, AssignSequenceNumbersType DEF C
  <2> HIDE DEF V, cps
  <2> QED  BY <1>1, <2>2, Fields DEF NewView
<1> HIDE DEF nvs
<1>3. ASSUME NEW nv \in nvs PROVE with(nv) \in Instance
  <2>1. s.newViewStore \cup {nv} \in SUBSET NewView /\ s.snd \cup {nv} \in SUBSET Message
    BY <1>2, Fields, Zenon DEF Message
  <2> QED  BY <2>1, ZenonT(60) DEF Instance
<1> HIDE DEF with
<1>4. sendNewView(s, me) \subseteq {s} \cup UNION {processNewView(with(nv), me) : nv \in nvs}
  BY Zenon DEF sendNewView, nvs, with
<1> QED  BY <1>3, <1>4, ProcessNewViewType

\* recvNewView leaves an instance.
LEMMA RecvNewViewType ==
    ASSUME NEW s \in Instance, NEW me \in Replica, NEW m \in NewView
    PROVE  recvNewView(s, me, m) \subseteq Instance
<1>1. s.newViewStore \cup {m} \in SUBSET NewView  BY Fields
<1>2. [s EXCEPT !.newViewStore = s.newViewStore \cup {m}] \in Instance
  BY <1>1, ZenonT(60) DEF Instance
<1> QED  BY <1>2, ProcessNewViewType DEF recvNewView

\* recvViewChange leaves an instance.
LEMMA RecvViewChangeType ==
    ASSUME NEW s \in Instance, NEW me \in Replica, NEW m \in ViewChange
    PROVE  recvViewChange(s, me, m) \subseteq Instance
<1> DEFINE s1 == [s EXCEPT !.viewChangeStore = s.viewChangeStore \cup {m}]
           higher == {w \in s1.viewChangeStore : w.v > s.view}
           minView == {v \in {w.v : w \in higher} : \A w \in higher : v <= w.v}
           quorum == Cardinality({w \in s1.viewChangeStore : w.v = s.view})
           back(v) == [s1 EXCEPT !.view = v - 1]
           s2 == [s1 EXCEPT !.timerActive = TRUE]
<1>1. s1 \in Instance
  <2>1. s.viewChangeStore \cup {m} \in SUBSET ViewChange  BY Fields
  <2> QED  BY <2>1, ZenonT(60) DEF Instance
<1> HIDE DEF s1
<1>2. s2 \in Instance  BY <1>1, ZenonT(60) DEF Instance
<1>3. ASSUME NEW v \in minView PROVE back(v) \in Instance
  <2>1. v \in Nat /\ v > s.view  BY <1>1, Fields DEF ViewChange
  <2>2. v - 1 \in Nat  BY <2>1, Fields
  <2> QED  BY <1>1, <2>2, ZenonT(60) DEF Instance
<1> HIDE DEF s2, back, minView
<1>4. \A v \in minView : sendViewChange(back(v), me) \subseteq Instance
  BY <1>3, SendViewChangeType
<1>5. /\ sendNewView(s2, me) \subseteq Instance /\ processNewView(s2, me) \subseteq Instance
      /\ processNewView(s1, me) \subseteq Instance
  BY <1>1, <1>2, SendNewViewType, ProcessNewViewType
<1> DEFINE dropped == \/ m.v < s.view \/ ~correctViewChange(m)
                      \/ \E w \in s.viewChangeStore : w.v = m.v /\ w.i = m.i
<1>6. recvViewChange(s, me, m) =
        IF dropped THEN {s}
        ELSE IF Cardinality({w.i : w \in higher}) >= F + 1
        THEN UNION {sendViewChange(back(v), me) : v \in minView}
        ELSE IF m.v = s.view /\ quorum = allCorrectReplicasQuorum
        THEN IF primary(s.view) = me THEN sendNewView(s2, me) ELSE processNewView(s2, me)
        ELSE processNewView(s1, me)
  BY Zenon DEF recvViewChange, s1, s2, back, minView
<1> HIDE DEF dropped, higher, quorum
<1> QED  BY <1>4, <1>5, <1>6

\* recvFetchRequest leaves an instance.
LEMMA RecvFetchRequestType ==
    ASSUME NEW s \in Instance, NEW me \in Replica, NEW m \in Fetch
    PROVE  recvFetchRequest(s, me, m) \subseteq Instance
<1> DEFINE r == [type |-> "returnRequest", d |-> m.d, i |-> me, to |-> m.i]
<1>1. r \in Message  BY DEF Fetch, Return, Message
<1> HIDE DEF r
<1>2. s.snd \cup {r} \in SUBSET Message  BY <1>1, Fields
<1>3. [s EXCEPT !.snd = s.snd \cup {r}] \in Instance  BY <1>2, ZenonT(60) DEF Instance
<1> QED  BY <1>3 DEF recvFetchRequest, r

\* recvReturnRequest leaves an instance.
LEMMA RecvReturnRequestType ==
    ASSUME NEW s \in Instance, NEW me \in Replica, NEW m \in Return
    PROVE  recvReturnRequest(s, me, m) \subseteq Instance
<1>1. s.reqStore \cup {m.d} \in SUBSET Requests /\ s.missingReqs \ {m.d} \in SUBSET Requests
  BY Fields DEF Return
<1>2. [s EXCEPT !.reqStore = s.reqStore \cup {m.d}, !.missingReqs = s.missingReqs \ {m.d}]
        \in Instance
  BY <1>1, ZenonT(60) DEF Instance
<1> QED  BY <1>2, ProcessNewViewType DEF recvReturnRequest

-----------------------------------------------------------------------------
(* Checkpoints. *)

\* weakCheckpointSetOutOfRange leaves an instance.
LEMMA WeakCheckpointSetType ==
    ASSUME NEW s \in Instance, NEW m \in Checkpoint
    PROVE  /\ weakCheckpointSet(s, m).hChkpts \in SUBSET [i : Replica, n : Nat]
           /\ weakCheckpointSet(s, m).ahead \subseteq {n \in Nat : n > s.h + L}
<1> DEFINE others == {x \in s.hChkpts : x.i # m.i}
           hc == others \cup {[i |-> m.i, n |-> m.n]}
<1>1. others \in SUBSET [i : Replica, n : Nat] /\ hc \in SUBSET [i : Replica, n : Nat]
  BY Fields DEF Checkpoint
<1> HIDE DEF hc, others
<1>2. attested(hc) \subseteq Nat  BY <1>1 DEF attested
<1> HIDE DEF hc
<1> QED  BY <1>1, <1>2 DEF weakCheckpointSet, hc, others

\* witnessCheckpointWeakCert leaves an instance.
LEMMA WitnessType ==
    ASSUME NEW s \in Instance, NEW me \in Replica, NEW m \in Checkpoint
    PROVE  witnessCheckpointWeakCert(s, me, m) \subseteq Instance
<1> DEFINE go == [s EXCEPT !.skipInProgress = FALSE]
           done(u) == [u EXCEPT !.lastExec = m.n]
<1>1. m.n \in Nat /\ m.id \in Seq(Requests)  BY DEF Checkpoint
<1>2. go \in Instance  BY ZenonT(60) DEF Instance
<1> HIDE DEF go
<1>3. ASSUME NEW u \in Instance PROVE done(u) \in Instance  BY <1>1, ZenonT(60) DEF Instance
<1> HIDE DEF done
<1>4. witnessCheckpointWeakCert(s, me, m) \subseteq
        {s} \cup UNION {{done(u) : u \in skipTo(t, m.n, m.id)} : t \in moveWatermarks(go, me, m.n)}
  BY Zenon DEF witnessCheckpointWeakCert, go, done
<1>5. \A t \in moveWatermarks(go, me, m.n) : skipTo(t, m.n, m.id) \subseteq Instance
  BY <1>1, <1>2, MoveWatermarksType, SkipToType
<1> QED  BY <1>3, <1>4, <1>5

\* recvCheckpoint leaves an instance.
LEMMA RecvCheckpointType ==
    ASSUME NEW s \in Instance, NEW me \in Replica, NEW m \in Checkpoint
    PROVE  recvCheckpoint(s, me, m) \subseteq Instance
<1> DEFINE far == weakCheckpointSet(s, m)
           s1 == [s EXCEPT !.hChkpts = far.hChkpts]
           c == s1.checkpointStore \cup {[n |-> m.n, id |-> m.id, i |-> m.i]}
           s2 == [s1 EXCEPT !.checkpointStore = c]
           empty == [s1 EXCEPT !.reqStore = {}]
           skipping(t) == [t EXCEPT !.skipInProgress = TRUE]
           s3 == {s2} \cup witnessCheckpointWeakCert(s2, me, m)
           moved(t) == UNION {processNewView(u, me) : u \in moveWatermarks(t, me, m.n)}
<1>1. s1 \in Instance  BY WeakCheckpointSetType, ZenonT(60) DEF Instance
<1> HIDE DEF s1
<1>2. s2 \in Instance
  <2>1. c \in SUBSET [n : Nat, id : Seq(Requests), i : Replica]
    BY <1>1, Fields DEF Checkpoint
  <2> HIDE DEF c
  <2> QED  BY <1>1, <2>1, ZenonT(60) DEF Instance
<1>3. empty \in Instance  BY <1>1, ZenonT(60) DEF Instance
<1>4. ASSUME NEW t \in Instance PROVE skipping(t) \in Instance  BY ZenonT(60) DEF Instance
<1> HIDE DEF s2, empty, skipping
<1>5. s3 \subseteq Instance  BY <1>2, WitnessType
<1> HIDE DEF s3
<1>6. \A t \in s3 : moved(t) \subseteq Instance
  BY <1>5, MoveWatermarksType, ProcessNewViewType DEF Checkpoint
<1> HIDE DEF moved
<1>7. \A n \in far.ahead : moveWatermarks(empty, me, n) \subseteq Instance
  BY <1>3, WeakCheckpointSetType, MoveWatermarksType
<1> DEFINE matching == Cardinality({x \in s2.checkpointStore : x.n = m.n /\ x.id = m.id})
           s3x == IF matching = F + 1 THEN witnessCheckpointWeakCert(s2, me, m) ELSE {s2}
           fallen == UNION {{skipping(t) : t \in moveWatermarks(empty, me, n)} : n \in far.ahead}
           settled(t) == IF ~t.hung /\ \E x \in t.chkpts : x.n = m.n THEN moved(t) ELSE {t}
<1>8. recvCheckpoint(s, me, m) =
        IF far.ahead # {} THEN fallen
        ELSE IF ~inW(s, m.n) THEN {s1}
        ELSE IF matching < intersectionQuorum THEN s3x
        ELSE UNION {settled(t) : t \in s3x}
  BY Zenon DEF recvCheckpoint, s1, s2, empty, skipping, moved
<1>9. fallen \subseteq Instance  BY <1>4, <1>7
<1>10. s3x \subseteq s3  BY DEF s3
<1>11. \A t \in s3 : settled(t) \subseteq Instance  BY <1>5, <1>6
<1> HIDE DEF far, matching, s3x, fallen, settled
<1> QED  BY <1>1, <1>5, <1>8, <1>9, <1>10, <1>11

\* Checkpoint, which the executor calls, leaves an instance.
LEMMA CheckpointType ==
    ASSUME NEW s \in Instance, NEW me \in Replica,
           NEW c \in [at : Nat, n : Nat, id : Seq(Requests)]
    PROVE  checkpoint(s, me, c) \subseteq Instance
<1> DEFINE m == [type |-> "checkpoint", n |-> s.lastExec, id |-> c.id, i |-> me]
           cs == {x \in s.chkpts : x.n # s.lastExec} \cup {[n |-> m.n, id |-> m.id]}
<1>1. m \in Checkpoint  BY Fields DEF Checkpoint
<1>2. cs \in SUBSET C  BY <1>1, Fields DEF Checkpoint, C
<1> HIDE DEF m, cs
<1>3. s.snd \cup {m} \in SUBSET Message  BY <1>1, Fields, Zenon DEF Message
<1>4. [s EXCEPT !.chkpts = cs, !.snd = s.snd \cup {m}] \in Instance
  BY <1>2, <1>3, ZenonT(60) DEF Instance
<1>5. checkpoint(s, me, c) \subseteq
        {s} \cup recvCheckpoint([s EXCEPT !.chkpts = cs, !.snd = s.snd \cup {m}], me, m)
  BY Zenon DEF checkpoint, m, cs
<1> QED  BY <1>1, <1>4, <1>5, RecvCheckpointType

-----------------------------------------------------------------------------
(* The network. *)

\* A message of each type is a record of that type.
LEMMA MessageTypes ==
    ASSUME NEW m \in Message
    PROVE  /\ m.i \in Replica
           /\ m.type \in {"prePrepare", "prepare", "commit"} =>
                m.v \in Nat /\ m.n \in Nat /\ m.d \in Digest
           /\ m.type = "checkpoint" => m \in Checkpoint
           /\ m.type = "viewChange" => m \in ViewChange
           /\ m.type = "newView" => m \in NewView
           /\ m.type = "fetchRequest" => m \in Fetch
           /\ m.type = "returnRequest" => m \in Return
           /\ m.type \in {"prePrepare", "prepare", "commit", "checkpoint", "viewChange",
                          "newView", "fetchRequest", "returnRequest"}
BY DEF Message, Vote, Checkpoint, ViewChange, NewView, Fetch, Return

\* recvMsgSync dispatches a message to a handler that leaves an instance.
LEMMA RecvMsgSyncType ==
    ASSUME NEW s \in Instance, NEW i \in Replica, NEW m \in Message
    PROVE  recvMsgSync(s, i, m) \subseteq Instance
<1>1. CASE m.type = "prePrepare"
  BY <1>1, MessageTypes, RecvPrePrepareType DEF recvMsgSync
<1>2. CASE m.type = "prepare"
  BY <1>2, MessageTypes, RecvPrepareType DEF recvMsgSync
<1>3. CASE m.type = "commit"
  BY <1>3, MessageTypes, RecvCommitType DEF recvMsgSync
<1>4. CASE m.type = "checkpoint"
  BY <1>4, MessageTypes, RecvCheckpointType DEF recvMsgSync
<1>5. CASE m.type = "viewChange"
  BY <1>5, MessageTypes, RecvViewChangeType DEF recvMsgSync
<1>6. CASE m.type = "newView"
  BY <1>6, MessageTypes, RecvNewViewType DEF recvMsgSync
<1>7. CASE m.type = "fetchRequest"
  BY <1>7, MessageTypes, RecvFetchRequestType DEF recvMsgSync
<1>8. CASE m.type = "returnRequest"
  BY <1>8, MessageTypes, RecvReturnRequestType DEF recvMsgSync
<1> QED  BY <1>1, <1>2, <1>3, <1>4, <1>5, <1>6, <1>7, <1>8, MessageTypes

\* A handler whose messages are sent keeps the types.
LEMMA FinishType ==
    ASSUME TypeOK, NEW i \in Correct, NEW t \in Instance, Finish(i, t)
    PROVE  /\ rep' \in [Correct -> Instance] /\ \A j \in Correct : rep'[j].snd = {}
           /\ msgs' \subseteq Message
<1> DEFINE u == [t EXCEPT !.snd = {}]
<1>1. u \in Instance  BY ZenonT(60) DEF Instance
<1>2. u.snd = {}  BY DEF Instance
<1>3. rep' = [rep EXCEPT ![i] = u]  BY DEF Finish
<1> HIDE DEF u
<1>4. rep' \in [Correct -> Instance] /\ \A j \in Correct : rep'[j].snd = {}
  BY <1>1, <1>2, <1>3 DEF TypeOK
<1>5. msgs' \subseteq Message  BY Fields DEF Finish, TypeOK
<1> QED  BY <1>4, <1>5

\* What the actions outside a handler change before they enter one.
LEMMA UpdateTypes ==
    ASSUME NEW s \in Instance
    PROVE  /\ [s EXCEPT !.ownVC = {}] \in Instance
           /\ [s EXCEPT !.more = FALSE] \in Instance
           /\ \A q \in Seq([at : Nat, n : Nat, id : Seq(Requests)]) :
                [s EXCEPT !.ckq = q] \in Instance
           /\ \A k \in Nat, b \in BOOLEAN :
                [s EXCEPT !.calling = k, !.timerActive = b] \in Instance
<1>1. [s EXCEPT !.ownVC = {}] \in Instance  BY ZenonT(60) DEF Instance
<1>2. [s EXCEPT !.more = FALSE] \in Instance  BY ZenonT(60) DEF Instance
<1>3. ASSUME NEW q \in Seq([at : Nat, n : Nat, id : Seq(Requests)])
      PROVE  [s EXCEPT !.ckq = q] \in Instance
  BY ZenonT(60) DEF Instance
<1>4. ASSUME NEW k \in Nat, NEW b \in BOOLEAN
      PROVE  [s EXCEPT !.calling = k, !.timerActive = b] \in Instance
  BY ZenonT(60) DEF Instance
<1> QED  BY <1>1, <1>2, <1>3, <1>4, Zenon

\* Every step keeps the types, one case for each action.
LEMMA NextType == TypeOK /\ [Next]_vars => TypeOK'
<1> SUFFICES ASSUME TypeOK, [Next]_vars PROVE TypeOK'  OBVIOUS
<1>1. CASE UNCHANGED vars  BY <1>1 DEF TypeOK, vars
<1>2. ASSUME NEW i \in Correct, NEW t \in Instance, Finish(i, t),
             todo' \in [Correct -> SUBSET Requests]
      PROVE  TypeOK'
  BY <1>2, FinishType DEF TypeOK
<1>3. ASSUME NEW i \in Correct PROVE rep[i] \in Instance /\ i \in Replica
  BY DEF TypeOK, Correct
<1>4. ASSUME NEW i \in Correct, NEW d \in Requests, Request(i, d) PROVE TypeOK'
  <2>1. todo' \in [Correct -> SUBSET Requests]  BY <1>4 DEF Request, TypeOK
  <2>2. recvRequest(rep[i], i, d) \in Instance  BY <1>3, RecvRequestType
  <2> QED  BY <1>2, <1>4, <2>1, <2>2 DEF Request
<1>5. ASSUME NEW i \in Correct, NEW m \in msgs, Receive(i, m) PROVE TypeOK'
  <2>1. m \in Message  BY DEF TypeOK
  <2>2. recvMsgSync(rep[i], i, m) \subseteq Instance  BY <1>3, <2>1, RecvMsgSyncType
  <2>3. todo' \in [Correct -> SUBSET Requests]  BY <1>5 DEF Receive, TypeOK
  <2> QED  BY <1>2, <1>5, <2>2, <2>3 DEF Receive
<1>6. ASSUME NEW i \in Correct, OwnViewChange(i) PROVE TypeOK'
  <2>1. [rep[i] EXCEPT !.ownVC = {}] \in Instance  BY <1>3, UpdateTypes, Zenon
  <2>2. rep[i].ownVC \subseteq ViewChange  BY <1>3, Fields
  <2>3. \A m \in rep[i].ownVC : recvViewChange([rep[i] EXCEPT !.ownVC = {}], i, m) \subseteq Instance
    BY <1>3, <2>1, <2>2, RecvViewChangeType
  <2>4. todo' \in [Correct -> SUBSET Requests]  BY <1>6 DEF OwnViewChange, TypeOK
  <2> QED  BY <1>2, <1>6, <2>3, <2>4 DEF OwnViewChange
<1>7. ASSUME NEW i \in Correct, Timeout(i) PROVE TypeOK'
  <2>1. sendViewChange(rep[i], i) \subseteq Instance  BY <1>3, SendViewChangeType
  <2>2. todo' \in [Correct -> SUBSET Requests]  BY <1>7 DEF Timeout, TypeOK
  <2> QED  BY <1>2, <1>7, <2>1, <2>2 DEF Timeout
<1>8. ASSUME NEW i \in Correct, CheckpointDone(i) PROVE TypeOK'
  <2> DEFINE s == [rep[i] EXCEPT !.ckq = Tail(rep[i].ckq)]
             c == Head(rep[i].ckq)
  <2>1. rep[i].ckq # <<>>  BY <1>8 DEF CheckpointDone
  <2>2. /\ Tail(rep[i].ckq) \in Seq([at : Nat, n : Nat, id : Seq(Requests)])
        /\ c \in [at : Nat, n : Nat, id : Seq(Requests)]
    BY <1>3, <2>1, Fields, SeqTypes, Zenon
  <2>3. s \in Instance  BY <1>3, <2>2, UpdateTypes, Zenon
  <2> HIDE DEF s, c
  <2>4. checkpoint(s, i, c) \subseteq Instance  BY <1>3, <2>2, <2>3, CheckpointType
  <2>5. todo' \in [Correct -> SUBSET Requests]  BY <1>8 DEF CheckpointDone, TypeOK
  <2>6. \E t \in checkpoint(s, i, c) : Finish(i, t)  BY <1>8, Zenon DEF CheckpointDone, s, c
  <2> QED  BY <1>2, <2>4, <2>5, <2>6
<1>9. ASSUME NEW i \in Correct, Resume(i) PROVE TypeOK'
  <2> DEFINE s == [rep[i] EXCEPT !.calling = rep[i].calling - 1,
                                 !.timerActive = rep[i].timerActive \/ rep[i].outstandingReqs # {}]
  <2>1. rep[i].calling - 1 \in Nat  BY <1>3, <1>9, Fields DEF Resume
  <2>2. (rep[i].timerActive \/ rep[i].outstandingReqs # {}) \in BOOLEAN  OBVIOUS
  <2>3. s \in Instance  BY <1>3, <2>1, <2>2, UpdateTypes, Zenon
  <2> HIDE DEF s
  <2>4. resume(rep[i]) = executeOutstanding(s)  BY Zenon DEF resume, s
  <2>5. todo' \in [Correct -> SUBSET Requests]  BY <1>9 DEF Resume, TypeOK
  <2> QED  BY <1>2, <1>9, <2>3, <2>4, <2>5, ExecuteOutstandingType DEF Resume
<1>10. ASSUME NEW i \in Correct, ExecuteMore(i) PROVE TypeOK'
  <2>1. [rep[i] EXCEPT !.more = FALSE] \in Instance  BY <1>3, UpdateTypes, Zenon
  <2>2. todo' \in [Correct -> SUBSET Requests]  BY <1>10 DEF ExecuteMore, TypeOK
  <2> QED  BY <1>2, <1>10, <2>1, <2>2, ExecuteOutstandingType DEF ExecuteMore
<1> QED  BY <1>1, <1>4, <1>5, <1>6, <1>7, <1>8, <1>9, <1>10 DEF Next

\* newPbftCore and the empty network have their types.
LEMMA InitType == Init => TypeOK
<1> SUFFICES ASSUME Init PROVE TypeOK  OBVIOUS
<1>1. rep \in [Correct -> Instance]  BY NewInstance DEF Init
<1>2. \A i \in Correct : rep[i].snd = {}  BY DEF Init, newPbftCore
<1>3. msgs \subseteq Message  BY FaultAssumption DEF Init
<1>4. todo \in [Correct -> SUBSET Requests]  BY FaultAssumption DEF Init, Correct
<1> QED  BY <1>1, <1>2, <1>3, <1>4 DEF TypeOK

\* Whatever the configuration and the faulty replicas, every variable keeps its type
\* and no handler leaves a message unsent.
THEOREM TypeCorrect == Spec => []TypeOK
BY InitType, NextType, PTL DEF Spec
=============================================================================
