------------------------------ MODULE PbftLocalInv -----------------------------
(***************************************************************************)
(* What makes PreparedAgreement true in PbftCore: a correct replica        *)
(* prepares one request per view and number, and a correct primary         *)
(* announces one; the votes behind two prepared certificates and their     *)
(* primary have a correct replica in common.  LocalInv says, of one        *)
(* instance s of replica me and of the messages M sent so far, what makes  *)
(* the first half inductive.  The handlers of the normal case keep it;     *)
(* PbftSafety goes on with the others and with the network.                *)
(***************************************************************************)
EXTENDS PbftTypes

\* The primary of view v has announced request d as number n: in a pre-prepare, or
\* in the new-view that started v.
Announced(M, v, n, d) ==
    \/ [type |-> "prePrepare", v |-> v, n |-> n, d |-> d, i |-> primary(v)] \in M
    \/ v > 0 /\ \E nv \in M : /\ nv.type = "newView" /\ nv.v = v /\ nv.i = primary(v)
                              /\ [n |-> n, d |-> d] \in nv.X

Own(M, me, type) == {m \in M : m.type = type /\ m.i = me}
OwnNewViews(M, me) == {nv \in Own(M, me, "newView") : nv.v > 0}

\* The certificates are of the current view, and come from messages; pset and qset
\* are of earlier ones; an active view has its new-view.
Certificates(s, M) ==
    /\ s.view = 0 => s.activeView
    /\ \A p \in s.pp : p.v = s.view /\ Announced(M, p.v, p.n, p.d)
    /\ \A e \in s.pset \cup s.qset : e.v < s.view
    /\ \A p \in s.prep : p.i # primary(p.v) /\ message("prepare", p, p.i) \in M
    /\ \A nv \in s.newViewStore : nv \in M /\ nv.type = "newView" /\ nv.i = primary(nv.v)
    /\ s.activeView /\ s.view > 0 => \E nv \in s.newViewStore : nv.v = s.view

\* It has prepared one request per view and number, and remembers the numbers of the
\* current view that it can still be asked to prepare.
Prepares(s, me, M) ==
    \A m \in Own(M, me, "prepare") :
        /\ m.v <= s.view
        /\ m.v = s.view => s.activeView /\ ([v |-> m.v, n |-> m.n] \in s.sentP \/ m.n <= s.h)
        /\ \A w \in Own(M, me, "prepare") : w.v = m.v /\ w.n = m.n => w.d = m.d

\* It has pre-prepared one request per view and number, up to seqNo.
PrePrepares(s, me, M) ==
    \A m \in Own(M, me, "prePrepare") :
        /\ m.v <= s.view
        /\ m.v = s.view => s.activeView /\ m.n <= s.seqNo
        /\ \A w \in Own(M, me, "prePrepare") : w.v = m.v /\ w.n = m.n => w.d = m.d

\* It has sent one new-view per view, which binds every number at most once, and its
\* pre-prepares go on after it.
NewViews(s, me, M) ==
    \A nv \in OwnNewViews(M, me) :
        /\ nv.v <= s.view
        /\ nv.v = s.view => nv \in s.newViewStore
        /\ nv.v = s.view /\ s.activeView => \A x \in nv.X : x.n <= s.seqNo
        /\ \A x, y \in nv.X : x.n = y.n => x.d = y.d
        /\ \A w \in OwnNewViews(M, me) : w.v = nv.v => w = nv
        /\ \A m \in Own(M, me, "prePrepare") : m.v = nv.v => \A x \in nv.X : x.n # m.n

LocalInv(s, me, M) ==
    Certificates(s, M) /\ Prepares(s, me, M) /\ PrePrepares(s, me, M) /\ NewViews(s, me, M)

Inv == TypeOK /\ \A i \in Correct : LocalInv(rep[i], i, msgs)

-----------------------------------------------------------------------------
(* Quorums. *)

\* Two sets of intersectionQuorum replicas have a correct replica in common.
LEMMA QuorumOverlap ==
    ASSUME NEW A \in SUBSET Replica, NEW B \in SUBSET Replica,
           Cardinality(A) >= intersectionQuorum, Cardinality(B) >= intersectionQuorum
    PROVE  \E k \in Correct : k \in A /\ k \in B
<1> N \in Nat /\ F \in Nat /\ 3 * F + 1 <= N  BY ConfigAssumption
<1>1. IsFiniteSet(Replica) /\ Cardinality(Replica) = N
  BY FS_Interval DEF Replica
<1>2. /\ IsFiniteSet(A) /\ IsFiniteSet(B) /\ IsFiniteSet(A \cap B) /\ IsFiniteSet(A \cup B)
      /\ Cardinality(A \cup B) <= N
      /\ Cardinality(A \cup B) = Cardinality(A) + Cardinality(B) - Cardinality(A \cap B)
  <2>1. IsFiniteSet(A) /\ IsFiniteSet(B)  BY <1>1, FS_Subset
  <2>2. A \cup B \in SUBSET Replica /\ A \cap B \in SUBSET Replica  OBVIOUS
  <2> QED  BY <1>1, <2>1, <2>2, FS_Subset, FS_Union
<1>3. /\ Cardinality(A) \in Nat /\ Cardinality(B) \in Nat
      /\ Cardinality(A \cap B) \in Nat /\ Cardinality(A \cup B) \in Nat
  BY <1>2, FS_CardinalityType
<1>4. 2 * intersectionQuorum >= N + F + 1 /\ intersectionQuorum \in Nat
  BY DEF intersectionQuorum
<1>5. Cardinality(A \cap B) >= F + 1  BY <1>2, <1>3, <1>4
<1>6. ~(A \cap B \subseteq Faulty)
  <2> SUFFICES ASSUME A \cap B \subseteq Faulty PROVE FALSE  OBVIOUS
  <2>1. IsFiniteSet(Faulty)  BY <1>1, FaultAssumption, FS_Subset
  <2>2. Cardinality(A \cap B) <= Cardinality(Faulty) /\ Cardinality(Faulty) \in Nat
    BY <2>1, FS_Subset, FS_CardinalityType
  <2> QED  BY <1>3, <1>5, <2>2, FaultAssumption
<1> QED  BY <1>6 DEF Correct

\* The senders of the prepares in a certificate, with their primary, are a quorum.
LEMMA PreparedQuorum ==
    ASSUME NEW s \in Instance, NEW M, Certificates(s, M), NEW x \in s.pp,
           prepared(s, x.d, x.v, x.n)
    PROVE  Cardinality({p.i : p \in prepareVotes(s, x.d, x.v, x.n)} \cup {primary(x.v)})
             >= intersectionQuorum
<1> DEFINE votes == prepareVotes(s, x.d, x.v, x.n)
           W == {p.i : p \in votes}
           f == [k \in W |-> [v |-> x.v, n |-> x.n, d |-> x.d, i |-> k]]
<1>1. x.v = s.view /\ x.v \in Nat /\ s.view \in Nat  BY Fields DEF Certificates, PPEntry
<1>2. Cardinality(votes) >= intersectionQuorum - 1
  <2>1. [n |-> x.n, d |-> x.d, v |-> x.v] \notin s.pset
    <3> SUFFICES ASSUME [n |-> x.n, d |-> x.d, v |-> x.v] \in s.pset PROVE FALSE  OBVIOUS
    <3>1. [n |-> x.n, d |-> x.d, v |-> x.v].v < s.view  BY Zenon DEF Certificates
    <3> QED  BY <1>1, <3>1
  <2> QED  BY <2>1 DEF prepared
<1>3. votes \subseteq PrepEntry /\ \A p \in votes : p.v = x.v /\ p.n = x.n /\ p.d = x.d
  BY Fields DEF prepareVotes
<1>4. W \subseteq Replica /\ IsFiniteSet(W)
  <2>1. W \subseteq Replica  BY <1>3 DEF PrepEntry
  <2>2. N \in Nat  BY ConfigAssumption
  <2>3. IsFiniteSet(Replica)  BY <2>2, FS_Interval DEF Replica
  <2> QED  BY <2>1, <2>3, FS_Subset
<1>5. f \in Surjection(W, votes)
  <2>1. \A p \in votes : p = [v |-> x.v, n |-> x.n, d |-> x.d, i |-> p.i]
    BY <1>3 DEF PrepEntry
  <2> HIDE DEF votes
  <2>2. f \in [W -> votes]  BY <2>1
  <2>3. \A p \in votes : p.i \in W /\ f[p.i] = p  BY <2>1
  <2> QED  BY <2>2, <2>3 DEF Surjection
<1>6. primary(x.v) \notin W
  BY <1>3 DEF Certificates, prepareVotes
<1> HIDE DEF W, votes, f
<1>7. Cardinality(W) >= Cardinality(votes) /\ IsFiniteSet(votes)  BY <1>4, <1>5, FS_Surjection
<1>8. Cardinality(W) \in Nat /\ Cardinality(votes) \in Nat  BY <1>4, <1>7, FS_CardinalityType
<1>9. Cardinality(W \cup {primary(x.v)}) = Cardinality(W) + 1  BY <1>4, <1>6, FS_AddElement
<1>10. intersectionQuorum \in Nat
  <2>1. N \in Nat /\ F \in Nat  BY ConfigAssumption
  <2> QED  BY <2>1 DEF intersectionQuorum
<1> QED  BY <1>2, <1>7, <1>8, <1>9, <1>10 DEF W, votes

\* A correct primary announces one request per number.
LEMMA OneAnnounced ==
    ASSUME NEW s, NEW me, NEW M, LocalInv(s, me, M), NEW v \in Nat, NEW n, NEW d, NEW e,
           me = primary(v), Announced(M, v, n, d), Announced(M, v, n, e)
    PROVE  d = e
<1> DEFINE pm(r) == [type |-> "prePrepare", v |-> v, n |-> n, d |-> r, i |-> primary(v)]
           by(nv, r) == nv \in OwnNewViews(M, me) /\ nv.v = v /\ [n |-> n, d |-> r] \in nv.X
<1>1. \A r : Announced(M, v, n, r) => pm(r) \in M \/ \E nv : by(nv, r)
  BY DEF Announced, OwnNewViews, Own
<1>2. \A r : pm(r) \in M => pm(r) \in Own(M, me, "prePrepare")  BY DEF Own
<1>3. \A r : pm(r).v = v /\ pm(r).n = n /\ pm(r).d = r  OBVIOUS
<1> HIDE DEF pm
<1>4. CASE pm(d) \in M /\ pm(e) \in M
  BY <1>2, <1>3, <1>4 DEF LocalInv, PrePrepares
<1>5. ASSUME NEW r, pm(r) \in M, NEW nv, NEW q, by(nv, q) PROVE FALSE
  <2>1. pm(r) \in Own(M, me, "prePrepare") /\ pm(r).v = nv.v  BY <1>2, <1>3, <1>5
  <2>2. \A m \in Own(M, me, "prePrepare") : m.v = nv.v => \A x \in nv.X : x.n # m.n
    BY <1>5, Zenon DEF LocalInv, NewViews
  <2>3. [n |-> n, d |-> q].n # pm(r).n  BY <1>5, <2>1, <2>2
  <2> QED  BY <1>3, <2>3
<1>6. ASSUME NEW nv, NEW nw, by(nv, d), by(nw, e) PROVE d = e
  <2>1. nv = nw  BY <1>6, Zenon DEF LocalInv, NewViews
  <2>2. \A x, y \in nv.X : x.n = y.n => x.d = y.d  BY <1>6, Zenon DEF LocalInv, NewViews
  <2> QED  BY <1>6, <2>1, <2>2
<1> HIDE DEF by
<1> QED  BY <1>1, <1>4, <1>5, <1>6

\* Under the invariant two prepared certificates agree.
LEMMA InvAgreement == Inv => PreparedAgreement
<1> SUFFICES ASSUME Inv, NEW i \in Correct, NEW j \in Correct,
                    NEW x \in rep[i].pp, NEW y \in rep[j].pp, x.v = y.v, x.n = y.n,
                    prepared(rep[i], x.d, x.v, x.n), prepared(rep[j], y.d, y.v, y.n)
             PROVE  x.d = y.d
  BY DEF PreparedAgreement
<1> DEFINE A == {p.i : p \in prepareVotes(rep[i], x.d, x.v, x.n)}
           B == {p.i : p \in prepareVotes(rep[j], y.d, y.v, y.n)}
<1>1. /\ rep[i] \in Instance /\ rep[j] \in Instance
      /\ \A k \in Correct : LocalInv(rep[k], k, msgs)
  BY DEF Inv, TypeOK
<1>2. Certificates(rep[i], msgs) /\ Certificates(rep[j], msgs)  BY <1>1 DEF LocalInv
<1>3. x.v \in Nat  BY <1>1, Fields DEF PPEntry
<1>4. primary(x.v) \in Replica
  <2>1. N \in Nat /\ F \in Nat /\ 3 * F + 1 <= N  BY ConfigAssumption
  <2> QED  BY <1>3, <2>1 DEF primary, Replica
<1>5. A \subseteq Replica /\ B \subseteq Replica
  BY <1>1, Fields DEF prepareVotes, PrepEntry
<1>6. /\ Cardinality(A \cup {primary(x.v)}) >= intersectionQuorum
      /\ Cardinality(B \cup {primary(x.v)}) >= intersectionQuorum
  BY <1>1, <1>2, PreparedQuorum
<1> HIDE DEF A, B
<1>7. PICK k \in Correct : k \in A \cup {primary(x.v)} /\ k \in B \cup {primary(x.v)}
  <2>1. A \cup {primary(x.v)} \in SUBSET Replica /\ B \cup {primary(x.v)} \in SUBSET Replica
    BY <1>4, <1>5
  <2> QED  BY <1>6, <2>1, QuorumOverlap
<1>8. CASE k = primary(x.v)
  <2>1. Announced(msgs, x.v, x.n, x.d) /\ Announced(msgs, x.v, x.n, y.d)
    BY <1>2 DEF Certificates
  <2> QED  BY <1>1, <1>3, <1>8, <2>1, OneAnnounced
<1>9. CASE k \in A /\ k \in B
  <2>1. PICK p \in prepareVotes(rep[i], x.d, x.v, x.n) : p.i = k  BY <1>9 DEF A
  <2>2. PICK q \in prepareVotes(rep[j], y.d, y.v, y.n) : q.i = k  BY <1>9 DEF B
  <2> DEFINE pm == message("prepare", p, k)
             qm == message("prepare", q, k)
  <2>3. pm \in msgs /\ qm \in msgs
    BY <1>2, <2>1, <2>2 DEF Certificates, prepareVotes
  <2>4. /\ pm.v = x.v /\ pm.n = x.n /\ pm.d = x.d /\ pm.type = "prepare" /\ pm.i = k
        /\ qm.v = x.v /\ qm.n = x.n /\ qm.d = y.d /\ qm.type = "prepare" /\ qm.i = k
    BY <2>1, <2>2 DEF prepareVotes, message
  <2> HIDE DEF pm, qm
  <2>5. pm \in Own(msgs, k, "prepare") /\ qm \in Own(msgs, k, "prepare")
    BY <2>3, <2>4 DEF Own
  <2>6. \A m, w \in Own(msgs, k, "prepare") : w.v = m.v /\ w.n = m.n => w.d = m.d
    BY <1>1, Zenon DEF LocalInv, Prepares
  <2> QED  BY <2>4, <2>5, <2>6
<1> QED  BY <1>7, <1>8, <1>9

-----------------------------------------------------------------------------
(* One instance.  Good(b, me, M) are the states that a handler of replica me that *)
(* started in b with the messages M on the network may be in.                     *)

Grows(b, s, me) ==
    /\ b.view <= s.view /\ b.h <= s.h /\ b.seqNo <= s.seqNo
    /\ \A m \in s.snd \ b.snd : m.i = me

Good(b, me, M) == {s \in Instance : LocalInv(s, me, M \cup s.snd) /\ Grows(b, s, me)}

\* The types of the messages that LocalInv is about.
Binding == {"prePrepare", "prepare", "newView"}

\* t differs from s in nothing that LocalInv is about.
Quiet(s, t, me) ==
    /\ t.view = s.view /\ t.activeView = s.activeView /\ t.h = s.h /\ t.seqNo = s.seqNo
    /\ t.pp = s.pp /\ t.prep = s.prep /\ t.sentP = s.sentP
    /\ t.pset = s.pset /\ t.qset = s.qset /\ t.newViewStore = s.newViewStore
    /\ s.snd \subseteq t.snd /\ \A m \in t.snd \ s.snd : m.i = me /\ m.type \notin Binding

\* What was announced stays announced.
LEMMA AnnouncedStays ==
    ASSUME NEW A, NEW B, A \subseteq B, NEW v, NEW n, NEW d, Announced(A, v, n, d)
    PROVE  Announced(B, v, n, d)
BY DEF Announced

\* Messages of other replicas, and those that bind nothing, do not matter.
LEMMA Widen ==
    ASSUME NEW s, NEW me, NEW A, NEW B, A \subseteq B, LocalInv(s, me, A),
           \A m \in B \ A : m.i # me \/ m.type \notin Binding
    PROVE  LocalInv(s, me, B)
<1>1. /\ Own(B, me, "prePrepare") = Own(A, me, "prePrepare")
      /\ Own(B, me, "prepare") = Own(A, me, "prepare")
      /\ Own(B, me, "newView") = Own(A, me, "newView")
  BY DEF Own, Binding
<1>2. OwnNewViews(B, me) = OwnNewViews(A, me)  BY <1>1, Zenon DEF OwnNewViews
<1>3. Certificates(s, B)
  <2>1. Certificates(s, A)  BY DEF LocalInv
  <2>2. \A p \in s.pp : p.v = s.view /\ Announced(B, p.v, p.n, p.d)
    BY <2>1, AnnouncedStays, Zenon DEF Certificates
  <2> QED  BY <2>1, <2>2, Zenon DEF Certificates
<1>4. Prepares(s, me, B)  BY <1>1, Zenon DEF LocalInv, Prepares
<1>5. PrePrepares(s, me, B)  BY <1>1, Zenon DEF LocalInv, PrePrepares
<1>6. NewViews(s, me, B)  BY <1>1, <1>2, Zenon DEF LocalInv, NewViews
<1> QED  BY <1>3, <1>4, <1>5, <1>6 DEF LocalInv

\* LocalInv of an instance depends on its core only.
LEMMA SameCore ==
    ASSUME NEW s, NEW t, NEW me, NEW A, LocalInv(s, me, A),
           t.view = s.view, t.activeView = s.activeView, t.h = s.h, t.seqNo = s.seqNo,
           t.pp = s.pp, t.prep = s.prep, t.sentP = s.sentP,
           t.pset = s.pset, t.qset = s.qset, t.newViewStore = s.newViewStore
    PROVE  LocalInv(t, me, A)
<1>1. Certificates(t, A)  BY Zenon DEF LocalInv, Certificates
<1>2. Prepares(t, me, A)  BY Zenon DEF LocalInv, Prepares
<1>3. PrePrepares(t, me, A)  BY Zenon DEF LocalInv, PrePrepares
<1>4. NewViews(t, me, A)  BY Zenon DEF LocalInv, NewViews
<1> QED  BY <1>1, <1>2, <1>3, <1>4 DEF LocalInv

\* A quiet step keeps an instance good.
LEMMA QuietGood ==
    ASSUME NEW b \in Instance, NEW me \in Replica, NEW M \in SUBSET Message,
           NEW s \in Good(b, me, M), NEW t \in Instance, Quiet(s, t, me)
    PROVE  t \in Good(b, me, M)
<1>1. LocalInv(s, me, M \cup s.snd) /\ Grows(b, s, me)  BY DEF Good
<1>2. LocalInv(t, me, M \cup s.snd)  BY <1>1, SameCore DEF Quiet
<1>3. LocalInv(t, me, M \cup t.snd)
  <2>1. M \cup s.snd \subseteq M \cup t.snd  BY DEF Quiet
  <2>2. \A m \in (M \cup t.snd) \ (M \cup s.snd) : m.i # me \/ m.type \notin Binding
    BY DEF Quiet
  <2> QED  BY <1>2, <2>1, <2>2, Widen
<1>4. Grows(b, t, me)  BY <1>1 DEF Grows, Quiet
<1> QED  BY <1>3, <1>4 DEF Good

\* Quiet steps compose.
LEMMA QuietTrans ==
    ASSUME NEW me, NEW s, NEW t, NEW u, Quiet(s, t, me), Quiet(t, u, me)
    PROVE  Quiet(s, u, me)
BY Zenon DEF Quiet

-----------------------------------------------------------------------------
(* The normal case. *)

\* executeOutstanding changes nothing that LocalInv is about.
LEMMA ExecuteOutstandingQuiet ==
    ASSUME NEW s \in Instance, NEW me
    PROVE  Quiet(s, executeOutstanding(s), me)
<1> DEFINE n == s.lastExec + 1
           d == (CHOOSE p \in executable(s, n) : TRUE).d
           left == s.outstandingReqs \ {d}
           ledger == IF d = Null THEN s.app ELSE Append(s.app, d)
           owed == [at |-> n, n |-> IF d = Null THEN n ELSE 0, id |-> ledger]
           queue == IF n % K # 0 THEN s.ckq ELSE Append(s.ckq, owed)
           hist == Append(s.done, [n |-> n, d |-> d])
           t1 == [s EXCEPT !.lastExec = n, !.timerActive = left # {}, !.more = TRUE, !.done = hist]
           t2 == [s EXCEPT !.lastExec = n, !.timerActive = FALSE, !.outstandingReqs = left,
                           !.app = ledger, !.ckq = queue, !.done = hist,
                           !.calling = s.calling + 1]
<1>1. executeOutstanding(s) \in {s, t1, t2}  BY Zenon DEF executeOutstanding
<1> HIDE DEF n, d, left, ledger, owed, queue, hist
<1>2. Quiet(s, s, me)  BY Zenon DEF Quiet
<1>3. Quiet(s, t1, me)  BY DEF Quiet, Instance
<1>4. Quiet(s, t2, me)  BY DEF Quiet, Instance
<1> QED  BY <1>1, <1>2, <1>3, <1>4

\* maybeSendCommit only adds commits.
LEMMA MaybeSendCommitQuiet ==
    ASSUME NEW s \in Instance, NEW me \in Replica, NEW ps \in SUBSET PPEntry
    PROVE  Quiet(s, maybeSendCommit(s, me, ps), me)
<1> DEFINE go == {p \in ps : prepared(s, p.d, p.v, p.n) /\ [v |-> p.v, n |-> p.n] \notin s.sentC}
           c1 == s.sentC \cup {[v |-> p.v, n |-> p.n] : p \in go}
           c2 == s.com \cup {[v |-> p.v, n |-> p.n, i |-> me] : p \in go}
           c3 == s.snd \cup {message("commit", p, me) : p \in go}
           t == [s EXCEPT !.sentC = c1, !.com = c2, !.snd = c3]
<1>1. \A p \in go : p.v \in Nat /\ p.n \in Nat /\ p.d \in Digest  BY DEF PPEntry
<1>2. maybeSendCommit(s, me, ps) \in {s, executeOutstanding(t)}  BY Zenon DEF maybeSendCommit
<1> HIDE DEF go
<1>3. s.snd \subseteq c3 /\ \A m \in c3 \ s.snd : m.i = me /\ m.type \notin Binding
  BY DEF message, Binding
<1>4. t \in Instance
  <2>1. c1 \in SUBSET MsgID  BY <1>1, Fields DEF MsgID
  <2>2. c2 \in SUBSET ComEntry  BY <1>1, Fields DEF ComEntry
  <2>3. \A p \in go : message("commit", p, me) \in Message  BY <1>1, VoteMessage
  <2>4. c3 \in SUBSET Message  BY <2>3, Fields
  <2> HIDE DEF c1, c2, c3
  <2> QED  BY <2>1, <2>2, <2>4, ZenonT(60) DEF Instance
<1> HIDE DEF c1, c2, c3
<1>5. Quiet(s, t, me)  BY <1>3 DEF Quiet, Instance
<1> HIDE DEF t
<1>6. Quiet(s, executeOutstanding(t), me)
  BY <1>4, <1>5, ExecuteOutstandingQuiet, QuietTrans
<1>7. Quiet(s, s, me)  BY Zenon DEF Quiet
<1> QED  BY <1>2, <1>6, <1>7

\* recvCommit changes nothing that LocalInv is about.
LEMMA RecvCommitGood ==
    ASSUME NEW b \in Instance, NEW me \in Replica, NEW M \in SUBSET Message,
           NEW s \in Good(b, me, M), NEW v \in Nat, NEW n \in Nat, NEW i \in Replica
    PROVE  recvCommit(s, v, n, i) \in Good(b, me, M)
<1> DEFINE c == s.com \cup {[v |-> v, n |-> n, i |-> i]}
           t == [s EXCEPT !.com = c]
<1>1. s \in Instance  BY DEF Good
<1>2. c \in SUBSET ComEntry  BY <1>1, Fields DEF ComEntry
<1>3. recvCommit(s, v, n, i) \in {s, executeOutstanding(t)}  BY Zenon DEF recvCommit
<1> HIDE DEF c
<1>4. t \in Instance  BY <1>1, <1>2, ZenonT(60) DEF Instance
<1>5. Quiet(s, t, me)  BY <1>1 DEF Quiet, Instance
<1> HIDE DEF t
<1>6. Quiet(s, executeOutstanding(t), me)  BY <1>4, <1>5, ExecuteOutstandingQuiet, QuietTrans
<1>7. executeOutstanding(t) \in Instance  BY <1>4, ExecuteOutstandingType
<1> QED  BY <1>3, <1>6, <1>7, QuietGood

\* recvPrepare records a prepare that was sent, by a replica that is not the primary.
LEMMA RecvPrepareGood ==
    ASSUME NEW b \in Instance, NEW me \in Replica, NEW M \in SUBSET Message,
           NEW s \in Good(b, me, M), NEW m, m.v \in Nat, m.n \in Nat,
           m.d \in Digest, m.i \in Replica, message("prepare", m, m.i) \in M \cup s.snd
    PROVE  recvPrepare(s, me, m) \in Good(b, me, M)
<1> DEFINE e == [v |-> m.v, n |-> m.n, d |-> m.d, i |-> m.i]
           c == s.prep \cup {e}
           t == [s EXCEPT !.prep = c]
           ps == {[v |-> m.v, n |-> m.n, d |-> m.d]}
           A == M \cup s.snd
<1>1. s \in Instance /\ LocalInv(s, me, A) /\ Grows(b, s, me)  BY DEF Good
<1>2. c \in SUBSET PrepEntry /\ ps \in SUBSET PPEntry  BY <1>1, Fields DEF PrepEntry, PPEntry
<1>3. recvPrepare(s, me, m) = s \/ /\ primary(m.v) # m.i
                                   /\ recvPrepare(s, me, m) = maybeSendCommit(t, me, ps)
  BY Zenon DEF recvPrepare
<1>4. message("prepare", e, e.i) \in A /\ e.i = m.i /\ e.v = m.v
  BY DEF message
<1>5. c = s.prep \cup {e}  OBVIOUS
<1> HIDE DEF c, ps, e
<1>6. t \in Instance  BY <1>1, <1>2, ZenonT(60) DEF Instance
<1>7. /\ t.view = s.view /\ t.activeView = s.activeView /\ t.h = s.h /\ t.seqNo = s.seqNo
      /\ t.pp = s.pp /\ t.prep = c /\ t.sentP = s.sentP
      /\ t.pset = s.pset /\ t.qset = s.qset /\ t.newViewStore = s.newViewStore
      /\ t.snd = s.snd
  BY <1>1 DEF Instance
<1> HIDE DEF t
<1>8. ASSUME primary(m.v) # m.i PROVE t \in Good(b, me, M)
  <2> HIDE DEF A
  <2>1. Certificates(t, A)
    <3>1. \A p \in t.prep : p.i # primary(p.v) /\ message("prepare", p, p.i) \in A
      BY <1>1, <1>4, <1>5, <1>7, <1>8 DEF LocalInv, Certificates
    <3> QED  BY <1>1, <1>7, <3>1, Zenon DEF LocalInv, Certificates
  <2>2. Prepares(t, me, A)  BY <1>1, <1>7, Zenon DEF LocalInv, Prepares
  <2>3. PrePrepares(t, me, A)  BY <1>1, <1>7, Zenon DEF LocalInv, PrePrepares
  <2>4. NewViews(t, me, A)  BY <1>1, <1>7, Zenon DEF LocalInv, NewViews
  <2>5. LocalInv(t, me, M \cup t.snd)  BY <1>7, <2>1, <2>2, <2>3, <2>4 DEF LocalInv, A
  <2>6. Grows(b, t, me)  BY <1>1, <1>7, Zenon DEF Grows
  <2> QED  BY <1>6, <2>5, <2>6 DEF Good
<1>9. maybeSendCommit(t, me, ps) \in Instance /\ Quiet(t, maybeSendCommit(t, me, ps), me)
  BY <1>2, <1>6, MaybeSendCommitType, MaybeSendCommitQuiet
<1> QED  BY <1>3, <1>8, <1>9, QuietGood

\* recvPrePrepare records the primary's announcement, and prepares a number that it has
\* not prepared in this view.
LEMMA RecvPrePrepareGood ==
    ASSUME NEW b \in Instance, NEW me \in Replica, NEW M \in SUBSET Message,
           NEW s \in Good(b, me, M), NEW m \in M, m.type = "prePrepare"
    PROVE  recvPrePrepare(s, me, m) \in Good(b, me, M)
<1> DEFINE e == [v |-> m.v, n |-> m.n, d |-> m.d]
           c == s.pp \cup {e}
           s1 == IF \E p \in s.pp : p.v = m.v /\ p.n = m.n THEN s ELSE [s EXCEPT !.pp = c]
           s2 == IF m.d \in s1.reqStore THEN [s1 EXCEPT !.timerActive = TRUE]
                 ELSE [s1 EXCEPT !.reqStore = s1.reqStore \cup {m.d},
                                 !.outstandingReqs = s1.outstandingReqs \cup {m.d},
                                 !.timerActive = TRUE]
           id == [v |-> m.v, n |-> m.n]
           pm == message("prepare", m, me)
           s3 == [s2 EXCEPT !.sentP = s2.sentP \cup {id}, !.snd = s2.snd \cup {pm}]
           taken == s.activeView /\ primary(s.view) = m.i /\ inWV(s, m.v, m.n)
           votes == taken /\ m.d # Null /\ primary(s.view) # me /\ id \notin s2.sentP
<1>1. s \in Instance /\ LocalInv(s, me, M \cup s.snd) /\ Grows(b, s, me)  BY DEF Good
<1>2. m.v \in Nat /\ m.n \in Nat /\ m.d \in Digest /\ m.i \in Replica  BY MessageTypes
<1>3. m = [type |-> "prePrepare", v |-> m.v, n |-> m.n, d |-> m.d, i |-> m.i]
  BY DEF Message, Vote, Checkpoint, ViewChange, NewView, Fetch, Return
<1>4. c \in SUBSET PPEntry /\ e.v = m.v /\ e.n = m.n /\ e.d = m.d
  BY <1>1, <1>2, Fields DEF PPEntry
<1>5. \/ recvPrePrepare(s, me, m) = s
      \/ taken /\ recvPrePrepare(s, me, m) = s1
      \/ taken /\ m.d # Null /\ recvPrePrepare(s, me, m) = s2
      \/ votes /\ recvPrePrepare(s, me, m) = recvPrepare(s3, me, pm)
  BY Zenon DEF recvPrePrepare
<1>6. c = s.pp \cup {e}  OBVIOUS
<1> HIDE DEF e, c
<1>7. taken => Announced(M \cup s.snd, m.v, m.n, m.d) /\ m.v = s.view /\ s.h < m.n
  BY <1>3 DEF inWV, inW, Announced
<1> HIDE DEF taken
<1>8. taken => s1 \in Good(b, me, M) /\ s1.view = s.view /\ s1.h = s.h /\ s1.activeView = s.activeView
  <2> DEFINE t == [s EXCEPT !.pp = c]
  <2> SUFFICES ASSUME taken
               PROVE  t \in Good(b, me, M) /\ t.view = s.view /\ t.h = s.h
                      /\ t.activeView = s.activeView
    BY Zenon
  <2>1. t \in Instance  BY <1>1, <1>4, ZenonT(60) DEF Instance
  <2>2. /\ t.view = s.view /\ t.activeView = s.activeView /\ t.h = s.h /\ t.seqNo = s.seqNo
        /\ t.pp = c /\ t.prep = s.prep /\ t.sentP = s.sentP
        /\ t.pset = s.pset /\ t.qset = s.qset /\ t.newViewStore = s.newViewStore
        /\ t.snd = s.snd
    BY <1>1 DEF Instance
  <2> HIDE DEF t
  <2> DEFINE A == M \cup s.snd
  <2>3. Certificates(t, A)
    <3>1. \A p \in t.pp : p.v = t.view /\ Announced(A, p.v, p.n, p.d)
      BY <1>1, <1>4, <1>6, <1>7, <2>2, ZenonT(60) DEF LocalInv, Certificates
    <3> HIDE DEF A
    <3> QED  BY <1>1, <2>2, <3>1, Zenon DEF LocalInv, Certificates, A
  <2>4. Prepares(t, me, A)  BY <1>1, <2>2, Zenon DEF LocalInv, Prepares
  <2>5. PrePrepares(t, me, A)  BY <1>1, <2>2, Zenon DEF LocalInv, PrePrepares
  <2>6. NewViews(t, me, A)  BY <1>1, <2>2, Zenon DEF LocalInv, NewViews
  <2>7. LocalInv(t, me, M \cup t.snd)  BY <2>2, <2>3, <2>4, <2>5, <2>6 DEF LocalInv
  <2>8. Grows(b, t, me)  BY <1>1, <2>2, Zenon DEF Grows
  <2> QED  BY <2>1, <2>2, <2>7, <2>8 DEF Good
<1> HIDE DEF s1
<1>9. taken /\ m.d # Null => s2 \in Good(b, me, M) /\ Quiet(s1, s2, me)
  <2> SUFFICES ASSUME taken, m.d # Null PROVE s2 \in Good(b, me, M) /\ Quiet(s1, s2, me)
    OBVIOUS
  <2>1. s1 \in Instance  BY <1>8 DEF Good
  <2>2. s1.reqStore \cup {m.d} \in SUBSET Requests /\ s1.outstandingReqs \cup {m.d} \in SUBSET Requests
    BY <1>2, <2>1, Fields DEF Digest
  <2>3. s2 \in Instance  BY <2>1, <2>2, ZenonT(60) DEF Instance
  <2>4. Quiet(s1, s2, me)  BY <2>1 DEF Quiet, Instance
  <2> QED  BY <1>8, <2>3, <2>4, QuietGood
<1> HIDE DEF s2
<1>10. votes => s3 \in Good(b, me, M) /\ pm \in s3.snd
  <2> SUFFICES ASSUME votes PROVE s3 \in Good(b, me, M) /\ pm \in s3.snd  OBVIOUS
  <2> DEFINE A == M \cup s2.snd
             B == M \cup s3.snd
  <2>1. /\ s2 \in Instance /\ LocalInv(s2, me, A) /\ Grows(b, s2, me)
        /\ s2.view = m.v /\ s2.h < m.n /\ s2.activeView /\ id \notin s2.sentP
        /\ primary(m.v) # me
    BY <1>7, <1>8, <1>9 DEF Good, Quiet, taken
  <2>2. pm \in Message /\ pm.type = "prepare" /\ pm.v = m.v /\ pm.n = m.n /\ pm.i = me
    BY <1>2, VoteMessage DEF message
  <2> HIDE DEF pm
  <2>3. s2.sentP \cup {id} \in SUBSET MsgID /\ s2.snd \cup {pm} \in SUBSET Message
    BY <1>2, <2>1, <2>2, Fields DEF MsgID
  <2>4. id = [v |-> m.v, n |-> m.n]  OBVIOUS
  <2> HIDE DEF id
  <2>5. s3 \in Instance  BY <2>1, <2>3, ZenonT(60) DEF Instance
  <2>6. /\ s3.view = s2.view /\ s3.activeView = s2.activeView /\ s3.h = s2.h
        /\ s3.seqNo = s2.seqNo /\ s3.pp = s2.pp /\ s3.prep = s2.prep
        /\ s3.sentP = s2.sentP \cup {id}
        /\ s3.pset = s2.pset /\ s3.qset = s2.qset /\ s3.newViewStore = s2.newViewStore
        /\ s3.snd = s2.snd \cup {pm}
    BY <2>1, ZenonT(60) DEF Instance
  <2> HIDE DEF s3
  <2>7. A \subseteq B /\ B = A \cup {pm} /\ A \subseteq Message  BY <2>1, <2>6, Fields
  <2>8. /\ Own(B, me, "prePrepare") = Own(A, me, "prePrepare")
        /\ Own(B, me, "newView") = Own(A, me, "newView")
        /\ Own(B, me, "prepare") = Own(A, me, "prepare") \cup {pm}
    BY <2>2, <2>7 DEF Own
  <2> HIDE DEF A, B
  <2>9. OwnNewViews(B, me) = OwnNewViews(A, me)  BY <2>8, Zenon DEF OwnNewViews
  <2>10. Certificates(s3, B)
    <3>1. \A p \in s2.pp : p.v = s2.view /\ Announced(B, p.v, p.n, p.d)
      BY <2>1, <2>7, AnnouncedStays, Zenon DEF LocalInv, Certificates
    <3> QED  BY <2>1, <2>6, <2>7, <3>1, Zenon DEF LocalInv, Certificates
  <2>11. PrePrepares(s3, me, B)  BY <2>1, <2>6, <2>8, Zenon DEF LocalInv, PrePrepares
  <2>12. NewViews(s3, me, B)  BY <2>1, <2>6, <2>8, <2>9, Zenon DEF LocalInv, NewViews
  <2>13. Prepares(s3, me, B)
    <3>1. \A w \in Own(A, me, "prepare") :
            /\ w.v <= s2.view
            /\ w.v = s2.view => s2.activeView /\ ([v |-> w.v, n |-> w.n] \in s2.sentP \/ w.n <= s2.h)
            /\ \A x \in Own(A, me, "prepare") : x.v = w.v /\ x.n = w.n => x.d = w.d
      BY <2>1, Zenon DEF LocalInv, Prepares
    <3>2. \A w \in Own(A, me, "prepare") : ~(w.v = pm.v /\ w.n = pm.n)
      <4>1. \A w \in Own(A, me, "prepare") : w.n \in Nat
        BY <2>7, MessageTypes DEF Own
      <4>2. s2.h \in Nat /\ m.n \in Nat  BY <1>2, <2>1, Fields
      <4> QED  BY <2>1, <2>2, <2>4, <3>1, <4>1, <4>2
    <3>3. pm.v <= s2.view  BY <1>2, <2>1, <2>2
    <3>4. [v |-> pm.v, n |-> pm.n] \in s3.sentP  BY <2>2, <2>4, <2>6
    <3>5. \A w \in Own(B, me, "prepare") :
            /\ w.v <= s3.view
            /\ w.v = s3.view => s3.activeView /\ ([v |-> w.v, n |-> w.n] \in s3.sentP \/ w.n <= s3.h)
      BY <2>1, <2>6, <2>8, <3>1, <3>3, <3>4, Zenon
    <3>6. \A w, x \in Own(B, me, "prepare") : x.v = w.v /\ x.n = w.n => x.d = w.d
      BY <2>8, <3>1, <3>2, ZenonT(60)
    <3> QED  BY <3>5, <3>6, Zenon DEF Prepares
  <2>14. Grows(b, s3, me)  BY <2>1, <2>2, <2>6 DEF Grows
  <2>15. LocalInv(s3, me, M \cup s3.snd)  BY <2>10, <2>11, <2>12, <2>13 DEF LocalInv, B
  <2> QED  BY <2>5, <2>6, <2>14, <2>15 DEF Good
<1> HIDE DEF s3
<1>11. votes => recvPrepare(s3, me, pm) \in Good(b, me, M)
  <2>1. pm.v = m.v /\ pm.n = m.n /\ pm.d = m.d /\ pm.i = me /\ message("prepare", pm, pm.i) = pm
    BY DEF message
  <2> HIDE DEF pm
  <2> QED  BY <1>2, <1>10, <2>1, RecvPrepareGood
<1> HIDE DEF votes
<1> QED  BY <1>5, <1>8, <1>9, <1>11

\* t is in the same view as s, with the same watermark.
Keeps(s, t) ==
    /\ t.view = s.view /\ t.h = s.h /\ t.activeView = s.activeView
    /\ t.newViewStore = s.newViewStore

\* The primary of an active view announces numbers that it has not used in this view:
\* they follow seqNo, and so those of the new-view.
LEMMA AssignGood ==
    ASSUME NEW b \in Instance, NEW me \in Replica, NEW M \in SUBSET Message,
           NEW s \in Good(b, me, M), NEW k \in Nat, NEW ds \in [1 .. k -> Requests],
           k # 0 => s.activeView /\ primary(s.view) = me
    PROVE  assign(s, me, ds) \in Good(b, me, M) /\ Keeps(s, assign(s, me, ds))
<1> DEFINE new == {[v |-> s.view, n |-> s.seqNo + j, d |-> ds[j]] : j \in DOMAIN ds}
           pps == {p \in s.pp : \A q \in new : p.v # q.v \/ p.n # q.n} \cup new
           sent == {message("prePrepare", p, me) : p \in new}
           t == [s EXCEPT !.seqNo = s.seqNo + Len(ds), !.pp = pps, !.snd = s.snd \cup sent]
           A == M \cup s.snd
           B == M \cup t.snd
<1>1. ds \in Seq(Requests) /\ DOMAIN ds = 1 .. k /\ Len(ds) = k
  <2>1. ds \in Seq(Requests)  BY SMT
  <2> QED  BY <2>1
<1>2. s \in Instance /\ LocalInv(s, me, A) /\ Grows(b, s, me)  BY DEF Good
<1>3. new \in SUBSET PPEntry  BY <1>1, <1>2, Fields DEF PPEntry, Digest
<1>4. /\ \A p \in new : p.v = s.view /\ p.n > s.seqNo /\ p.n <= s.seqNo + k
      /\ \A p, q \in new : p.n = q.n => p.d = q.d
      /\ k = 0 => new = {}
  <2>1. s.seqNo \in Nat  BY <1>2, Fields
  <2> QED  BY <1>1, <2>1
<1>5. assign(s, me, ds) = maybeSendCommit(t, me, new)  BY Zenon DEF assign
<1> HIDE DEF new
<1>6. pps \in SUBSET PPEntry /\ pps \subseteq s.pp \cup new  BY <1>2, <1>3, Fields
<1>7. sent \in SUBSET Message
  <2>1. \A p \in new : message("prePrepare", p, me) \in Message
    BY <1>3, VoteMessage DEF PPEntry
  <2> QED  BY <2>1
<1>8. \A m \in sent : /\ m.type = "prePrepare" /\ m.i = me
                      /\ \E p \in new : m.v = p.v /\ m.n = p.n /\ m.d = p.d
  BY DEF message
<1>9. \A p \in new : [type |-> "prePrepare", v |-> p.v, n |-> p.n, d |-> p.d, i |-> me] \in sent
  BY DEF message
<1> HIDE DEF pps, sent
<1>10. t \in Instance
  <2>1. s.seqNo + Len(ds) \in Nat  BY <1>1, <1>2, Fields
  <2>2. s.snd \cup sent \in SUBSET Message  BY <1>2, <1>7, Fields
  <2> QED  BY <1>2, <1>6, <2>1, <2>2, ZenonT(60) DEF Instance
<1>11. /\ t.view = s.view /\ t.activeView = s.activeView /\ t.h = s.h /\ t.seqNo = s.seqNo + k
       /\ t.pp = pps /\ t.prep = s.prep /\ t.sentP = s.sentP
       /\ t.pset = s.pset /\ t.qset = s.qset /\ t.newViewStore = s.newViewStore
       /\ t.snd = s.snd \cup sent
  BY <1>1, <1>2 DEF Instance
<1>12. s.seqNo \in Nat /\ s.view \in Nat /\ b.seqNo \in Nat /\ A \subseteq Message
  BY <1>2, Fields
<1> HIDE DEF t
<1>13. A \subseteq B /\ B = A \cup sent  BY <1>11
<1> HIDE DEF A, B
<1>14. /\ Own(B, me, "prepare") = Own(A, me, "prepare")
       /\ Own(B, me, "newView") = Own(A, me, "newView")
       /\ Own(B, me, "prePrepare") = Own(A, me, "prePrepare") \cup sent
  BY <1>8, <1>13 DEF Own
<1>15. OwnNewViews(B, me) = OwnNewViews(A, me)  BY <1>14, Zenon DEF OwnNewViews
<1>16. sent # {} => s.activeView /\ primary(s.view) = me  BY <1>4, <1>8
<1>17. Certificates(t, B)
  <2>1. \A p \in s.pp : p.v = s.view /\ Announced(B, p.v, p.n, p.d)
    BY <1>2, <1>13, AnnouncedStays, Zenon DEF LocalInv, Certificates
  <2>2. \A p \in new : p.v = s.view /\ Announced(B, p.v, p.n, p.d)
    BY <1>4, <1>9, <1>13, <1>16 DEF Announced
  <2>3. \A p \in t.pp : p.v = t.view /\ Announced(B, p.v, p.n, p.d)
    BY <1>6, <1>11, <2>1, <2>2, Zenon
  <2> QED  BY <1>2, <1>11, <1>13, <2>3, Zenon DEF LocalInv, Certificates
<1>18. Prepares(t, me, B)  BY <1>2, <1>11, <1>14, Zenon DEF LocalInv, Prepares
<1>19. \A m \in Own(A, me, "prePrepare") :
         /\ m.v \in Nat /\ m.n \in Nat /\ m.v <= s.view
         /\ m.v = s.view => s.activeView /\ m.n <= s.seqNo
         /\ \A w \in Own(A, me, "prePrepare") : w.v = m.v /\ w.n = m.n => w.d = m.d
  <2>1. \A m \in Own(A, me, "prePrepare") : m.v \in Nat /\ m.n \in Nat
    BY <1>12, MessageTypes DEF Own
  <2> QED  BY <1>2, <2>1, Zenon DEF LocalInv, PrePrepares
<1>20. \A m \in sent : m.v = s.view /\ m.n \in Nat /\ m.n > s.seqNo /\ m.n <= s.seqNo + k
  BY <1>3, <1>4, <1>8 DEF PPEntry
<1>21. PrePrepares(t, me, B)
  <2>1. \A m \in Own(B, me, "prePrepare") :
          m.v <= t.view /\ (m.v = t.view => t.activeView /\ m.n <= t.seqNo)
    BY <1>11, <1>12, <1>14, <1>16, <1>19, <1>20
  <2>2. \A m, w \in Own(B, me, "prePrepare") : w.v = m.v /\ w.n = m.n => w.d = m.d
    <3>1. \A m, w \in sent : w.n = m.n => w.d = m.d  BY <1>4, <1>8
    <3>2. \A m \in Own(A, me, "prePrepare"), w \in sent : ~(w.v = m.v /\ w.n = m.n)
      BY <1>12, <1>19, <1>20
    <3> QED  BY <1>14, <1>19, <3>1, <3>2
  <2> QED  BY <2>1, <2>2, Zenon DEF PrePrepares
<1>22. NewViews(t, me, B)
  <2> SUFFICES ASSUME NEW nv \in OwnNewViews(A, me)
               PROVE  /\ nv.v = t.view /\ t.activeView => \A x \in nv.X : x.n <= t.seqNo
                      /\ \A m \in sent : m.v = nv.v => \A x \in nv.X : x.n # m.n
    BY <1>2, <1>11, <1>14, <1>15, Zenon DEF LocalInv, NewViews
  <2>1. nv.v = s.view /\ s.activeView => \A x \in nv.X : x.n <= s.seqNo
    BY <1>2, Zenon DEF LocalInv, NewViews
  <2>2. \A x \in nv.X : x.n \in Nat
    <3>1. nv \in NewView  BY <1>12, MessageTypes DEF OwnNewViews, Own
    <3> QED  BY <3>1 DEF NewView
  <2> QED  BY <1>11, <1>12, <1>16, <1>20, <2>1, <2>2
<1>23. Grows(b, t, me)  BY <1>2, <1>8, <1>11, <1>12 DEF Grows
<1>24. t \in Good(b, me, M)
  BY <1>10, <1>17, <1>18, <1>21, <1>22, <1>23 DEF Good, LocalInv, B
<1>25. maybeSendCommit(t, me, new) \in Instance /\ Quiet(t, maybeSendCommit(t, me, new), me)
  BY <1>3, <1>10, MaybeSendCommitType, MaybeSendCommitQuiet
<1>26. Keeps(s, maybeSendCommit(t, me, new))  BY <1>11, <1>25, Zenon DEF Keeps, Quiet
<1> QED  BY <1>5, <1>24, <1>25, <1>26, QuietGood

\* recvRequest is good: only the primary of an active view assigns a number.
LEMMA RecvRequestGood ==
    ASSUME NEW b \in Instance, NEW me \in Replica, NEW M \in SUBSET Message,
           NEW s \in Good(b, me, M), NEW d \in Requests
    PROVE  recvRequest(s, me, d) \in Good(b, me, M)
<1> DEFINE s1 == [s EXCEPT !.reqStore = s.reqStore \cup {d},
                           !.outstandingReqs = s.outstandingReqs \cup {d},
                           !.timerActive = s.timerActive \/ s.activeView]
           may == primary(s.view) = me /\ s.activeView
<1>1. s \in Instance  BY DEF Good
<1>2. /\ s.reqStore \cup {d} \in SUBSET Requests
      /\ s.outstandingReqs \cup {d} \in SUBSET Requests
      /\ (s.timerActive \/ s.activeView) \in BOOLEAN
  BY <1>1, Fields
<1>3. s1 \in Instance  BY <1>1, <1>2, ZenonT(60) DEF Instance
<1>4. Quiet(s, s1, me)  BY <1>1 DEF Quiet, Instance
<1>5. recvRequest(s, me, d) = s1 \/ (may /\ recvRequest(s, me, d) = assign(s1, me, <<d>>))
  BY Zenon DEF recvRequest
<1> HIDE DEF s1
<1>6. s1 \in Good(b, me, M)  BY <1>3, <1>4, QuietGood
<1>7. <<d>> \in [1 .. 1 -> Requests]  OBVIOUS
<1>8. may => assign(s1, me, <<d>>) \in Good(b, me, M)
  <2>1. may => s1.activeView /\ primary(s1.view) = me  BY <1>4, Zenon DEF Quiet
  <2> QED  BY <1>6, <1>7, <2>1, AssignGood, ZenonT(60)
<1> QED  BY <1>5, <1>6, <1>8

\* resubmitRequests is good, in whatever order it takes the requests.
LEMMA ResubmitRequestsGood ==
    ASSUME NEW b \in Instance, NEW me \in Replica, NEW M \in SUBSET Message,
           NEW s \in Good(b, me, M), NEW t \in resubmitRequests(s, me)
    PROVE  t \in Good(b, me, M) /\ Keeps(s, t)
<1> DEFINE again == {d \in s.outstandingReqs : \A p \in s.pp : p.d # d}
           s1 == [s EXCEPT !.reqStore = s.reqStore \cup again,
                           !.timerActive = s.timerActive \/ s.activeView]
           room == IF s.activeView /\ inW(s, s.seqNo + 1) THEN s.h + L - s.seqNo ELSE 0
           k == IF Cardinality(again) < room THEN Cardinality(again) ELSE room
<1>1. s \in Instance  BY DEF Good
<1>2. again \in SUBSET Requests  BY <1>1, Fields
<1>3. \/ t = s
      \/ primary(s.view) = me /\ t \in {assign(s1, me, f) : f \in [1 .. k -> again]}
  BY DEF resubmitRequests
<1> HIDE DEF again
<1>4. k \in Nat /\ (k # 0 => s.activeView)
  <2>1. Cardinality(again) \in Nat
    BY <1>2, FS_Subset, FS_CardinalityType, ConfigAssumption
  <2>2. room \in Nat /\ (~s.activeView => room = 0)
    <3>1. s.h \in Nat /\ s.seqNo \in Nat /\ L \in Nat  BY <1>1, Fields, ConfigAssumption
    <3> QED  BY <3>1 DEF inW
  <2> HIDE DEF room
  <2> QED  BY <2>1, <2>2
<1> HIDE DEF k
<1>5. s.reqStore \cup again \in SUBSET Requests /\ (s.timerActive \/ s.activeView) \in BOOLEAN
  BY <1>1, <1>2, Fields
<1>6. s1 \in Instance  BY <1>1, <1>5, ZenonT(60) DEF Instance
<1>7. Quiet(s, s1, me)  BY <1>1 DEF Quiet, Instance
<1> HIDE DEF s1
<1>8. s1 \in Good(b, me, M)  BY <1>6, <1>7, QuietGood
<1>9. ASSUME NEW f \in [1 .. k -> again], primary(s.view) = me
      PROVE  assign(s1, me, f) \in Good(b, me, M) /\ Keeps(s, assign(s1, me, f))
  <2>1. f \in [1 .. k -> Requests]  BY <1>2
  <2>2. k # 0 => s1.activeView /\ primary(s1.view) = me  BY <1>4, <1>7, <1>9, Zenon DEF Quiet
  <2>3. assign(s1, me, f) \in Good(b, me, M) /\ Keeps(s1, assign(s1, me, f))
    BY <1>4, <1>8, <2>1, <2>2, AssignGood
  <2> QED  BY <1>7, <2>3, Zenon DEF Keeps, Quiet
<1>10. Keeps(s, s)  BY DEF Keeps
<1> QED  BY <1>3, <1>9, <1>10

\* moveWatermarks forgets only prepares at or below the new watermark.
LEMMA MoveWatermarksGood ==
    ASSUME NEW b \in Instance, NEW me \in Replica, NEW M \in SUBSET Message,
           NEW s \in Good(b, me, M), NEW h \in Nat, s.h <= h,
           NEW u \in moveWatermarks(s, me, h)
    PROVE  /\ u \in Good(b, me, M) /\ u.h = h /\ u.view = s.view
           /\ u.activeView = s.activeView /\ u.newViewStore = s.newViewStore
<1> DEFINE c1 == s.reqStore \ {p.d : p \in {q \in s.pp : q.n <= h}}
           c2 == {p \in s.pp : p.n > h}
           c3 == {p \in s.prep : p.n > h}
           c4 == {p \in s.com : p.n > h}
           c5 == {p \in s.sentP : p.n > h}
           c6 == {p \in s.sentC : p.n > h}
           c7 == {c \in s.checkpointStore : c.n > h}
           c8 == {p \in s.pset : p.n > h}
           c9 == {q \in s.qset : q.n > h}
           c10 == {c \in s.chkpts : c.n >= h}
           t == [s EXCEPT !.reqStore = c1, !.pp = c2, !.prep = c3, !.com = c4, !.sentP = c5,
                          !.sentC = c6, !.checkpointStore = c7, !.pset = c8, !.qset = c9,
                          !.chkpts = c10, !.h = h]
           A == M \cup s.snd
<1>1. s \in Instance /\ LocalInv(s, me, A) /\ Grows(b, s, me)  BY DEF Good
<1>2. /\ c1 \in SUBSET Requests /\ c2 \in SUBSET PPEntry /\ c3 \in SUBSET PrepEntry
      /\ c4 \in SUBSET ComEntry /\ c5 \in SUBSET MsgID /\ c6 \in SUBSET MsgID
      /\ c7 \in SUBSET [n : Nat, id : Seq(Requests), i : Replica]
      /\ c8 \in SUBSET PQ /\ c9 \in SUBSET PQ /\ c10 \in SUBSET C
  BY <1>1, Fields, Zenon
<1>3. /\ c2 \subseteq s.pp /\ c3 \subseteq s.prep /\ c8 \subseteq s.pset /\ c9 \subseteq s.qset
      /\ \A p \in s.sentP : p.n > h => p \in c5
  BY Zenon
<1>4. u \in resubmitRequests(t, me)  BY Zenon DEF moveWatermarks
<1> HIDE DEF c1, c2, c3, c4, c5, c6, c7, c8, c9, c10
<1>5. t \in Instance  BY <1>1, <1>2, ZenonT(120) DEF Instance
<1>6. /\ t.view = s.view /\ t.activeView = s.activeView /\ t.h = h /\ t.seqNo = s.seqNo
      /\ t.pp = c2 /\ t.prep = c3 /\ t.sentP = c5
      /\ t.pset = c8 /\ t.qset = c9 /\ t.newViewStore = s.newViewStore
      /\ t.snd = s.snd
  BY <1>1 DEF Instance
<1>7. s.h \in Nat /\ b.h \in Nat /\ A \subseteq Message  BY <1>1, Fields
<1> HIDE DEF t, A
<1>8. Certificates(t, A)  BY <1>1, <1>3, <1>6, Zenon DEF LocalInv, Certificates
<1>9. Prepares(t, me, A)
  <2> SUFFICES ASSUME NEW m \in Own(A, me, "prepare"), m.v = s.view
               PROVE  [v |-> m.v, n |-> m.n] \in c5 \/ m.n <= h
    BY <1>1, <1>6, Zenon DEF LocalInv, Prepares
  <2> DEFINE id == [v |-> m.v, n |-> m.n]
  <2>1. id \in s.sentP \/ m.n <= s.h  BY <1>1, Zenon DEF LocalInv, Prepares
  <2>2. m.n \in Nat  BY <1>7, MessageTypes DEF Own
  <2>3. id.n = m.n  OBVIOUS
  <2> HIDE DEF id
  <2>4. id \in c5 \/ m.n <= h  BY <1>3, <1>7, <2>1, <2>2, <2>3
  <2> QED  BY <2>4 DEF id
<1>10. PrePrepares(t, me, A)  BY <1>1, <1>6, Zenon DEF LocalInv, PrePrepares
<1>11. NewViews(t, me, A)  BY <1>1, <1>6, Zenon DEF LocalInv, NewViews
<1>12. LocalInv(t, me, M \cup t.snd)  BY <1>6, <1>8, <1>9, <1>10, <1>11 DEF LocalInv, A
<1>13. Grows(b, t, me)  BY <1>1, <1>6, <1>7 DEF Grows
<1>14. t \in Good(b, me, M)  BY <1>5, <1>12, <1>13 DEF Good
<1> QED  BY <1>4, <1>6, <1>14, ResubmitRequestsGood, Zenon DEF Keeps

=============================================================================
