------------------------------ MODULE PbftSafety ------------------------------
(***************************************************************************)
(* PreparedAgreement and NeverBack hold in PbftCore, for every             *)
(* configuration, every set of at most F faulty replicas and everything    *)
(* they may send, over any number of views.  The argument is that of       *)
(* PbftLocalInv; here are the view changes, the checkpoints and the        *)
(* network.                                                                *)
(***************************************************************************)
EXTENDS PbftLocalInv

-----------------------------------------------------------------------------
(* View changes. *)

\* sendViewChange leaves the view, with nothing of it but pset and qset; recvViewChange
\* may first have moved the view on.
LEMMA SendViewChangeGood ==
    ASSUME NEW b \in Instance, NEW me \in Replica, NEW M \in SUBSET Message,
           NEW s \in Good(b, me, M), NEW r \in Instance, s.view <= r.view,
           r.h = s.h, r.seqNo = s.seqNo, r.pp = s.pp, r.prep = s.prep, r.sentP = s.sentP,
           r.pset = s.pset, r.qset = s.qset, r.newViewStore = s.newViewStore, r.snd = s.snd
    PROVE  sendViewChange(r, me) \subseteq Good(b, me, M)
<1> DEFINE v == r.view + 1
           sP == [r EXCEPT !.pset = newP(r)]
           sQ == [sP EXCEPT !.qset = newQ(sP)]
           vc == [type |-> "viewChange", v |-> v, h |-> r.h, C |-> r.chkpts,
                  P |-> sQ.pset, Q |-> sQ.qset, i |-> me]
           keep(S) == {x \in S : x.v >= v}
           nvs == {nv \in sQ.newViewStore : nv.v # r.view}
           t == [sQ EXCEPT !.timerActive = FALSE, !.newViewStore = nvs, !.view = v,
                           !.activeView = FALSE, !.pp = keep(sQ.pp), !.prep = keep(sQ.prep),
                           !.com = keep(sQ.com), !.sentP = keep(sQ.sentP),
                           !.sentC = keep(sQ.sentC),
                           !.viewChangeStore = keep(sQ.viewChangeStore),
                           !.ownVC = {vc}, !.snd = sQ.snd \cup {vc}]
           A == M \cup s.snd
           B == M \cup t.snd
<1>1. s \in Instance /\ LocalInv(s, me, A) /\ Grows(b, s, me)  BY DEF Good
<1>2. sendViewChange(r, me) \subseteq {t} /\ sendViewChange(r, me) \subseteq Instance
  BY SendViewChangeType, Zenon DEF sendViewChange
<1>3. sP \in Instance  BY NewPQType, ZenonT(60) DEF Instance
<1>4. sP.pset = newP(r) /\ sP.qset = r.qset /\ sP.pp = r.pp  BY DEF Instance
<1> HIDE DEF sP
<1>5. sQ \in Instance  BY <1>3, NewPQType, ZenonT(60) DEF Instance
<1>6. /\ sQ.pset = newP(r) /\ sQ.qset = newQ(sP) /\ sQ.pp = r.pp /\ sQ.prep = r.prep
      /\ sQ.h = r.h /\ sQ.seqNo = r.seqNo /\ sQ.newViewStore = r.newViewStore /\ sQ.snd = r.snd
  BY <1>3, <1>4 DEF Instance, sP
<1> HIDE DEF sQ
<1>7. vc.type = "viewChange" /\ vc.i = me /\ vc.v = v  OBVIOUS
<1>8. /\ keep(sQ.pp) \subseteq s.pp /\ \A p \in keep(sQ.pp) : p.v >= v
      /\ keep(sQ.prep) \subseteq s.prep /\ nvs \subseteq s.newViewStore
  BY <1>6
<1> HIDE DEF vc, keep, nvs
<1>9. /\ t.view = v /\ t.activeView = FALSE /\ t.h = s.h /\ t.seqNo = s.seqNo
      /\ t.pp = keep(sQ.pp) /\ t.prep = keep(sQ.prep) /\ t.pset = newP(r) /\ t.qset = newQ(sP)
      /\ t.newViewStore = nvs /\ t.snd = s.snd \cup {vc}
  BY <1>5, <1>6 DEF Instance
<1> HIDE DEF t
<1>10. /\ s.view \in Nat /\ b.view \in Nat /\ r.view \in Nat /\ v \in Nat /\ s.view < v /\ v > 0
       /\ A \subseteq Message
  BY <1>1, Fields
<1> HIDE DEF v
<1>11. A \subseteq B /\ B = A \cup {vc}  BY <1>9
<1> HIDE DEF A, B
<1>12. /\ Own(B, me, "prePrepare") = Own(A, me, "prePrepare")
       /\ Own(B, me, "prepare") = Own(A, me, "prepare")
       /\ Own(B, me, "newView") = Own(A, me, "newView")
  BY <1>7, <1>11 DEF Own
<1>13. OwnNewViews(B, me) = OwnNewViews(A, me)  BY <1>12, Zenon DEF OwnNewViews
<1>14. Certificates(t, B)
  <2>1. \A p \in s.pp : p.v = s.view  BY <1>1, Zenon DEF LocalInv, Certificates
  <2>2. t.pp = {}
    <3>1. \A p \in t.pp : p.v = s.view /\ p.v >= v  BY <1>8, <1>9, <2>1
    <3> QED  BY <1>10, <3>1
  <2>3. \A e \in s.pset \cup s.qset : e.v \in Nat /\ e.v < s.view
    <3>1. \A e \in s.pset \cup s.qset : e.v \in Nat  BY <1>1, Fields DEF PQ
    <3> QED  BY <1>1, <3>1, Zenon DEF LocalInv, Certificates
  <2>4. \A e \in newP(r) : e \in s.pset \/ e.v = s.view  BY <2>1 DEF newP
  <2>5. \A e \in newQ(sP) : e \in s.qset \/ e.v = s.view  BY <1>4, <2>1 DEF newQ
  <2>6. \A e \in t.pset \cup t.qset : e.v < t.view  BY <1>9, <1>10, <2>3, <2>4, <2>5
  <2>7. t.view # 0  BY <1>9, <1>10
  <2>8. \A p \in t.prep : p.i # primary(p.v) /\ message("prepare", p, p.i) \in B
    BY <1>1, <1>8, <1>9, <1>11, Zenon DEF LocalInv, Certificates
  <2>9. \A nv \in t.newViewStore : nv \in B /\ nv.type = "newView" /\ nv.i = primary(nv.v)
    BY <1>1, <1>8, <1>9, <1>11, Zenon DEF LocalInv, Certificates
  <2> QED  BY <1>9, <2>2, <2>6, <2>7, <2>8, <2>9, Zenon DEF Certificates
<1>15. \A m \in Own(A, me, "prepare") \cup Own(A, me, "prePrepare") \cup OwnNewViews(A, me) :
         m.v <= t.view /\ m.v # t.view
  <2>1. \A m \in Own(A, me, "prepare") \cup Own(A, me, "prePrepare") \cup OwnNewViews(A, me) :
          m.v <= s.view
    BY <1>1, Zenon DEF LocalInv, Prepares, PrePrepares, NewViews
  <2>2. \A m \in Own(A, me, "prepare") \cup Own(A, me, "prePrepare") \cup OwnNewViews(A, me) :
          m.v \in Nat
    BY <1>10, MessageTypes DEF OwnNewViews, Own, NewView
  <2> QED  BY <1>9, <1>10, <2>1, <2>2
<1>16. Prepares(t, me, B)  BY <1>1, <1>12, <1>15, Zenon DEF LocalInv, Prepares
<1>17. PrePrepares(t, me, B)  BY <1>1, <1>12, <1>15, Zenon DEF LocalInv, PrePrepares
<1>18. NewViews(t, me, B)  BY <1>1, <1>12, <1>13, <1>15, Zenon DEF LocalInv, NewViews
<1>19. Grows(b, t, me)  BY <1>1, <1>7, <1>9, <1>10 DEF Grows
<1>20. t \in Instance => t \in Good(b, me, M)
  BY <1>14, <1>16, <1>17, <1>18, <1>19 DEF Good, LocalInv, B
<1> QED  BY <1>2, <1>20

\* The instance is about to enter the view that its new-view nv starts.
Entering(s, nv) ==
    /\ ~s.activeView /\ nv \in s.newViewStore /\ nv.v = s.view
    /\ \A x, y \in nv.X : x.n = y.n => x.d = y.d

\* processNewView2 enters a view in which the instance has sent nothing yet but its
\* new-view, if it is the primary.
LEMMA ProcessNewView2Good ==
    ASSUME NEW b \in Instance, NEW me \in Replica, NEW M \in SUBSET Message,
           NEW s \in Good(b, me, M), NEW nv, Entering(s, nv)
    PROVE  processNewView2(s, me, nv) \subseteq Good(b, me, M)
<1> DEFINE new == {[v |-> s.view, n |-> x.n, d |-> x.d] : x \in nv.X}
           nvs == {m \in s.newViewStore : m.v + 1 # s.view}
           pps == {p \in s.pp : \A q \in new : p.v # q.v \/ p.n # q.n} \cup new
           enter(n) == [s EXCEPT !.activeView = TRUE, !.newViewStore = nvs, !.pp = pps,
                                 !.seqNo = n]
           prepares == {[v |-> p.v, n |-> p.n, d |-> p.d, i |-> me] : p \in new}
           ids == {[v |-> p.v, n |-> p.n] : p \in new}
           sent == {message("prepare", p, me) : p \in new}
           vote(n) == [enter(n) EXCEPT !.prep = enter(n).prep \cup prepares,
                                       !.sentP = enter(n).sentP \cup ids,
                                       !.snd = enter(n).snd \cup sent]
           top == {n \in {s.seqNo} \cup {x.n : x \in nv.X} :
                     n >= s.seqNo /\ \A x \in nv.X : n >= x.n}
           A == M \cup s.snd
<1>1. s \in Instance /\ LocalInv(s, me, A) /\ Grows(b, s, me)  BY DEF Good
<1>2. /\ nv \in NewView /\ nv \in A /\ nv.type = "newView" /\ nv.i = primary(nv.v)
      /\ nv.v = s.view /\ s.view \in Nat /\ s.view > 0 /\ nv \in s.newViewStore
      /\ ~s.activeView
  BY <1>1, Fields DEF LocalInv, Certificates, Entering
<1>3. \A x \in nv.X : x.n \in Nat /\ x.d \in Digest  BY <1>2 DEF NewView
<1>4. \A x, y \in nv.X : x.n = y.n => x.d = y.d  BY DEF Entering
<1>5. processNewView2(s, me, nv) =
        IF primary(s.view) = me THEN UNION {resubmitRequests(enter(n), me) : n \in top}
        ELSE {vote(n) : n \in top}
  BY Zenon DEF processNewView2
<1>6. new \in SUBSET PPEntry /\ (\A p \in new : p.v = s.view /\ p.n \in Nat)
        /\ \A p, q \in new : p.n = q.n => p.d = q.d
  BY <1>2, <1>3, <1>4 DEF PPEntry
<1>7. \A p \in new : Announced(A, p.v, p.n, p.d)
  <2> SUFFICES ASSUME NEW x \in nv.X PROVE Announced(A, s.view, x.n, x.d)  OBVIOUS
  <2>1. [n |-> x.n, d |-> x.d] \in nv.X
    <3>1. x \in [n : Nat, d : Digest]  BY <1>2 DEF NewView
    <3>2. x = [n |-> x.n, d |-> x.d]  BY <3>1
    <3> QED  BY <3>2
  <2> QED  BY <1>2, <2>1, Zenon DEF Announced
<1> HIDE DEF new
<1>8. nvs \in SUBSET NewView /\ nvs \subseteq s.newViewStore
      /\ pps \in SUBSET PPEntry /\ pps \subseteq s.pp \cup new
  BY <1>1, <1>6, Fields, Zenon
<1>9. \A m \in s.newViewStore : m.v = s.view => m \in nvs
  <2>1. s.view + 1 # s.view  BY <1>2
  <2> QED  BY <2>1
<1> HIDE DEF nvs, pps
<1>10. ASSUME NEW n \in top
       PROVE  /\ n \in Nat /\ n >= s.seqNo /\ s.seqNo \in Nat
              /\ \A x \in nv.X : x.n <= n
  BY <1>1, <1>3, Fields
<1>11. A \subseteq Message  BY <1>1, Fields
<1> HIDE DEF top
<1>12. ASSUME NEW n \in top
       PROVE  /\ enter(n).view = s.view /\ enter(n).activeView = TRUE /\ enter(n).h = s.h
              /\ enter(n).seqNo = n /\ enter(n).pp = pps /\ enter(n).prep = s.prep
              /\ enter(n).sentP = s.sentP /\ enter(n).pset = s.pset /\ enter(n).qset = s.qset
              /\ enter(n).newViewStore = nvs /\ enter(n).snd = s.snd
  BY <1>1 DEF Instance
<1>13. ASSUME NEW n \in top PROVE enter(n) \in Good(b, me, M)
  <2> DEFINE t == enter(n)
  <2>1. t \in Instance  BY <1>1, <1>8, <1>10, <1>13, ZenonT(60) DEF Instance
  <2>2. /\ t.view = s.view /\ t.activeView = TRUE /\ t.h = s.h /\ t.seqNo = n
        /\ t.pp = pps /\ t.prep = s.prep /\ t.sentP = s.sentP
        /\ t.pset = s.pset /\ t.qset = s.qset /\ t.newViewStore = nvs /\ t.snd = s.snd
    BY <1>12
  <2> HIDE DEF t, enter, A
  <2>3. Certificates(t, A)
    <3>1. \A p \in t.pp : p.v = t.view /\ Announced(A, p.v, p.n, p.d)
      BY <1>1, <1>6, <1>7, <1>8, <2>2, Zenon DEF LocalInv, Certificates
    <3>2. \E w \in t.newViewStore : w.v = t.view  BY <1>2, <1>9, <2>2
    <3> QED  BY <1>1, <1>8, <2>2, <3>1, <3>2, Zenon DEF LocalInv, Certificates
  <2>4. Prepares(t, me, A)  BY <1>1, <1>2, <2>2, Zenon DEF LocalInv, Prepares
  <2>5. PrePrepares(t, me, A)  BY <1>1, <1>2, <2>2, Zenon DEF LocalInv, PrePrepares
  <2>6. NewViews(t, me, A)
    <3> SUFFICES ASSUME NEW w \in OwnNewViews(A, me), w.v = s.view
                 PROVE  w \in nvs /\ \A x \in w.X : x.n <= n
      BY <1>1, <2>2, Zenon DEF LocalInv, NewViews
    <3>1. w \in s.newViewStore  BY <1>1, Zenon DEF LocalInv, NewViews
    <3>2. w.i = primary(w.v) /\ w.i = me
      BY <1>1, <3>1, Zenon DEF LocalInv, Certificates, OwnNewViews, Own
    <3>3. nv \in OwnNewViews(A, me)  BY <1>2, <3>2 DEF OwnNewViews, Own
    <3>4. nv = w  BY <1>1, <1>2, <3>3, Zenon DEF LocalInv, NewViews
    <3> QED  BY <1>9, <1>10, <3>1, <3>4
  <2>7. LocalInv(t, me, M \cup t.snd)  BY <2>2, <2>3, <2>4, <2>5, <2>6 DEF LocalInv, A
  <2>8. Grows(b, t, me)
    <3>1. b.seqNo \in Nat  BY Fields
    <3> QED  BY <1>1, <1>10, <2>2, <3>1 DEF Grows
  <2>9. t \in Good(b, me, M)  BY <2>1, <2>7, <2>8 DEF Good
  <2> QED  BY <2>9 DEF t
<1>14. ASSUME NEW n \in top, primary(s.view) # me PROVE vote(n) \in Good(b, me, M)
  <2> DEFINE e == enter(n)
             t == vote(n)
             B == M \cup t.snd
  <2>1. e \in Instance /\ LocalInv(e, me, A) /\ Grows(b, e, me)
    <3>1. e \in Good(b, me, M) /\ e.snd = s.snd  BY <1>12, <1>13
    <3> QED  BY <3>1 DEF Good
  <2>2. e.view = s.view /\ e.activeView = TRUE /\ e.snd = s.snd  BY <1>12
  <2> HIDE DEF enter
  <2>3. \A p \in new : p.v \in Nat /\ p.n \in Nat /\ p.d \in Digest  BY <1>6 DEF PPEntry
  <2>4. /\ e.prep \cup prepares \in SUBSET PrepEntry /\ e.sentP \cup ids \in SUBSET MsgID
        /\ e.snd \cup sent \in SUBSET Message
    <3>1. prepares \in SUBSET PrepEntry /\ ids \in SUBSET MsgID  BY <2>3 DEF PrepEntry, MsgID
    <3>2. \A p \in new : message("prepare", p, me) \in Message  BY <2>3, VoteMessage
    <3> QED  BY <2>1, <3>1, <3>2, Fields
  <2>5. \A m \in sent : /\ m.type = "prepare" /\ m.i = me /\ m.v = s.view
                        /\ [v |-> m.v, n |-> m.n] \in ids
                        /\ \E p \in new : m.n = p.n /\ m.d = p.d
    BY <1>6 DEF message
  <2>6. \A p \in prepares : p.i # primary(p.v) /\ message("prepare", p, p.i) \in sent
    BY <1>6, <1>14 DEF message
  <2> HIDE DEF prepares, ids, sent
  <2>7. t \in Instance  BY <2>1, <2>4, ZenonT(60) DEF Instance
  <2>8. /\ t.view = e.view /\ t.activeView = e.activeView /\ t.h = e.h /\ t.seqNo = e.seqNo
        /\ t.pp = e.pp /\ t.prep = e.prep \cup prepares /\ t.sentP = e.sentP \cup ids
        /\ t.pset = e.pset /\ t.qset = e.qset /\ t.newViewStore = e.newViewStore
        /\ t.snd = e.snd \cup sent
    BY <2>1 DEF Instance
  <2>9. A \subseteq B /\ B = A \cup sent  BY <2>2, <2>8
  <2> HIDE DEF e, t, vote, A, B
  <2>10. /\ Own(B, me, "prePrepare") = Own(A, me, "prePrepare")
         /\ Own(B, me, "newView") = Own(A, me, "newView")
         /\ Own(B, me, "prepare") = Own(A, me, "prepare") \cup sent
    BY <2>5, <2>9, ZenonT(60) DEF Own
  <2>11. OwnNewViews(B, me) = OwnNewViews(A, me)  BY <2>10, Zenon DEF OwnNewViews
  <2>12. Certificates(t, B)
    <3>1. \A p \in e.pp : p.v = e.view /\ Announced(B, p.v, p.n, p.d)
      BY <2>1, <2>9, AnnouncedStays, Zenon DEF LocalInv, Certificates
    <3>2. \A p \in t.prep : p.i # primary(p.v) /\ message("prepare", p, p.i) \in B
      BY <2>1, <2>6, <2>8, <2>9, Zenon DEF LocalInv, Certificates
    <3> QED  BY <2>1, <2>8, <2>9, <3>1, <3>2, Zenon DEF LocalInv, Certificates
  <2>13. PrePrepares(t, me, B)  BY <2>1, <2>8, <2>10, Zenon DEF LocalInv, PrePrepares
  <2>14. NewViews(t, me, B)  BY <2>1, <2>8, <2>10, <2>11, Zenon DEF LocalInv, NewViews
  <2>15. Prepares(t, me, B)
    <3>1. \A w \in Own(A, me, "prepare") :
            /\ w.v <= s.view /\ w.v # s.view
            /\ \A x \in Own(A, me, "prepare") : x.v = w.v /\ x.n = w.n => x.d = w.d
      BY <1>1, <1>2, Zenon DEF LocalInv, Prepares
    <3>2. \A w \in sent : w.v <= s.view
      <4>1. s.view <= s.view  BY <1>2
      <4> QED  BY <2>5, <4>1, Zenon
    <3>3. \A w \in Own(B, me, "prepare") :
            /\ w.v <= t.view
            /\ w.v = t.view => t.activeView /\ ([v |-> w.v, n |-> w.n] \in t.sentP \/ w.n <= t.h)
      <4>1. t.view = s.view /\ t.activeView  BY <2>2, <2>8
      <4>2. \A w \in sent : w.v <= t.view /\ [v |-> w.v, n |-> w.n] \in t.sentP
        BY <2>5, <2>8, <3>2, <4>1, Zenon
      <4>3. \A w \in Own(A, me, "prepare") : w.v <= t.view /\ w.v # t.view
        BY <3>1, <4>1, Zenon
      <4> QED  BY <2>10, <4>1, <4>2, <4>3, Zenon
    <3>4. \A w, x \in sent : x.n = w.n => x.d = w.d
      <4>1. \A p, q \in new : p.n = q.n => p.d = q.d  BY <1>6
      <4>2. \A w \in sent : \E p \in new : w.n = p.n /\ w.d = p.d  BY <2>5
      <4> QED  BY <4>1, <4>2
    <3>5. \A w, x \in Own(B, me, "prepare") : x.v = w.v /\ x.n = w.n => x.d = w.d
      BY <2>5, <2>10, <3>1, <3>4, ZenonT(60)
    <3> QED  BY <3>3, <3>5, Zenon DEF Prepares
  <2>16. Grows(b, t, me)  BY <2>1, <2>5, <2>8 DEF Grows
  <2>17. t \in Good(b, me, M)
    BY <2>7, <2>12, <2>13, <2>14, <2>15, <2>16 DEF Good, LocalInv, B
  <2> QED  BY <2>17 DEF t
<1> HIDE DEF enter, vote
<1>15. \A n \in top : resubmitRequests(enter(n), me) \subseteq Good(b, me, M)
  BY <1>13, ResubmitRequestsGood
<1> QED  BY <1>5, <1>14, <1>15

\* skipTo changes nothing that LocalInv is about.
LEMMA SkipToGood ==
    ASSUME NEW b \in Instance, NEW me \in Replica, NEW M \in SUBSET Message,
           NEW s \in Good(b, me, M), NEW n \in Nat, NEW id \in Seq(Requests),
           NEW t \in skipTo(s, n, id)
    PROVE  t \in Good(b, me, M) /\ Keeps(s, t)
<1> DEFINE q == <<[at |-> n, n |-> n, id |-> id]>>
<1>1. s \in Instance  BY DEF Good
<1>2. t \in Instance  BY <1>1, SkipToType
<1>3. t \in {[s EXCEPT !.app = id, !.ckq = q], [s EXCEPT !.hung = TRUE]}
  BY Zenon DEF skipTo, q
<1> HIDE DEF q
<1>4. Quiet(s, t, me)  BY <1>1, <1>3, ZenonT(60) DEF Quiet, Instance
<1> QED  BY <1>2, <1>4, QuietGood, Zenon DEF Keeps, Quiet

\* The end of processNewView, with its state transfer and its fetches, is good.
LEMMA AcceptNewViewGood ==
    ASSUME NEW b \in Instance, NEW me \in Replica, NEW M \in SUBSET Message,
           NEW s \in Good(b, me, M), NEW nv \in NewView, NEW cp \in C, Entering(s, nv)
    PROVE  acceptNewView(s, me, nv, cp) \subseteq Good(b, me, M)
<1> DEFINE caught(u) == IF u.hung THEN u ELSE [u EXCEPT !.lastExec = cp.n]
           starts == IF s.h < cp.n
                     THEN {caught(u) : u \in UNION {skipTo(w, cp.n, cp.id) :
                                                      w \in moveWatermarks(s, me, cp.n)}}
                     ELSE {s}
           need(t) == {x.d : x \in {y \in nv.X : y.n > t.h /\ y.d # Null}} \ t.reqStore
           missing(t) == t.missingReqs \cup need(t)
           t1(t) == [t EXCEPT !.missingReqs = missing(t)]
           fetches(t) == {[type |-> "fetchRequest", d |-> d, i |-> me] : d \in missing(t)}
           t2(t) == [t1(t) EXCEPT !.snd = t1(t).snd \cup fetches(t)]
           body(t) == IF t.hung THEN {t}
                      ELSE IF missing(t) = {} THEN processNewView2(t, me, nv)
                      ELSE IF need(t) \subseteq t.missingReqs THEN {t}
                      ELSE {t2(t)}
<1>1. cp.n \in Nat /\ cp.id \in Seq(Requests) /\ s \in Instance /\ s.h \in Nat
  BY Fields DEF C, Good
<1>2. acceptNewView(s, me, nv, cp) = UNION {body(t) : t \in starts}
  BY Zenon DEF acceptNewView
<1>3. ASSUME NEW u \in Good(b, me, M) PROVE caught(u) \in Good(b, me, M) /\ Keeps(u, caught(u))
  <2>1. u \in Instance  BY DEF Good
  <2>2. caught(u) \in Instance  BY <1>1, <2>1, ZenonT(60) DEF Instance
  <2>3. Quiet(u, caught(u), me)  BY <2>1 DEF Quiet, Instance
  <2> QED  BY <2>2, <2>3, QuietGood, Zenon DEF Keeps, Quiet
<1> HIDE DEF caught
<1>4. \A t \in starts : t \in Good(b, me, M) /\ Entering(t, nv)
  <2>1. CASE s.h < cp.n
    <3>1. s.h <= cp.n  BY <1>1, <2>1
    <3>2. \A w \in moveWatermarks(s, me, cp.n) :
            /\ w \in Good(b, me, M) /\ w.view = s.view /\ w.activeView = s.activeView
            /\ w.newViewStore = s.newViewStore
      BY <1>1, <3>1, MoveWatermarksGood
    <3>3. \A w \in moveWatermarks(s, me, cp.n) : \A u \in skipTo(w, cp.n, cp.id) :
            u \in Good(b, me, M) /\ Keeps(w, u)
      BY <1>1, <3>2, SkipToGood
    <3>4. \A w \in moveWatermarks(s, me, cp.n) : \A u \in skipTo(w, cp.n, cp.id) :
            caught(u) \in Good(b, me, M) /\ Entering(caught(u), nv)
      <4> SUFFICES ASSUME NEW w \in moveWatermarks(s, me, cp.n), NEW u \in skipTo(w, cp.n, cp.id)
                   PROVE  caught(u) \in Good(b, me, M) /\ Entering(caught(u), nv)
        OBVIOUS
      <4>1. u \in Good(b, me, M) /\ Keeps(w, u)  BY <3>3
      <4>2. caught(u) \in Good(b, me, M) /\ Keeps(u, caught(u))  BY <1>3, <4>1
      <4>3. /\ caught(u).view = s.view /\ caught(u).activeView = s.activeView
            /\ caught(u).newViewStore = s.newViewStore
        BY <3>2, <4>1, <4>2 DEF Keeps
      <4> QED  BY <4>2, <4>3, Zenon DEF Entering
    <3> QED  BY <2>1, <3>4
  <2>2. CASE ~(s.h < cp.n)  BY <2>2
  <2> QED  BY <2>1, <2>2
<1> HIDE DEF starts
<1>5. ASSUME NEW t \in Good(b, me, M), Entering(t, nv) PROVE body(t) \subseteq Good(b, me, M)
  <2>1. t \in Instance  BY DEF Good
  <2>2. missing(t) \in SUBSET Requests  BY <2>1, Fields DEF NewView, Digest
  <2>3. fetches(t) \in SUBSET Message
    <3>1. fetches(t) \in SUBSET Fetch  BY <2>2 DEF Fetch
    <3> QED  BY <3>1 DEF Message
  <2>4. \A m \in fetches(t) : m.i = me /\ m.type \notin Binding  BY DEF Binding
  <2> HIDE DEF missing, fetches
  <2>5. t1(t) \in Instance /\ t1(t).snd = t.snd /\ Quiet(t, t1(t), me)
    <3>1. t1(t) \in Instance  BY <2>1, <2>2, ZenonT(60) DEF Instance
    <3> QED  BY <2>1, <3>1 DEF Quiet, Instance
  <2> HIDE DEF t1
  <2>6. t1(t).snd \cup fetches(t) \in SUBSET Message  BY <2>3, <2>5, Fields
  <2>7. t2(t) \in Instance  BY <2>5, <2>6, ZenonT(60) DEF Instance
  <2>8. Quiet(t1(t), t2(t), me)  BY <2>4, <2>5 DEF Quiet, Instance
  <2> HIDE DEF t2
  <2>9. t2(t) \in Good(b, me, M)  BY <2>5, <2>7, <2>8, QuietGood
  <2>10. processNewView2(t, me, nv) \subseteq Good(b, me, M)  BY <1>5, ProcessNewView2Good
  <2> QED  BY <2>9, <2>10
<1> HIDE DEF body
<1> QED  BY <1>2, <1>4, <1>5

\* processNewView enters the view or asks for the next one.
LEMMA ProcessNewViewGood ==
    ASSUME NEW b \in Instance, NEW me \in Replica, NEW M \in SUBSET Message,
           NEW s \in Good(b, me, M)
    PROVE  processNewView(s, me) \subseteq Good(b, me, M)
<1> DEFINE nvs == {nv \in s.newViewStore : nv.v = s.view}
           enter(nv, cp) == IF nv.X \in assignSequenceNumbers(nv.V, cp.n)
                            THEN acceptNewView(s, me, nv, cp) ELSE sendViewChange(s, me)
           body(nv) == LET cps == selectInitialCheckpoint(nv.V)
                       IN  IF cps = {} THEN sendViewChange(s, me)
                           ELSE UNION {enter(nv, cp) : cp \in cps}
<1>1. s \in Instance /\ s.view \in Nat  BY Fields DEF Good
<1>2. nvs \subseteq NewView  BY <1>1, Fields
<1>3. sendViewChange(s, me) \subseteq Good(b, me, M)
  <2>1. s.view <= s.view  BY <1>1
  <2> QED  BY <1>1, <2>1, SendViewChangeGood
<1>4. ASSUME ~s.activeView, NEW nv \in nvs, NEW cp \in C PROVE enter(nv, cp) \subseteq Good(b, me, M)
  <2>1. CASE nv.X \in assignSequenceNumbers(nv.V, cp.n)
    <3>1. nv \in NewView /\ nv.V \in SUBSET ViewChange /\ cp.n \in Nat
      BY <1>2 DEF NewView, C
    <3>2. \A x, y \in nv.X : x.n = y.n => x = y
      BY <2>1, <3>1, AssignSequenceNumbersType
    <3>3. Entering(s, nv)  BY <1>4, <3>2, Zenon DEF Entering
    <3> QED  BY <2>1, <3>1, <3>3, AcceptNewViewGood
  <2>2. CASE nv.X \notin assignSequenceNumbers(nv.V, cp.n)  BY <1>3, <2>2
  <2> QED  BY <2>1, <2>2
<1> HIDE DEF enter
<1>5. ASSUME ~s.activeView, NEW nv \in nvs PROVE body(nv) \subseteq Good(b, me, M)
  <2>1. selectInitialCheckpoint(nv.V) \subseteq C
    BY <1>2, SelectInitialCheckpointType DEF NewView
  <2> QED  BY <1>3, <1>4, <1>5, <2>1
<1>6. \/ processNewView(s, me) \subseteq {s}
      \/ ~s.activeView /\ processNewView(s, me) \subseteq UNION {body(nv) : nv \in nvs}
  BY Zenon DEF processNewView, enter
<1> HIDE DEF body, nvs
<1> QED  BY <1>5, <1>6

\* The primary sends its new-view before it is in the view, and once.
LEMMA SendNewViewGood ==
    ASSUME NEW b \in Instance, NEW me \in Replica, NEW M \in SUBSET Message,
           NEW s \in Good(b, me, M), primary(s.view) = me
    PROVE  sendNewView(s, me) \subseteq Good(b, me, M)
<1> DEFINE V == s.viewChangeStore
           cps == selectInitialCheckpoint(V)
           nvs == {[type |-> "newView", v |-> s.view, V |-> V, X |-> X, i |-> me] :
                     X \in UNION {assignSequenceNumbers(V, cp.n) : cp \in cps}}
           with(nv) == [s EXCEPT !.newViewStore = s.newViewStore \cup {nv},
                                 !.snd = s.snd \cup {nv}]
           A == M \cup s.snd
<1>1. s \in Instance /\ LocalInv(s, me, A) /\ Grows(b, s, me)  BY DEF Good
<1>2. V \in SUBSET ViewChange /\ s.view \in Nat /\ A \subseteq Message  BY <1>1, Fields
<1>3. \/ sendNewView(s, me) \subseteq {s}
      \/ /\ ~\E nv \in s.newViewStore : nv.v = s.view
         /\ sendNewView(s, me) \subseteq UNION {processNewView(with(nv), me) : nv \in nvs}
  BY Zenon DEF sendNewView
<1>4. \A nv \in nvs : /\ nv \in NewView /\ nv.type = "newView" /\ nv.v = s.view /\ nv.i = me
                      /\ \A x, y \in nv.X : x.n = y.n => x.d = y.d
  <2>1. cps \subseteq C  BY <1>2, SelectInitialCheckpointType
  <2>2. \A X \in UNION {assignSequenceNumbers(V, cp.n) : cp \in cps} :
          X \in SUBSET [n : Nat, d : Digest] /\ \A x, y \in X : x.n = y.n => x = y
    BY <1>2, <2>1, AssignSequenceNumbersType DEF C
  <2> HIDE DEF V, cps
  <2> QED  BY <1>2, <2>2 DEF NewView
<1> HIDE DEF nvs, A
<1>5. ASSUME NEW nv \in nvs, ~\E w \in s.newViewStore : w.v = s.view
      PROVE  with(nv) \in Good(b, me, M)
  <2> DEFINE t == with(nv)
             B == M \cup t.snd
  <2>1. s.newViewStore \cup {nv} \in SUBSET NewView /\ s.snd \cup {nv} \in SUBSET Message
    BY <1>1, <1>4, Fields, Zenon DEF Message
  <2>2. t \in Instance  BY <1>1, <2>1, ZenonT(60) DEF Instance
  <2>3. /\ t.view = s.view /\ t.activeView = s.activeView /\ t.h = s.h /\ t.seqNo = s.seqNo
        /\ t.pp = s.pp /\ t.prep = s.prep /\ t.sentP = s.sentP
        /\ t.pset = s.pset /\ t.qset = s.qset /\ t.newViewStore = s.newViewStore \cup {nv}
        /\ t.snd = s.snd \cup {nv}
    BY <1>1 DEF Instance
  <2> HIDE DEF t, with
  <2>4. A \subseteq B /\ B = A \cup {nv} /\ nv \in B  BY <2>3 DEF A
  <2> HIDE DEF B
  <2>5. /\ Own(B, me, "prepare") = Own(A, me, "prepare")
        /\ Own(B, me, "prePrepare") = Own(A, me, "prePrepare")
        /\ Own(B, me, "newView") = Own(A, me, "newView") \cup {nv}
    BY <1>4, <2>4 DEF Own
  <2>6. \A w \in OwnNewViews(B, me) : w \in OwnNewViews(A, me) \/ (w = nv /\ s.view > 0)
    BY <1>4, <2>5 DEF OwnNewViews
  <2>7. s.view > 0 => ~s.activeView  BY <1>1, <1>5, Zenon DEF LocalInv, Certificates
  <2>8. Certificates(t, B)
    <3>1. \A p \in t.pp : p.v = t.view /\ Announced(B, p.v, p.n, p.d)
      BY <1>1, <2>3, <2>4, AnnouncedStays, Zenon DEF LocalInv, Certificates
    <3>2. \A w \in t.newViewStore : w \in B /\ w.type = "newView" /\ w.i = primary(w.v)
      <4>1. nv.type = "newView" /\ nv.i = primary(nv.v)  BY <1>4
      <4> QED  BY <1>1, <2>3, <2>4, <4>1, Zenon DEF LocalInv, Certificates
    <3>3. t.activeView /\ t.view > 0 => \E w \in t.newViewStore : w.v = t.view
      BY <2>3, <2>7, Zenon
    <3> QED  BY <1>1, <2>3, <2>4, <3>1, <3>2, <3>3, Zenon DEF LocalInv, Certificates
  <2>9. Prepares(t, me, B)
    <3>1. /\ t.view = s.view /\ t.activeView = s.activeView /\ t.h = s.h /\ t.sentP = s.sentP
          /\ Own(B, me, "prepare") = Own(A, me, "prepare") /\ Prepares(s, me, A)
      BY <1>1, <2>3, <2>5, Zenon DEF LocalInv
    <3> QED  BY <3>1, ZenonT(60) DEF Prepares
  <2>10. PrePrepares(t, me, B)
    <3>1. /\ t.view = s.view /\ t.activeView = s.activeView /\ t.seqNo = s.seqNo
          /\ Own(B, me, "prePrepare") = Own(A, me, "prePrepare") /\ PrePrepares(s, me, A)
      BY <1>1, <2>3, <2>5, Zenon DEF LocalInv
    <3> QED  BY <3>1, ZenonT(60) DEF PrePrepares
  <2>11. NewViews(t, me, B)
    <3>1. \A w \in OwnNewViews(A, me) : w.v # s.view
      BY <1>1, <1>5, Zenon DEF LocalInv, NewViews
    <3>2. s.view > 0 => \A m \in Own(A, me, "prePrepare") : m.v # s.view
      BY <1>1, <2>7, Zenon DEF LocalInv, PrePrepares
    <3>3. nv.v <= s.view /\ nv.v = s.view  BY <1>2, <1>4
    <3>4. nv \in t.newViewStore /\ \A x, y \in nv.X : x.n = y.n => x.d = y.d
      BY <1>4, <2>3
    <3>5. ASSUME NEW w \in OwnNewViews(A, me)
          PROVE  /\ w.v <= t.view /\ w.v # t.view
                 /\ \A x, y \in w.X : x.n = y.n => x.d = y.d
                 /\ \A x \in OwnNewViews(B, me) : x.v = w.v => x = w
                 /\ \A m \in Own(B, me, "prePrepare") : m.v = w.v => \A x \in w.X : x.n # m.n
      <4>1. \A x \in OwnNewViews(A, me) : x.v = w.v => x = w
        BY <1>1, Zenon DEF LocalInv, NewViews
      <4>2. \A x \in OwnNewViews(B, me) : x.v = w.v => x = w
        BY <2>6, <3>1, <3>3, <4>1, Zenon
      <4> QED  BY <1>1, <2>3, <2>5, <3>1, <4>2, Zenon DEF LocalInv, NewViews
    <3>6. ASSUME s.view > 0
          PROVE  /\ nv.v <= t.view /\ ~t.activeView
                 /\ \A x \in OwnNewViews(B, me) : x.v = nv.v => x = nv
                 /\ \A m \in Own(B, me, "prePrepare") : m.v # nv.v
      BY <2>3, <2>5, <2>6, <2>7, <3>1, <3>2, <3>3, <3>6, Zenon
    <3> QED  BY <2>6, <3>4, <3>5, <3>6, Zenon DEF NewViews
  <2>12. Grows(b, t, me)  BY <1>1, <1>4, <2>3 DEF Grows
  <2>13. t \in Good(b, me, M)  BY <2>2, <2>8, <2>9, <2>10, <2>11, <2>12 DEF Good, LocalInv, B
  <2> QED  BY <2>13 DEF t
<1> HIDE DEF with
<1> QED  BY <1>3, <1>5, ProcessNewViewGood

\* recvNewView stores a new-view that was sent by the primary of its view.
LEMMA RecvNewViewGood ==
    ASSUME NEW b \in Instance, NEW me \in Replica, NEW M \in SUBSET Message,
           NEW s \in Good(b, me, M), NEW m \in M, m.type = "newView"
    PROVE  recvNewView(s, me, m) \subseteq Good(b, me, M)
<1> DEFINE c == s.newViewStore \cup {m}
           t == [s EXCEPT !.newViewStore = c]
           A == M \cup s.snd
<1>1. s \in Instance /\ LocalInv(s, me, A) /\ Grows(b, s, me)  BY DEF Good
<1>2. \/ recvNewView(s, me, m) \subseteq {s}
      \/ primary(m.v) = m.i /\ recvNewView(s, me, m) = processNewView(t, me)
  BY Zenon DEF recvNewView
<1>3. c \in SUBSET NewView /\ c = s.newViewStore \cup {m} /\ m \in A
  BY <1>1, Fields, MessageTypes
<1> HIDE DEF c, A
<1>4. t \in Instance  BY <1>1, <1>3, ZenonT(60) DEF Instance
<1>5. /\ t.view = s.view /\ t.activeView = s.activeView /\ t.h = s.h /\ t.seqNo = s.seqNo
      /\ t.pp = s.pp /\ t.prep = s.prep /\ t.sentP = s.sentP
      /\ t.pset = s.pset /\ t.qset = s.qset /\ t.newViewStore = c /\ t.snd = s.snd
  BY <1>1 DEF Instance
<1> HIDE DEF t
<1>6. ASSUME primary(m.v) = m.i PROVE t \in Good(b, me, M)
  <2>1. Certificates(t, A)
    <3>1. \A w \in t.newViewStore : w \in A /\ w.type = "newView" /\ w.i = primary(w.v)
      <4>1. m.i = primary(m.v)  BY <1>6
      <4>2. \A w \in s.newViewStore : w \in A /\ w.type = "newView" /\ w.i = primary(w.v)
        BY <1>1, Zenon DEF LocalInv, Certificates
      <4> QED  BY <1>3, <1>5, <4>1, <4>2
    <3>2. t.activeView /\ t.view > 0 => \E w \in t.newViewStore : w.v = t.view
      BY <1>1, <1>3, <1>5, Zenon DEF LocalInv, Certificates
    <3> QED  BY <1>1, <1>5, <3>1, <3>2, Zenon DEF LocalInv, Certificates
  <2>2. Prepares(t, me, A)  BY <1>1, <1>5, Zenon DEF LocalInv, Prepares
  <2>3. PrePrepares(t, me, A)  BY <1>1, <1>5, Zenon DEF LocalInv, PrePrepares
  <2>4. NewViews(t, me, A)  BY <1>1, <1>3, <1>5, Zenon DEF LocalInv, NewViews
  <2>5. LocalInv(t, me, M \cup t.snd)  BY <1>5, <2>1, <2>2, <2>3, <2>4 DEF LocalInv, A
  <2>6. Grows(b, t, me)  BY <1>1, <1>5, Zenon DEF Grows
  <2> QED  BY <1>4, <2>5, <2>6 DEF Good
<1> QED  BY <1>2, <1>6, ProcessNewViewGood

\* recvViewChange stores the message, and may ask for a later view or start this one.
LEMMA RecvViewChangeGood ==
    ASSUME NEW b \in Instance, NEW me \in Replica, NEW M \in SUBSET Message,
           NEW s \in Good(b, me, M), NEW m \in ViewChange
    PROVE  recvViewChange(s, me, m) \subseteq Good(b, me, M)
<1> DEFINE s1 == [s EXCEPT !.viewChangeStore = s.viewChangeStore \cup {m}]
           higher == {w \in s1.viewChangeStore : w.v > s.view}
           minView == {v \in {w.v : w \in higher} : \A w \in higher : v <= w.v}
           quorum == Cardinality({w \in s1.viewChangeStore : w.v = s.view})
           back(v) == [s1 EXCEPT !.view = v - 1]
           s2 == [s1 EXCEPT !.timerActive = TRUE]
           dropped == \/ m.v < s.view \/ ~correctViewChange(m)
                      \/ \E w \in s.viewChangeStore : w.v = m.v /\ w.i = m.i
<1>1. recvViewChange(s, me, m) =
        IF dropped THEN {s}
        ELSE IF Cardinality({w.i : w \in higher}) >= F + 1
        THEN UNION {sendViewChange(back(v), me) : v \in minView}
        ELSE IF m.v = s.view /\ quorum = allCorrectReplicasQuorum
        THEN IF primary(s.view) = me THEN sendNewView(s2, me) ELSE processNewView(s2, me)
        ELSE processNewView(s1, me)
  BY Zenon DEF recvViewChange
<1>2. s \in Instance  BY DEF Good
<1>3. s1 \in Good(b, me, M) /\ s1.view = s.view
  <2>1. s.viewChangeStore \cup {m} \in SUBSET ViewChange  BY <1>2, Fields
  <2>2. s1 \in Instance  BY <1>2, <2>1, ZenonT(60) DEF Instance
  <2>3. Quiet(s, s1, me)  BY <1>2 DEF Quiet, Instance
  <2> HIDE DEF s1
  <2> QED  BY <2>2, <2>3, QuietGood DEF Quiet
<1> HIDE DEF s1
<1>4. s1 \in Instance  BY <1>3 DEF Good
<1>5. s2 \in Good(b, me, M) /\ s2.view = s.view
  <2>1. s2 \in Instance  BY <1>4, ZenonT(60) DEF Instance
  <2>2. Quiet(s1, s2, me)  BY <1>4 DEF Quiet, Instance
  <2> HIDE DEF s2
  <2> QED  BY <1>3, <2>1, <2>2, QuietGood DEF Quiet
<1>6. ASSUME NEW v \in minView PROVE sendViewChange(back(v), me) \subseteq Good(b, me, M)
  <2>1. v \in Nat /\ v > s.view /\ s.view \in Nat  BY <1>2, <1>4, Fields DEF ViewChange
  <2>2. v - 1 \in Nat /\ s1.view <= v - 1  BY <1>3, <2>1
  <2> DEFINE r == back(v)
  <2>3. r \in Instance  BY <1>4, <2>2, ZenonT(60) DEF Instance
  <2>4. /\ r.view = v - 1 /\ r.h = s1.h /\ r.seqNo = s1.seqNo /\ r.pp = s1.pp
        /\ r.prep = s1.prep /\ r.sentP = s1.sentP /\ r.pset = s1.pset /\ r.qset = s1.qset
        /\ r.newViewStore = s1.newViewStore /\ r.snd = s1.snd
    BY <1>4 DEF Instance
  <2> HIDE DEF r, back
  <2>5. sendViewChange(r, me) \subseteq Good(b, me, M)
    BY <1>3, <2>2, <2>3, <2>4, SendViewChangeGood
  <2> QED  BY <2>5 DEF r
<1> HIDE DEF s2, back, minView
<1>7. /\ primary(s.view) = me => sendNewView(s2, me) \subseteq Good(b, me, M)
      /\ processNewView(s2, me) \subseteq Good(b, me, M)
      /\ processNewView(s1, me) \subseteq Good(b, me, M)
  BY <1>3, <1>5, SendNewViewGood, ProcessNewViewGood
<1> HIDE DEF dropped, higher, quorum
<1> QED  BY <1>1, <1>6, <1>7

\* recvFetchRequest answers with the request, and recvReturnRequest takes it in.
LEMMA FetchGood ==
    ASSUME NEW b \in Instance, NEW me \in Replica, NEW M \in SUBSET Message,
           NEW s \in Good(b, me, M)
    PROVE  /\ \A m \in Fetch : recvFetchRequest(s, me, m) \subseteq Good(b, me, M)
           /\ \A m \in Return : recvReturnRequest(s, me, m) \subseteq Good(b, me, M)
<1>1. s \in Instance  BY DEF Good
<1>2. ASSUME NEW m \in Fetch PROVE recvFetchRequest(s, me, m) \subseteq Good(b, me, M)
  <2> DEFINE r == [type |-> "returnRequest", d |-> m.d, i |-> me, to |-> m.i]
             t == [s EXCEPT !.snd = s.snd \cup {r}]
  <2>1. recvFetchRequest(s, me, m) \subseteq Instance  BY <1>1, RecvFetchRequestType
  <2>2. recvFetchRequest(s, me, m) \subseteq {s, t}  BY Zenon DEF recvFetchRequest
  <2>3. r.type \notin Binding /\ r.i = me  BY DEF Binding
  <2> HIDE DEF r
  <2>4. Quiet(s, t, me)  BY <1>1, <2>3 DEF Quiet, Instance
  <2> HIDE DEF t
  <2> QED  BY <2>1, <2>2, <2>4, QuietGood
<1>3. ASSUME NEW m \in Return PROVE recvReturnRequest(s, me, m) \subseteq Good(b, me, M)
  <2> DEFINE t == [s EXCEPT !.reqStore = s.reqStore \cup {m.d},
                            !.missingReqs = s.missingReqs \ {m.d}]
  <2>1. s.reqStore \cup {m.d} \in SUBSET Requests /\ s.missingReqs \ {m.d} \in SUBSET Requests
    BY <1>1, Fields DEF Return
  <2>2. t \in Instance  BY <1>1, <2>1, ZenonT(60) DEF Instance
  <2>3. Quiet(s, t, me)  BY <1>1 DEF Quiet, Instance
  <2>4. \/ recvReturnRequest(s, me, m) = {s}
        \/ recvReturnRequest(s, me, m) = processNewView(t, me)
    BY Zenon DEF recvReturnRequest
  <2> HIDE DEF t
  <2>5. t \in Good(b, me, M)  BY <2>2, <2>3, QuietGood
  <2> QED  BY <2>4, <2>5, ProcessNewViewGood
<1> QED  BY <1>2, <1>3

-----------------------------------------------------------------------------
(* Checkpoints. *)

\* witnessCheckpointWeakCert moves the watermark to the checkpoint, or not at all.
LEMMA WitnessGood ==
    ASSUME NEW b \in Instance, NEW me \in Replica, NEW M \in SUBSET Message,
           NEW s \in Good(b, me, M), NEW m \in Checkpoint, s.h <= m.n,
           NEW t \in witnessCheckpointWeakCert(s, me, m)
    PROVE  t \in Good(b, me, M) /\ t.h <= m.n
<1> DEFINE go == [s EXCEPT !.skipInProgress = FALSE]
           done(u) == [u EXCEPT !.lastExec = m.n]
<1>1. m.n \in Nat /\ m.id \in Seq(Requests) /\ s \in Instance  BY DEF Checkpoint, Good
<1>2. \/ t = s
      \/ t \in UNION {{done(u) : u \in skipTo(w, m.n, m.id)} : w \in moveWatermarks(go, me, m.n)}
  BY Zenon DEF witnessCheckpointWeakCert
<1>3. go \in Good(b, me, M) /\ go.h <= m.n
  <2>1. go \in Instance  BY <1>1, ZenonT(60) DEF Instance
  <2>2. Quiet(s, go, me)  BY <1>1 DEF Quiet, Instance
  <2> HIDE DEF go
  <2> QED  BY <2>1, <2>2, QuietGood DEF Quiet
<1> HIDE DEF go
<1>4. ASSUME NEW u \in Good(b, me, M) PROVE done(u) \in Good(b, me, M) /\ done(u).h = u.h
  <2>1. u \in Instance  BY DEF Good
  <2>2. done(u) \in Instance  BY <1>1, <2>1, ZenonT(60) DEF Instance
  <2>3. Quiet(u, done(u), me)  BY <2>1 DEF Quiet, Instance
  <2> HIDE DEF done
  <2> QED  BY <2>2, <2>3, QuietGood DEF Quiet
<1> HIDE DEF done
<1>5. \A w \in moveWatermarks(go, me, m.n) : w \in Good(b, me, M) /\ w.h = m.n
  BY <1>1, <1>3, MoveWatermarksGood
<1>6. \A w \in moveWatermarks(go, me, m.n) : \A u \in skipTo(w, m.n, m.id) :
        u \in Good(b, me, M) /\ u.h = m.n
  BY <1>1, <1>5, SkipToGood DEF Keeps
<1>7. m.n <= m.n  BY <1>1
<1> QED  BY <1>2, <1>4, <1>6, <1>7

\* recvCheckpoint only moves the watermark up.
LEMMA RecvCheckpointGood ==
    ASSUME NEW b \in Instance, NEW me \in Replica, NEW M \in SUBSET Message,
           NEW s \in Good(b, me, M), NEW m \in Checkpoint
    PROVE  recvCheckpoint(s, me, m) \subseteq Good(b, me, M)
<1> DEFINE far == weakCheckpointSet(s, m)
           s1 == [s EXCEPT !.hChkpts = far.hChkpts]
           c == s1.checkpointStore \cup {[n |-> m.n, id |-> m.id, i |-> m.i]}
           s2 == [s1 EXCEPT !.checkpointStore = c]
           empty == [s1 EXCEPT !.reqStore = {}]
           skipping(t) == [t EXCEPT !.skipInProgress = TRUE]
           moved(t) == UNION {processNewView(u, me) : u \in moveWatermarks(t, me, m.n)}
           matching == Cardinality({x \in s2.checkpointStore : x.n = m.n /\ x.id = m.id})
           s3 == IF matching = F + 1 THEN witnessCheckpointWeakCert(s2, me, m) ELSE {s2}
           fallen == UNION {{skipping(t) : t \in moveWatermarks(empty, me, n)} : n \in far.ahead}
           settled(t) == IF ~t.hung /\ \E x \in t.chkpts : x.n = m.n THEN moved(t) ELSE {t}
<1>1. recvCheckpoint(s, me, m) =
        IF far.ahead # {} THEN fallen
        ELSE IF ~inW(s, m.n) THEN {s1}
        ELSE IF matching < intersectionQuorum THEN s3
        ELSE UNION {settled(t) : t \in s3}
  BY Zenon DEF recvCheckpoint
<1>2. s \in Instance /\ m.n \in Nat  BY DEF Good, Checkpoint
<1>3. s1 \in Good(b, me, M) /\ s1.h = s.h
  <2>1. s1 \in Instance  BY <1>2, WeakCheckpointSetType, ZenonT(60) DEF Instance
  <2>2. Quiet(s, s1, me)  BY <1>2 DEF Quiet, Instance
  <2> HIDE DEF s1
  <2> QED  BY <2>1, <2>2, QuietGood DEF Quiet
<1> HIDE DEF s1
<1>4. s1 \in Instance  BY <1>3 DEF Good
<1>5. s2 \in Good(b, me, M) /\ s2.h = s.h
  <2>1. c \in SUBSET [n : Nat, id : Seq(Requests), i : Replica]
    BY <1>4, Fields DEF Checkpoint
  <2> HIDE DEF c
  <2>2. s2 \in Instance  BY <1>4, <2>1, ZenonT(60) DEF Instance
  <2>3. Quiet(s1, s2, me)  BY <1>4 DEF Quiet, Instance
  <2> HIDE DEF s2
  <2> QED  BY <1>3, <2>2, <2>3, QuietGood DEF Quiet
<1>6. empty \in Good(b, me, M) /\ empty.h = s.h
  <2>1. empty \in Instance  BY <1>4, ZenonT(60) DEF Instance
  <2>2. Quiet(s1, empty, me)  BY <1>4 DEF Quiet, Instance
  <2> HIDE DEF empty
  <2> QED  BY <1>3, <2>1, <2>2, QuietGood DEF Quiet
<1>7. ASSUME NEW t \in Good(b, me, M) PROVE skipping(t) \in Good(b, me, M)
  <2>1. t \in Instance  BY DEF Good
  <2>2. skipping(t) \in Instance  BY <2>1, ZenonT(60) DEF Instance
  <2>3. Quiet(t, skipping(t), me)  BY <2>1 DEF Quiet, Instance
  <2> QED  BY <2>2, <2>3, QuietGood
<1> HIDE DEF s2, empty, skipping
<1>8. far.ahead # {} => fallen \subseteq Good(b, me, M)
  <2>1. \A n \in far.ahead : n \in Nat /\ empty.h <= n
    <3>1. \A n \in far.ahead : n \in Nat /\ n > s.h + L  BY <1>2, WeakCheckpointSetType
    <3>2. s.h \in Nat /\ L \in Nat  BY <1>2, Fields, ConfigAssumption
    <3> QED  BY <1>6, <3>1, <3>2
  <2>2. \A n \in far.ahead : moveWatermarks(empty, me, n) \subseteq Good(b, me, M)
    BY <1>6, <2>1, MoveWatermarksGood
  <2> QED  BY <1>7, <2>2
<1>9. inW(s, m.n) => \A t \in s3 : t \in Good(b, me, M) /\ t.h <= m.n
  <2>1. inW(s, m.n) => s2.h <= m.n
    <3>1. s.h \in Nat  BY <1>2, Fields
    <3> QED  BY <1>2, <1>5, <3>1 DEF inW
  <2> QED  BY <1>5, <2>1, WitnessGood
<1> HIDE DEF s3
<1>10. ASSUME NEW t \in Good(b, me, M), t.h <= m.n PROVE settled(t) \subseteq Good(b, me, M)
  <2>1. moved(t) \subseteq Good(b, me, M)
    BY <1>2, <1>10, MoveWatermarksGood, ProcessNewViewGood
  <2> HIDE DEF moved
  <2> QED  BY <2>1
<1> HIDE DEF far, matching, fallen, settled
<1> QED  BY <1>1, <1>3, <1>8, <1>9, <1>10

\* Checkpoint, which the executor calls, is good.
LEMMA CheckpointGood ==
    ASSUME NEW b \in Instance, NEW me \in Replica, NEW M \in SUBSET Message,
           NEW s \in Good(b, me, M), NEW c \in [at : Nat, n : Nat, id : Seq(Requests)]
    PROVE  checkpoint(s, me, c) \subseteq Good(b, me, M)
<1> DEFINE m == [type |-> "checkpoint", n |-> s.lastExec, id |-> c.id, i |-> me]
           cs == {x \in s.chkpts : x.n # s.lastExec} \cup {[n |-> m.n, id |-> m.id]}
           t == [s EXCEPT !.chkpts = cs, !.snd = s.snd \cup {m}]
<1>1. s \in Instance  BY DEF Good
<1>2. m \in Checkpoint /\ m.i = me /\ m.type \notin Binding
  BY <1>1, Fields DEF Checkpoint, Binding
<1>3. cs \in SUBSET C  BY <1>1, <1>2, Fields DEF Checkpoint, C
<1>4. checkpoint(s, me, c) \subseteq {s} \cup recvCheckpoint(t, me, m)  BY Zenon DEF checkpoint
<1> HIDE DEF m, cs
<1>5. s.snd \cup {m} \in SUBSET Message  BY <1>1, <1>2, Fields, Zenon DEF Message
<1>6. t \in Instance  BY <1>1, <1>3, <1>5, ZenonT(60) DEF Instance
<1>7. Quiet(s, t, me)  BY <1>1, <1>2 DEF Quiet, Instance
<1> HIDE DEF t
<1>8. t \in Good(b, me, M)  BY <1>6, <1>7, QuietGood
<1> QED  BY <1>2, <1>4, <1>8, RecvCheckpointGood

-----------------------------------------------------------------------------
(* The network. *)

\* recvMsgSync dispatches a message that was sent to a good handler.
LEMMA RecvMsgSyncGood ==
    ASSUME NEW b \in Instance, NEW me \in Replica, NEW M \in SUBSET Message,
           NEW s \in Good(b, me, M), NEW m \in M
    PROVE  recvMsgSync(s, me, m) \subseteq Good(b, me, M)
<1>1. CASE m.type = "prePrepare"
  BY <1>1, RecvPrePrepareGood DEF recvMsgSync
<1>2. CASE m.type = "prepare"
  <2>1. m.v \in Nat /\ m.n \in Nat /\ m.d \in Digest /\ m.i \in Replica
    BY <1>2, MessageTypes
  <2>2. message("prepare", m, m.i) = m
    BY <1>2 DEF message, Message, Vote, Checkpoint, ViewChange, NewView, Fetch, Return
  <2>3. recvPrepare(s, me, m) \in Good(b, me, M)  BY <2>1, <2>2, RecvPrepareGood
  <2> QED  BY <1>2, <2>3 DEF recvMsgSync
<1>3. CASE m.type = "commit"
  BY <1>3, MessageTypes, RecvCommitGood DEF recvMsgSync
<1>4. CASE m.type = "checkpoint"
  BY <1>4, MessageTypes, RecvCheckpointGood DEF recvMsgSync
<1>5. CASE m.type = "viewChange"
  BY <1>5, MessageTypes, RecvViewChangeGood DEF recvMsgSync
<1>6. CASE m.type = "newView"
  BY <1>6, RecvNewViewGood DEF recvMsgSync
<1>7. CASE m.type = "fetchRequest"
  BY <1>7, MessageTypes, FetchGood DEF recvMsgSync
<1>8. CASE m.type = "returnRequest"
  BY <1>8, MessageTypes, FetchGood DEF recvMsgSync
<1> QED  BY <1>1, <1>2, <1>3, <1>4, <1>5, <1>6, <1>7, <1>8, MessageTypes

\* Every step ends a good handler of one correct replica, one case for each action.
LEMMA NextGood ==
    ASSUME Inv, Next
    PROVE  \E i \in Correct : \E t \in Good(rep[i], i, msgs) : Finish(i, t)
<1>1. ASSUME NEW i \in Correct
      PROVE  /\ rep[i] \in Instance /\ i \in Replica /\ msgs \in SUBSET Message
             /\ rep[i] \in Good(rep[i], i, msgs)
  <2>1. rep[i] \in Instance /\ i \in Replica /\ msgs \in SUBSET Message /\ rep[i].snd = {}
    BY DEF Inv, TypeOK, Correct
  <2>2. LocalInv(rep[i], i, msgs \cup rep[i].snd)
    <3>1. msgs \cup rep[i].snd = msgs  BY <2>1
    <3> QED  BY <3>1 DEF Inv
  <2>3. Grows(rep[i], rep[i], i)  BY <2>1, Fields DEF Grows
  <2> QED  BY <2>1, <2>2, <2>3 DEF Good
<1>2. ASSUME NEW i \in Correct, NEW t \in Instance, Quiet(rep[i], t, i)
      PROVE  t \in Good(rep[i], i, msgs)
  BY <1>1, <1>2, QuietGood
<1>3. ASSUME NEW i \in Correct, NEW d \in Requests, Request(i, d)
      PROVE  \E t \in Good(rep[i], i, msgs) : Finish(i, t)
  BY <1>1, <1>3, RecvRequestGood DEF Request
<1>4. ASSUME NEW i \in Correct, NEW m \in msgs, Receive(i, m)
      PROVE  \E t \in Good(rep[i], i, msgs) : Finish(i, t)
  <2>1. recvMsgSync(rep[i], i, m) \subseteq Good(rep[i], i, msgs)  BY <1>1, RecvMsgSyncGood
  <2> QED  BY <1>4, <2>1 DEF Receive
<1>5. ASSUME NEW i \in Correct, OwnViewChange(i)
      PROVE  \E t \in Good(rep[i], i, msgs) : Finish(i, t)
  <2> DEFINE s == [rep[i] EXCEPT !.ownVC = {}]
  <2>1. s \in Instance  BY <1>1, UpdateTypes, Zenon
  <2>2. Quiet(rep[i], s, i)  BY <1>1 DEF Quiet, Instance
  <2>3. rep[i].ownVC \subseteq ViewChange  BY <1>1, Fields
  <2>4. \E m \in rep[i].ownVC : \E t \in recvViewChange(s, i, m) : Finish(i, t)
    BY <1>5, Zenon DEF OwnViewChange
  <2> HIDE DEF s
  <2>5. \A m \in rep[i].ownVC : recvViewChange(s, i, m) \subseteq Good(rep[i], i, msgs)
    BY <1>1, <1>2, <2>1, <2>2, <2>3, RecvViewChangeGood
  <2> QED  BY <2>4, <2>5
<1>6. ASSUME NEW i \in Correct, Timeout(i)
      PROVE  \E t \in Good(rep[i], i, msgs) : Finish(i, t)
  <2>1. rep[i].view <= rep[i].view  BY <1>1, Fields
  <2>2. sendViewChange(rep[i], i) \subseteq Good(rep[i], i, msgs)
    BY <1>1, <2>1, SendViewChangeGood
  <2> QED  BY <1>6, <2>2 DEF Timeout
<1>7. ASSUME NEW i \in Correct, CheckpointDone(i)
      PROVE  \E t \in Good(rep[i], i, msgs) : Finish(i, t)
  <2> DEFINE q == Tail(rep[i].ckq)
             s == [rep[i] EXCEPT !.ckq = q]
             c == Head(rep[i].ckq)
  <2>1. rep[i].ckq # <<>>  BY <1>7 DEF CheckpointDone
  <2>2. /\ q \in Seq([at : Nat, n : Nat, id : Seq(Requests)])
        /\ c \in [at : Nat, n : Nat, id : Seq(Requests)]
    BY <1>1, <2>1, Fields, SeqTypes, Zenon
  <2>3. s \in Instance  BY <1>1, <2>2, UpdateTypes, Zenon
  <2>4. \E t \in checkpoint(s, i, c) : Finish(i, t)  BY <1>7, Zenon DEF CheckpointDone
  <2> HIDE DEF q, c
  <2>5. Quiet(rep[i], s, i)  BY <1>1 DEF Quiet, Instance
  <2> HIDE DEF s
  <2>6. checkpoint(s, i, c) \subseteq Good(rep[i], i, msgs)
    BY <1>1, <1>2, <2>2, <2>3, <2>5, CheckpointGood
  <2> QED  BY <2>4, <2>6
<1>8. ASSUME NEW i \in Correct, Resume(i)
      PROVE  \E t \in Good(rep[i], i, msgs) : Finish(i, t)
  <2> DEFINE k == rep[i].calling - 1
             a == rep[i].timerActive \/ rep[i].outstandingReqs # {}
             s == [rep[i] EXCEPT !.calling = k, !.timerActive = a]
  <2>1. k \in Nat  BY <1>1, <1>8, Fields DEF Resume
  <2>2. a \in BOOLEAN  OBVIOUS
  <2>3. s \in Instance  BY <1>1, <2>1, <2>2, UpdateTypes, Zenon
  <2>4. resume(rep[i]) = executeOutstanding(s)  BY Zenon DEF resume
  <2> HIDE DEF k, a
  <2>5. Quiet(rep[i], s, i)  BY <1>1 DEF Quiet, Instance
  <2> HIDE DEF s
  <2>6. executeOutstanding(s) \in Good(rep[i], i, msgs)
    BY <1>2, <2>3, <2>5, ExecuteOutstandingType, ExecuteOutstandingQuiet, QuietTrans
  <2> QED  BY <1>8, <2>4, <2>6 DEF Resume
<1>9. ASSUME NEW i \in Correct, ExecuteMore(i)
      PROVE  \E t \in Good(rep[i], i, msgs) : Finish(i, t)
  <2> DEFINE s == [rep[i] EXCEPT !.more = FALSE]
  <2>1. s \in Instance  BY <1>1, UpdateTypes, Zenon
  <2>2. Quiet(rep[i], s, i)  BY <1>1 DEF Quiet, Instance
  <2>3. Finish(i, executeOutstanding(s))  BY <1>9, Zenon DEF ExecuteMore
  <2> HIDE DEF s
  <2>4. executeOutstanding(s) \in Good(rep[i], i, msgs)
    BY <1>2, <2>1, <2>2, ExecuteOutstandingType, ExecuteOutstandingQuiet, QuietTrans
  <2> QED  BY <2>3, <2>4
<1> QED  BY <1>3, <1>4, <1>5, <1>6, <1>7, <1>8, <1>9 DEF Next

\* What one step may do to the view, the watermark and the sequence number.
Forward == \A i \in Correct : /\ rep[i].view <= rep'[i].view
                              /\ rep[i].h <= rep'[i].h
                              /\ rep[i].seqNo <= rep'[i].seqNo

\* When a replica ends a good handler, the others only see new messages of its own.
LEMMA FinishGood ==
    ASSUME Inv, NEW i \in Correct, NEW t \in Good(rep[i], i, msgs), Finish(i, t)
    PROVE  (\A j \in Correct : LocalInv(rep[j], j, msgs)') /\ Forward
<1> DEFINE u == [t EXCEPT !.snd = {}]
<1>1. t \in Instance /\ LocalInv(t, i, msgs \cup t.snd) /\ Grows(rep[i], t, i)  BY DEF Good
<1>2. /\ u.view = t.view /\ u.activeView = t.activeView /\ u.h = t.h /\ u.seqNo = t.seqNo
      /\ u.pp = t.pp /\ u.prep = t.prep /\ u.sentP = t.sentP
      /\ u.pset = t.pset /\ u.qset = t.qset /\ u.newViewStore = t.newViewStore
  BY <1>1 DEF Instance
<1>3. rep' = [rep EXCEPT ![i] = u] /\ msgs' = msgs \cup t.snd  BY DEF Finish
<1>4. rep \in [Correct -> Instance] /\ rep[i].snd = {}  BY DEF Inv, TypeOK
<1> HIDE DEF u
<1>5. rep'[i] = u /\ \A j \in Correct : j # i => rep'[j] = rep[j]  BY <1>3, <1>4
<1>6. LocalInv(u, i, msgs')  BY <1>1, <1>2, <1>3, SameCore
<1>7. ASSUME NEW j \in Correct, j # i PROVE LocalInv(rep[j], j, msgs')
  <2>1. LocalInv(rep[j], j, msgs)  BY DEF Inv
  <2>2. \A m \in msgs' \ msgs : m.i # j  BY <1>1, <1>3, <1>4, <1>7 DEF Grows
  <2>3. msgs \subseteq msgs'  BY <1>3
  <2> QED  BY <2>1, <2>2, <2>3, Widen
<1>8. \A j \in Correct : LocalInv(rep'[j], j, msgs')  BY <1>5, <1>6, <1>7
<1>9. Forward
  <2>1. \A j \in Correct : rep[j].view \in Nat /\ rep[j].h \in Nat /\ rep[j].seqNo \in Nat
    BY <1>4, Fields
  <2>2. rep[i].view <= u.view /\ rep[i].h <= u.h /\ rep[i].seqNo <= u.seqNo
    BY <1>1, <1>2, Zenon DEF Grows
  <2> QED  BY <1>5, <2>1, <2>2 DEF Forward
<1> QED  BY <1>8, <1>9

\* The invariant holds in every state, and every step moves forward.
LEMMA InvStep == /\ Init => Inv
                 /\ Inv /\ [Next]_vars => Inv'
                 /\ Inv /\ [Next]_vars => [Forward]_vars
<1>1. Init => Inv
  <2> SUFFICES ASSUME Init PROVE Inv  OBVIOUS
  <2>1. TypeOK  BY InitType
  <2>2. ASSUME NEW i \in Correct PROVE LocalInv(rep[i], i, msgs)
    <3>1. rep[i] = newPbftCore  BY DEF Init
    <3>2. \A m \in msgs : m.i # i  BY FaultAssumption DEF Init, Correct
    <3>3. /\ newPbftCore.view = 0 /\ newPbftCore.activeView = TRUE
          /\ newPbftCore.pp = {} /\ newPbftCore.prep = {} /\ newPbftCore.pset = {}
          /\ newPbftCore.qset = {} /\ newPbftCore.newViewStore = {}
      BY DEF newPbftCore
    <3>4. Certificates(newPbftCore, msgs)  BY <3>3 DEF Certificates
    <3>5. Own(msgs, i, "prepare") = {} /\ Own(msgs, i, "prePrepare") = {} /\ OwnNewViews(msgs, i) = {}
      BY <3>2 DEF Own, OwnNewViews
    <3> QED  BY <3>1, <3>4, <3>5, Zenon DEF LocalInv, Prepares, PrePrepares, NewViews
  <2> QED  BY <2>1, <2>2 DEF Inv
<1>2. ASSUME Inv, Next PROVE Inv' /\ Forward
  <2>1. TypeOK'  BY <1>2, NextType DEF Inv
  <2>2. PICK i \in Correct : \E t \in Good(rep[i], i, msgs) : Finish(i, t)  BY <1>2, NextGood
  <2>3. PICK t \in Good(rep[i], i, msgs) : Finish(i, t)  BY <2>2
  <2>4. (\A j \in Correct : LocalInv(rep[j], j, msgs)') /\ Forward
    BY <1>2, <2>3, FinishGood
  <2> QED  BY <2>1, <2>4 DEF Inv
<1>3. ASSUME Inv, UNCHANGED vars PROVE Inv'
  <2>1. rep' = rep /\ msgs' = msgs /\ todo' = todo  BY <1>3 DEF vars
  <2>2. TypeOK'  BY <1>3, NextType DEF Inv
  <2>3. \A i \in Correct : LocalInv(rep'[i], i, msgs')  BY <1>3, <2>1 DEF Inv
  <2> QED  BY <2>2, <2>3 DEF Inv
<1> QED  BY <1>1, <1>2, <1>3

\* No two correct replicas hold prepared certificates for different requests of one view
\* and sequence number, whatever at most F faulty replicas send.
THEOREM PreparedSafe == Spec => []PreparedAgreement
BY InvStep, InvAgreement, PTL DEF Spec

\* No step takes a correct replica's view, low watermark or sequence number back.
THEOREM NeverBackSafe == Spec => NeverBack
<1>1. Spec => [][Forward]_vars  BY InvStep, PTL DEF Spec
<1> QED  BY <1>1 DEF NeverBack, Forward

=============================================================================
