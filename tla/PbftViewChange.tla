---------------------------- MODULE PbftViewChange ----------------------------
(***************************************************************************)
(* consensus/obcpbft/viewchange.go, and the checkpoint handlers of         *)
(* pbft-core.go, which end in processNewView.  Operators that Go's map     *)
(* iteration or a nested resubmitRequests makes nondeterministic give the  *)
(* set of states they may leave.                                           *)
(***************************************************************************)
EXTENDS PbftReplica

\* Views are unbounded in the code; the model stops at this one.
CONSTANT MaxView

ASSUME MaxViewAssumption == MaxView \in Nat

-----------------------------------------------------------------------------
(* Choosing the new view's starting checkpoint and its requests. *)

correctViewChange(m) ==
    /\ \A p \in m.P \cup m.Q : p.v < m.v /\ p.n > m.h /\ p.n <= m.h + L
    /\ \A c \in m.C : c.n >= m.h /\ c.n <= m.h + L

\* The checkpoints the code may return: a highest one among those with a weak
\* certificate and a quorum, counted among the messages that hold it.
selectInitialCheckpoint(V) ==
    LET holders(c) == {m \in V : c \in m.C}
        good == {c \in UNION {m.C : m \in V} :
                   /\ Cardinality(holders(c)) > F
                   /\ Cardinality({m \in holders(c) : m.h <= c.n}) >= intersectionQuorum}
    IN  {c \in good : \A b \in good : b.n <= c.n}

\* em need not be an entry for n: the code does not compare its sequence number.
conditionA1(V, em, n) ==
    Cardinality({m \in V :
        /\ m.h < n
        /\ \A e \in m.P : e.n = n => e.v < em.v \/ (e.v = em.v /\ e.d = em.d)})
      >= intersectionQuorum

\* Entries are counted, not messages.
conditionA2(V, em, n) ==
    Cardinality({x \in V \X UNION {m.Q : m \in V} :
        x[2] \in x[1].Q /\ x[2].n = n /\ x[2].v >= em.v /\ x[2].d = em.d}) >= F + 1

candidates(V, n) ==
    {em.d : em \in {e \in UNION {m.P : m \in V} : conditionA1(V, e, n) /\ conditionA2(V, e, n)}}

nullable(V, n) ==
    Cardinality({m \in V : \A e \in m.P : e.n # n}) >= intersectionQuorum

\* The message lists the code may return; none when some number can get neither
\* a request nor the null request.  Null requests above the last request go,
\* but h + 1 always stays.
assignSequenceNumbers(V, h) ==
    LET real == {n \in h + 1 .. h + L : candidates(V, n) # {}}
        choices(n) == IF n \in real THEN candidates(V, n) ELSE {Null}
        last == {n \in real \cup {h + 1} : \A k \in real : k <= n}
        lists(maxN) == {f \in [h + 1 .. maxN -> UNION {choices(n) : n \in h + 1 .. maxN}] :
                          \A n \in h + 1 .. maxN : f[n] \in choices(n)}
    IN  IF \E n \in h + 1 .. h + L : n \notin real /\ ~nullable(V, n) THEN {}
        ELSE UNION {{{[n |-> n, d |-> f[n]] : n \in h + 1 .. maxN} : f \in lists(maxN)} :
                      maxN \in last}

-----------------------------------------------------------------------------
(* Sending a view-change. *)

\* Leaves out what was prepared in the view that ends.
newPForgetful(s) == s.pset

\* P and Q gain the requests prepared and pre-prepared here, unless a later view's
\* entry is there already; pset is keyed by n, qset by (d, n).
newP(s) ==
    LET new == {[n |-> p.n, d |-> p.d, v |-> p.v] : p \in
                  {q \in s.pp : /\ prepared(s, q.d, q.v, q.n)
                                /\ \A e \in s.pset : e.n = q.n => e.v <= q.v}}
    IN  {e \in s.pset : \A p \in new : p.n # e.n} \cup new

newQ(s) ==
    LET new == {[n |-> p.n, d |-> p.d, v |-> p.v] : p \in
                  {q \in s.pp : /\ prePrepared(s, q.d, q.v, q.n)
                                /\ \A e \in s.qset : e.n = q.n /\ e.d = q.d => e.v <= q.v}}
    IN  {e \in s.qset : \A p \in new : p.n # e.n \/ p.d # e.d} \cup new

\* The instance also receives its own view-change before it releases the lock.
\* The call is the last thing sendViewChange does, and can lead to
\* sendViewChange again: it is left in ownVC, which the instance handles next.
sendViewChange(s, me) ==
    LET v == s.view + 1
        sP == [s EXCEPT !.pset = newP(s)]
        sQ == [sP EXCEPT !.qset = newQ(sP)]
        vc == [type |-> "viewChange", v |-> v, h |-> s.h, C |-> s.chkpts,
               P |-> sQ.pset, Q |-> sQ.qset, i |-> me]
        keep(S) == {x \in S : x.v >= v}
    IN  IF v > MaxView THEN {} ELSE
        {[sQ EXCEPT !.timerActive = FALSE,
                    !.newViewStore = {nv \in @ : nv.v # s.view},
                    !.view = v,
                    !.activeView = FALSE,
                    !.pp = keep(@), !.prep = keep(@), !.com = keep(@),
                    !.sentP = keep(@), !.sentC = keep(@),
                    !.viewChangeStore = keep(@),
                    !.ownVC = {vc},
                    !.snd = @ \cup {vc}]}

-----------------------------------------------------------------------------
(* Entering the new view. *)

processNewView2(s, me, nv) ==
    LET new == {[v |-> s.view, n |-> x.n, d |-> x.d] : x \in nv.X}
        top == {n \in {s.seqNo} \cup {x.n : x \in nv.X} :
                  n >= s.seqNo /\ \A x \in nv.X : n >= x.n}
        enter(n) == [s EXCEPT !.activeView = TRUE,
                              !.newViewStore = {m \in @ : m.v + 1 # s.view},
                              !.pp = {p \in @ : \A q \in new : p.v # q.v \/ p.n # q.n} \cup new,
                              !.seqNo = n]
    IN  IF primary(s.view) = me THEN UNION {resubmitRequests(enter(n), me) : n \in top}
        \* its own prepare is already in the certificate, so receiving it is ignored
        ELSE {[enter(n) EXCEPT
                 !.prep = @ \cup {[v |-> p.v, n |-> p.n, d |-> p.d, i |-> me] : p \in new},
                 !.sentP = @ \cup {[v |-> p.v, n |-> p.n] : p \in new},
                 !.snd = @ \cup {message("prepare", p, me) : p \in new}] : n \in top}

\* consumer.skipTo, which the lock is held for.  The executor drops what it has
\* queued, and the call returns once its thread takes the number as a target to
\* fetch, with a Checkpoint call to follow.  The thread ignores a number it has
\* executed already, and never gets there if it waits for the lock in
\* Checkpoint: then the call does not return.
skipTo(s, n, id) ==
    LET passed == IF s.ckq = <<>> THEN K * (s.lastExec \div K) ELSE Head(s.ckq).at - K
    IN  {t \in {[s EXCEPT !.app = id, !.ckq = <<[at |-> n, n |-> n, id |-> id]>>]} : n > passed}
          \cup {t \in {[s EXCEPT !.hung = TRUE]} : n <= s.lastExec \/ s.ckq # <<>>}

\* The null request counts as missing.
acceptNewViewFetchNull(s, me, nv, cp) ==
    UNION {IF t.hung THEN {t} ELSE
           LET need == {x.d : x \in {y \in nv.X : y.n > t.h}} \ t.reqStore
               missing == t.missingReqs \cup need
               t1 == [t EXCEPT !.missingReqs = missing]
           IN  IF missing = {} THEN processNewView2(t, me, nv)
               ELSE IF need \subseteq t.missingReqs THEN {t}
               ELSE {[t1 EXCEPT !.snd = @ \cup {[type |-> "fetchRequest", d |-> d, i |-> me] :
                                                   d \in missing}]}
           : t \in IF s.h < cp.n
                   THEN {IF u.hung THEN u ELSE [u EXCEPT !.lastExec = cp.n] :
                           u \in UNION {skipTo(w, cp.n, cp.id) : w \in moveWatermarks(s, me, cp.n)}}
                   ELSE {s}}

acceptNewView(s, me, nv, cp) ==
    UNION {IF t.hung THEN {t} ELSE
           LET need == {x.d : x \in {y \in nv.X : y.n > t.h /\ y.d # Null}} \ t.reqStore
               missing == t.missingReqs \cup need
               t1 == [t EXCEPT !.missingReqs = missing]
           IN  IF missing = {} THEN processNewView2(t, me, nv)
               ELSE IF need \subseteq t.missingReqs THEN {t}
               ELSE {[t1 EXCEPT !.snd = @ \cup {[type |-> "fetchRequest", d |-> d, i |-> me] :
                                                   d \in missing}]}
           : t \in IF s.h < cp.n
                   THEN {IF u.hung THEN u ELSE [u EXCEPT !.lastExec = cp.n] :
                           u \in UNION {skipTo(w, cp.n, cp.id) : w \in moveWatermarks(s, me, cp.n)}}
                   ELSE {s}}

processNewView(s, me) ==
    LET nvs == {nv \in s.newViewStore : nv.v = s.view}
    IN  IF nvs = {} \/ s.activeView THEN {s} ELSE
        UNION {LET cps == selectInitialCheckpoint(nv.V)
               IN  IF cps = {} THEN sendViewChange(s, me) ELSE
                   UNION {IF nv.X \in assignSequenceNumbers(nv.V, cp.n)
                          THEN acceptNewView(s, me, nv, cp)
                          ELSE sendViewChange(s, me) : cp \in cps}
               : nv \in nvs}

\* getViewChanges takes every stored view-change, those for later views included.
sendNewView(s, me) ==
    LET V == s.viewChangeStore
        cps == selectInitialCheckpoint(V)
        nvs == {[type |-> "newView", v |-> s.view, V |-> V, X |-> X, i |-> me] :
                  X \in UNION {assignSequenceNumbers(V, cp.n) : cp \in cps}}
    IN  IF (\E nv \in s.newViewStore : nv.v = s.view) \/ nvs = {} THEN {s}
        ELSE UNION {processNewView([s EXCEPT !.newViewStore = @ \cup {nv},
                                             !.snd = @ \cup {nv}], me) : nv \in nvs}

recvNewView(s, me, m) ==
    IF \/ m.v = 0 \/ m.v < s.view \/ primary(m.v) # m.i
       \/ \E nv \in s.newViewStore : nv.v = m.v
    THEN {s}
    ELSE processNewView([s EXCEPT !.newViewStore = @ \cup {m}], me)

recvViewChange(s, me, m) ==
    LET s1 == [s EXCEPT !.viewChangeStore = @ \cup {m}]
        higher == {w \in s1.viewChangeStore : w.v > s.view}
        minView == {v \in {w.v : w \in higher} : \A w \in higher : v <= w.v}
        quorum == Cardinality({w \in s1.viewChangeStore : w.v = s.view})
    IN  IF \/ m.v < s.view \/ ~correctViewChange(m)
           \/ \E w \in s.viewChangeStore : w.v = m.v /\ w.i = m.i
        THEN {s}
        ELSE IF Cardinality({w.i : w \in higher}) >= F + 1
        \* minus one, because sendViewChange increments
        THEN UNION {sendViewChange([s1 EXCEPT !.view = v - 1], me) : v \in minView}
        ELSE IF m.v = s.view /\ quorum = allCorrectReplicasQuorum
        THEN LET s2 == [s1 EXCEPT !.timerActive = TRUE]
             IN  IF primary(s.view) = me THEN sendNewView(s2, me) ELSE processNewView(s2, me)
        ELSE processNewView(s1, me)

-----------------------------------------------------------------------------
(* Requests missing from the new view. *)

recvFetchRequest(s, me, m) ==
    IF m.d \in s.reqStore
    THEN {[s EXCEPT !.snd = @ \cup {[type |-> "returnRequest", d |-> m.d, i |-> me, to |-> m.i]}]}
    ELSE {s}

recvReturnRequest(s, me, m) ==
    IF m.d \notin s.missingReqs THEN {s}
    ELSE processNewView([s EXCEPT !.reqStore = @ \cup {m.d}, !.missingReqs = @ \ {m.d}], me)

-----------------------------------------------------------------------------
(* Checkpoints. *)

\* The (F+1)-th highest of the sequence numbers in hc, if there are as many: F+1
\* replicas claim it or more.
attested(hc) ==
    {n \in {x.n : x \in hc} : /\ Cardinality({x \in hc : x.n >= n}) >= F + 1
                              /\ Cardinality({x \in hc : x.n > n}) <= F}

\* weakCheckpointSetOutOfRange: what it leaves of hChkpts, and the numbers above
\* the high watermark that show that the instance has fallen behind.
weakCheckpointSet(s, m) ==
    LET H == s.h + L
        others == {x \in s.hChkpts : x.i # m.i}
        hc == others \cup {[i |-> m.i, n |-> m.n]}
    IN  IF m.n < H THEN [hChkpts |-> others, ahead |-> {}]
        ELSE IF Cardinality(hc) < F + 1 THEN [hChkpts |-> hc, ahead |-> {}]
        ELSE [hChkpts |-> {x \in hc : x.n >= H}, ahead |-> {n \in attested(hc) : n > H}]

\* Goes on from the checkpoint without fetching its state.
witnessCheckpointWeakCertNoSkip(s, me, m) ==
    IF s.skipInProgress
    THEN {[t EXCEPT !.lastExec = m.n] :
            t \in moveWatermarks([s EXCEPT !.skipInProgress = FALSE], me, m.n)}
    ELSE {s}

witnessCheckpointWeakCert(s, me, m) ==
    IF s.skipInProgress
    THEN UNION {{[u EXCEPT !.lastExec = m.n] : u \in skipTo(t, m.n, m.id)} :
                  t \in moveWatermarks([s EXCEPT !.skipInProgress = FALSE], me, m.n)}
    ELSE {s}    \* consumer.validState is only a hint to a running state transfer

recvCheckpoint(s, me, m) ==
    LET far == weakCheckpointSet(s, m)
        s1 == [s EXCEPT !.hChkpts = far.hChkpts]
        s2 == [s1 EXCEPT !.checkpointStore = @ \cup {[n |-> m.n, id |-> m.id, i |-> m.i]}]
        matching == Cardinality({x \in s2.checkpointStore : x.n = m.n /\ x.id = m.id})
        s3 == IF matching = F + 1 THEN witnessCheckpointWeakCert(s2, me, m) ELSE {s2}
    IN  IF far.ahead # {}
        THEN UNION {{[t EXCEPT !.skipInProgress = TRUE] :
                       t \in moveWatermarks([s1 EXCEPT !.reqStore = {}], me, n)} : n \in far.ahead}
        ELSE IF ~inW(s, m.n) THEN {s1}
        ELSE IF matching < intersectionQuorum THEN s3
        ELSE UNION {IF ~t.hung /\ \E x \in t.chkpts : x.n = m.n
                    THEN UNION {processNewView(u, me) : u \in moveWatermarks(t, me, m.n)}
                    ELSE {t} : t \in s3}

\* The executor's call of Checkpoint(c.n, c.id).  It is filed under lastExec.
checkpoint(s, me, c) ==
    LET m == [type |-> "checkpoint", n |-> s.lastExec, id |-> c.id, i |-> me]
    IN  IF c.n % K # 0 THEN {s}
        ELSE recvCheckpoint(
               [s EXCEPT !.chkpts = {x \in @ : x.n # s.lastExec} \cup {[n |-> m.n, id |-> m.id]},
                         !.snd = @ \cup {m}], me, m)

=============================================================================
