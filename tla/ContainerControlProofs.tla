---------------------- MODULE ContainerControlProofs ----------------------
(***************************************************************************)
(* Proofs about ContainerControl: the reference counted locks exclude, and *)
(* are dropped with their last user, for any number of requests and        *)
(* containers and whatever docker does.                                    *)
(***************************************************************************)
EXTENDS ContainerControl, FiniteSetTheorems, TLAPS

WorkPcs == {"build", "cleanup", "cleanup-kill", "cleanup-remove", "create", "start",
            "stop", "stop-kill", "stop-remove", "unlock"}

Uses(r) == vmc[r].pc \notin {"new", "done"}
UsersOf(id) == {r \in Reqs : ReqOf[r].id = id /\ Uses(r)}

VmcTyped ==
  /\ containerLocks \in [ContainerIds -> [refCount : Nat, lock : Nat]]
  /\ lockHeld \in Seq(BOOLEAN)
  /\ vmc \in [Reqs -> [pc : WorkPcs \cup {"new", "waits", "done"}, lock : Nat, err : BOOLEAN]]

\* The count is the number of users.
CountInv == \A id \in ContainerIds : containerLocks[id].refCount = Cardinality(UsersOf(id))

\* The table of locks: an entry has a lock of its own, which all users of
\* the container hold on to.
TableInv ==
  /\ \A id \in ContainerIds : containerLocks[id] # NoLock => containerLocks[id].lock \in 1 .. Len(lockHeld)
  /\ \A id, jd \in ContainerIds :
       id # jd /\ containerLocks[id] # NoLock /\ containerLocks[jd] # NoLock
         => containerLocks[id].lock # containerLocks[jd].lock
  /\ \A r \in Reqs : Uses(r) => /\ containerLocks[ReqOf[r].id] # NoLock
                                /\ vmc[r].lock = containerLocks[ReqOf[r].id].lock

\* Whoever works holds the lock, alone.
HeldInv ==
  /\ \A r \in Reqs : Working(r) => lockHeld[vmc[r].lock] = TRUE
  /\ \A r, s \in Reqs : r # s /\ Working(r) /\ Working(s) => vmc[r].lock # vmc[s].lock

ContainerInv == VmcTyped /\ CountInv /\ TableInv /\ HeldInv

\* The users of a container are finitely many, since the requests are.
LEMMA UsersFinite ==
  ASSUME NEW id PROVE IsFiniteSet(UsersOf(id)) /\ Cardinality(UsersOf(id)) \in Nat
<1>1. UsersOf(id) \subseteq Reqs BY DEF UsersOf
<1> QED BY <1>1, ContainerAssumption, FS_Subset, FS_CardinalityType

\* A new lock object is not locked, and the lock objects stay Booleans.
LEMMA NewLock == ASSUME NEW S, NEW s \in Seq(S), NEW e \in S PROVE Append(s, e) \in Seq(S)
  OBVIOUS

\* Before the first request there is no lock.
LEMMA ContainerInitInv == ContainerInit => ContainerInv
<1> SUFFICES ASSUME ContainerInit PROVE ContainerInv OBVIOUS
<1>1. \A r \in Reqs : vmc[r].pc = "new" BY DEF ContainerInit
<1>2. VmcTyped BY DEF ContainerInit, VmcTyped, NoLock
<1>3. CountInv
  <2>1. \A id \in ContainerIds : UsersOf(id) = {} BY <1>1 DEF UsersOf, Uses
  <2> QED BY <2>1, FS_EmptySet DEF CountInv, ContainerInit, NoLock
<1>4. TableInv BY <1>1 DEF ContainerInit, TableInv, Uses
<1>5. HeldInv BY <1>1 DEF HeldInv, Working
<1> QED BY <1>2, <1>3, <1>4, <1>5 DEF ContainerInv

\* A step in which one goroutine goes from work to work and the locks stay,
\* as all calls of docker are, keeps the invariant.
LEMMA WorkKeeps ==
  ASSUME ContainerInv, NEW r \in Reqs, vmc[r].pc \in WorkPcs,
         NEW p \in WorkPcs, NEW e \in BOOLEAN,
         vmc' = [vmc EXCEPT ![r] = [pc |-> p, lock |-> vmc[r].lock, err |-> e]],
         UNCHANGED <<containerLocks, lockHeld>>
  PROVE  ContainerInv'
<1> USE DEF ContainerInv
<1>1. vmc'[r] = [pc |-> p, lock |-> vmc[r].lock, err |-> e] /\ \A s \in Reqs : s # r => vmc'[s] = vmc[s]
  BY DEF VmcTyped
<1>2. \A s \in Reqs : vmc'[s].lock = vmc[s].lock /\ Uses(s)' = Uses(s) /\ Working(s)' = Working(s)
  BY <1>1 DEF Uses, Working, WorkPcs
<1>3. VmcTyped' BY DEF VmcTyped
<1>4. CountInv'
  <2>1. \A id \in ContainerIds : UsersOf(id)' = UsersOf(id) BY <1>2 DEF UsersOf
  <2> QED BY <2>1 DEF CountInv
<1>5. TableInv' BY <1>2 DEF TableInv
<1>6. HeldInv' BY <1>2 DEF HeldInv
<1> QED BY <1>3, <1>4, <1>5, <1>6

\* So does any call of docker, whether it succeeds or fails.
LEMMA DockerKeeps ==
  ASSUME ContainerInv, NEW r \in Reqs, NEW pc \in WorkPcs, NEW can, NEW d,
         NEW then \in WorkPcs, NEW onError \in WorkPcs,
         DockerCall(r, pc, can, d, then, onError)
  PROVE  ContainerInv'
<1>1. vmc[r] \in [pc : WorkPcs \cup {"new", "waits", "done"}, lock : Nat, err : BOOLEAN]
  BY DEF ContainerInv, VmcTyped
<1>2. PICK p \in WorkPcs, e \in BOOLEAN :
        vmc' = [vmc EXCEPT ![r] = [pc |-> p, lock |-> vmc[r].lock, err |-> e]]
  <2>1. CASE vmc' = [vmc EXCEPT ![r].pc = then]
    <3>0. [vmc[r] EXCEPT !.pc = then] = [pc |-> then, lock |-> vmc[r].lock, err |-> vmc[r].err] BY <1>1
    <3>1. vmc' = [vmc EXCEPT ![r] = [pc |-> then, lock |-> vmc[r].lock, err |-> vmc[r].err]] BY <3>0, <2>1
    <3> QED BY <3>1, <1>1
  <2>2. CASE vmc' = [vmc EXCEPT ![r] = [pc |-> onError, lock |-> @.lock, err |-> onError = "unlock"]]
    BY <2>2
  <2> QED BY <2>1, <2>2 DEF DockerCall
<1>3. vmc[r].pc \in WorkPcs /\ UNCHANGED <<containerLocks, lockHeld>> BY DEF DockerCall
<1> QED BY <1>2, <1>3, WorkKeeps

\* lockContainer: a new user, with the lock that the others use or with one
\* that nobody has.
LEMMA LockKeeps ==
  ASSUME ContainerInv, NEW r \in Reqs, lockContainer(r)
  PROVE  ContainerInv'
<1> DEFINE id == ReqOf[r].id
           have == containerLocks[id] # NoLock
           l == IF have THEN containerLocks[id].lock ELSE Len(lockHeld) + 1
<1> USE DEF ContainerInv
<1>0. id \in ContainerIds BY DEF ContainerIds
<1>1. vmc[r].pc = "new" BY DEF lockContainer
<1>2. containerLocks' = [containerLocks EXCEPT ![id] = [refCount |-> containerLocks[id].refCount + 1, lock |-> l]]
  BY DEF lockContainer
<1>3. lockHeld' = IF have THEN lockHeld ELSE Append(lockHeld, FALSE) BY DEF lockContainer
<1>4. vmc' = [vmc EXCEPT ![r] = [vmc[r] EXCEPT !.pc = "waits", !.lock = l]] BY DEF lockContainer
<1>5. l \in Nat /\ l \in 1 .. Len(lockHeld') BY <1>0, <1>3 DEF VmcTyped, TableInv
<1>6. \A i \in 1 .. Len(lockHeld) : i \in 1 .. Len(lockHeld') /\ lockHeld'[i] = lockHeld[i] BY <1>3 DEF VmcTyped
<1>7. containerLocks[id].refCount \in Nat BY <1>0 DEF VmcTyped
<1>8. containerLocks'[id] = [refCount |-> containerLocks[id].refCount + 1, lock |-> l]
      /\ \A jd \in ContainerIds : jd # id => containerLocks'[jd] = containerLocks[jd]
  BY <1>0, <1>2 DEF VmcTyped
<1>9. vmc'[r].pc = "waits" /\ vmc'[r].lock = l /\ \A s \in Reqs : s # r => vmc'[s] = vmc[s]
  BY <1>4 DEF VmcTyped
<1>10. VmcTyped'
  <2>1. containerLocks' \in [ContainerIds -> [refCount : Nat, lock : Nat]]
    BY <1>0, <1>2, <1>5, <1>7 DEF VmcTyped
  <2>2. lockHeld' \in Seq(BOOLEAN)
    <3>1. lockHeld \in Seq(BOOLEAN) /\ FALSE \in BOOLEAN BY DEF VmcTyped
    <3>2. Append(lockHeld, FALSE) \in Seq(BOOLEAN) BY <3>1, NewLock, Zenon
    <3> QED BY <3>1, <3>2, <1>3, Zenon
  <2>3. vmc' \in [Reqs -> [pc : WorkPcs \cup {"new", "waits", "done"}, lock : Nat, err : BOOLEAN]]
    BY <1>4, <1>5 DEF VmcTyped
  <2> QED BY <2>1, <2>2, <2>3 DEF VmcTyped
<1>11. containerLocks'[id] # NoLock BY <1>5, <1>8 DEF NoLock
<1> HIDE DEF l, have
<1>12. CountInv'
  <2>1. UsersOf(id)' = UsersOf(id) \cup {r} /\ r \notin UsersOf(id) BY <1>1, <1>9 DEF UsersOf, Uses
  <2>2. Cardinality(UsersOf(id)') = Cardinality(UsersOf(id)) + 1 BY <2>1, UsersFinite, FS_AddElement
  <2>3. \A jd \in ContainerIds : jd # id => UsersOf(jd)' = UsersOf(jd) BY <1>9 DEF UsersOf, Uses
  <2> QED BY <1>0, <1>8, <2>2, <2>3 DEF CountInv
<1>13. TableInv'
  <2>1. ASSUME NEW jd \in ContainerIds, containerLocks'[jd] # NoLock
        PROVE  containerLocks'[jd].lock \in 1 .. Len(lockHeld')
    BY <2>1, <1>5, <1>6, <1>8 DEF TableInv
  <2>2. ASSUME NEW jd \in ContainerIds, jd # id, containerLocks'[jd] # NoLock
        PROVE  containerLocks'[jd].lock # l
    <3>1. containerLocks[jd] # NoLock /\ containerLocks'[jd] = containerLocks[jd] BY <2>2, <1>8
    <3>2. CASE have BY <3>1, <3>2, <2>2, <1>0 DEF TableInv, have, l
    <3>3. CASE ~have
      <4>1. l = Len(lockHeld) + 1 /\ Len(lockHeld) \in Nat BY <3>3 DEF l, VmcTyped
      <4>2. containerLocks[jd].lock \in 1 .. Len(lockHeld) BY <3>1 DEF TableInv
      <4> QED BY <3>1, <4>1, <4>2
    <3> QED BY <3>2, <3>3
  <2>3. ASSUME NEW jd \in ContainerIds, NEW kd \in ContainerIds, jd # kd,
               containerLocks'[jd] # NoLock, containerLocks'[kd] # NoLock
        PROVE  containerLocks'[jd].lock # containerLocks'[kd].lock
    <3>1. CASE jd = id BY <3>1, <2>2, <2>3, <1>8
    <3>2. CASE kd = id BY <3>2, <2>2, <2>3, <1>8
    <3>3. CASE jd # id /\ kd # id BY <3>3, <2>3, <1>8 DEF TableInv
    <3> QED BY <3>1, <3>2, <3>3
  <2>4. ASSUME NEW s \in Reqs, Uses(s)'
        PROVE  containerLocks'[ReqOf[s].id] # NoLock /\ vmc'[s].lock = containerLocks'[ReqOf[s].id].lock
    <3>0. ReqOf[s].id \in ContainerIds BY DEF ContainerIds
    <3>1. CASE s = r BY <3>1, <1>8, <1>9, <1>11
    <3>2. CASE s # r
      <4>1. Uses(s) /\ vmc'[s] = vmc[s] BY <2>4, <3>2, <1>9 DEF Uses
      <4>2. containerLocks[ReqOf[s].id] # NoLock /\ vmc[s].lock = containerLocks[ReqOf[s].id].lock
        BY <4>1 DEF TableInv
      <4>3. CASE ReqOf[s].id = id BY <4>1, <4>2, <4>3, <1>8, <1>11 DEF have, l
      <4>4. CASE ReqOf[s].id # id BY <3>0, <4>1, <4>2, <4>4, <1>8
      <4> QED BY <4>3, <4>4
    <3> QED BY <3>1, <3>2
  <2> QED BY <2>1, <2>3, <2>4 DEF TableInv
<1>14. HeldInv'
  <2>1. \A s \in Reqs : Working(s)' => s # r /\ Working(s) /\ vmc'[s] = vmc[s] BY <1>9 DEF Working
  <2>2. \A s \in Reqs : Working(s) => vmc[s].lock \in 1 .. Len(lockHeld)
    BY DEF Working, Uses, TableInv, ContainerIds
  <2> QED BY <2>1, <2>2, <1>6 DEF HeldInv
<1> QED BY <1>10, <1>12, <1>13, <1>14

\* The goroutine gets the lock only when nobody works under it.
LEMMA GotKeeps ==
  ASSUME ContainerInv, NEW r \in Reqs, GotLock(r)
  PROVE  ContainerInv'
<1> USE DEF ContainerInv
<1>1. vmc[r].pc = "waits" /\ ~lockHeld[vmc[r].lock] BY DEF GotLock
<1>2. FirstCall(r) \in WorkPcs BY DEF FirstCall, WorkPcs
<1>3. vmc'[r].pc = FirstCall(r) /\ vmc'[r].lock = vmc[r].lock /\ \A s \in Reqs : s # r => vmc'[s] = vmc[s]
  BY DEF GotLock, VmcTyped
<1>4. vmc[r].lock \in 1 .. Len(lockHeld) BY <1>1 DEF TableInv, Uses, ContainerIds
<1>5. lockHeld' = [lockHeld EXCEPT ![vmc[r].lock] = TRUE] /\ UNCHANGED containerLocks BY DEF GotLock
<1>6. Len(lockHeld') = Len(lockHeld) /\ lockHeld'[vmc[r].lock] = TRUE
      /\ \A i \in 1 .. Len(lockHeld) : i # vmc[r].lock => lockHeld'[i] = lockHeld[i]
  BY <1>4, <1>5 DEF VmcTyped
<1>7. \A s \in Reqs : vmc'[s].lock = vmc[s].lock /\ Uses(s)' = Uses(s)
  BY <1>1, <1>2, <1>3 DEF Uses, WorkPcs
<1>8. VmcTyped'
  <2>1. lockHeld' \in Seq(BOOLEAN) BY <1>4, <1>5 DEF VmcTyped
  <2>2. vmc' \in [Reqs -> [pc : WorkPcs \cup {"new", "waits", "done"}, lock : Nat, err : BOOLEAN]]
    BY <1>2 DEF VmcTyped, GotLock
  <2> QED BY <2>1, <2>2, <1>5 DEF VmcTyped
<1>9. CountInv'
  <2>1. \A id \in ContainerIds : UsersOf(id)' = UsersOf(id) BY <1>7 DEF UsersOf
  <2> QED BY <2>1, <1>5 DEF CountInv
<1>10. TableInv' BY <1>5, <1>6, <1>7 DEF TableInv
<1>11. HeldInv'
  <2>1. \A s \in Reqs : s # r /\ Working(s)' => Working(s) /\ vmc[s].lock # vmc[r].lock
                                                /\ vmc[s].lock \in 1 .. Len(lockHeld)
    BY <1>1, <1>3 DEF Working, HeldInv, TableInv, Uses, ContainerIds
  <2>2. \A s \in Reqs : Working(s)' => lockHeld'[vmc'[s].lock] = TRUE
    BY <2>1, <1>6, <1>7 DEF HeldInv
  <2>3. \A s, t \in Reqs : s # t /\ Working(s)' /\ Working(t)' => vmc'[s].lock # vmc'[t].lock
    BY <2>1, <1>7 DEF HeldInv
  <2> QED BY <2>2, <2>3 DEF HeldInv
<1> QED BY <1>8, <1>9, <1>10, <1>11

\* unlockContainer: the entry goes with its last user, and nobody else
\* worked under the lock that is released.
LEMMA UnlockKeeps ==
  ASSUME ContainerInv, NEW r \in Reqs, unlockContainer(r)
  PROVE  ContainerInv'
<1> DEFINE id == ReqOf[r].id
           l == containerLocks[id]
<1> USE DEF ContainerInv
<1>0. id \in ContainerIds BY DEF ContainerIds
<1>1. vmc[r].pc = "unlock" BY DEF unlockContainer
<1>2. l # NoLock /\ vmc[r].lock = l.lock /\ l.lock \in 1 .. Len(lockHeld) BY <1>0, <1>1 DEF TableInv, Uses
<1>3. containerLocks' = [containerLocks EXCEPT ![id] = IF l.refCount = 1 THEN NoLock ELSE [l EXCEPT !.refCount = @ - 1]]
  BY DEF unlockContainer
<1>4. lockHeld' = [lockHeld EXCEPT ![l.lock] = FALSE] BY <1>2 DEF unlockContainer
<1>5. vmc' = [vmc EXCEPT ![r].pc = "done"] BY DEF unlockContainer
<1>6. vmc'[r].pc = "done" /\ \A s \in Reqs : s # r => vmc'[s] = vmc[s] BY <1>5 DEF VmcTyped
<1>7. \A jd \in ContainerIds : jd # id => containerLocks'[jd] = containerLocks[jd] BY <1>3 DEF VmcTyped
<1>8. Len(lockHeld') = Len(lockHeld) /\ \A i \in 1 .. Len(lockHeld) : i # l.lock => lockHeld'[i] = lockHeld[i]
  BY <1>2, <1>4 DEF VmcTyped
<1>9. l \in [refCount : Nat, lock : Nat] /\ l.refCount = Cardinality(UsersOf(id)) BY <1>0 DEF VmcTyped, CountInv
<1>10. r \in UsersOf(id) /\ UsersOf(id)' = UsersOf(id) \ {r} BY <1>1, <1>6 DEF UsersOf, Uses
<1>11. Cardinality(UsersOf(id)') = l.refCount - 1 /\ IsFiniteSet(UsersOf(id)') /\ l.refCount - 1 \in Nat
  <2>1. IsFiniteSet(UsersOf(id)) BY UsersFinite
  <2>2. IsFiniteSet(UsersOf(id)') /\ Cardinality(UsersOf(id)') = Cardinality(UsersOf(id)) - 1
    BY <1>10, <2>1, FS_RemoveElement
  <2>3. Cardinality(UsersOf(id)') \in Nat BY <2>2, FS_CardinalityType
  <2> QED BY <1>9, <2>2, <2>3
<1>12. l.refCount = 1 => UsersOf(id)' = {} BY <1>11, FS_EmptySet
<1>13. /\ containerLocks'[id] = IF l.refCount = 1 THEN NoLock ELSE [l EXCEPT !.refCount = @ - 1]
       /\ containerLocks'[id] \in [refCount : Nat, lock : Nat]
       /\ containerLocks'[id].refCount = l.refCount - 1
       /\ l.refCount # 1 => containerLocks'[id].lock = l.lock
  <2>1. containerLocks'[id] = IF l.refCount = 1 THEN NoLock ELSE [l EXCEPT !.refCount = @ - 1]
    BY <1>0, <1>3 DEF VmcTyped
  <2>2. [l EXCEPT !.refCount = @ - 1] = [refCount |-> l.refCount - 1, lock |-> l.lock] BY <1>9
  <2>3. NoLock \in [refCount : Nat, lock : Nat] /\ NoLock.refCount = 0 BY DEF NoLock
  <2> HIDE DEF l
  <2> QED BY <1>9, <1>11, <2>1, <2>2, <2>3
<1>14. l.refCount # 1 => containerLocks'[id] # NoLock
  <2>1. l.lock # 0 BY <1>2
  <2> QED BY <1>13, <2>1 DEF NoLock
<1>15. VmcTyped'
  <2>1. containerLocks' \in [ContainerIds -> [refCount : Nat, lock : Nat]]
    BY <1>0, <1>3, <1>13 DEF VmcTyped
  <2>2. lockHeld' \in Seq(BOOLEAN) BY <1>2, <1>4 DEF VmcTyped
  <2>3. vmc' \in [Reqs -> [pc : WorkPcs \cup {"new", "waits", "done"}, lock : Nat, err : BOOLEAN]]
    BY <1>5 DEF VmcTyped
  <2> QED BY <2>1, <2>2, <2>3 DEF VmcTyped
<1> HIDE DEF l
<1>16. CountInv'
  <2>1. \A jd \in ContainerIds : jd # id => UsersOf(jd)' = UsersOf(jd) BY <1>6 DEF UsersOf, Uses
  <2> QED BY <1>0, <1>7, <1>11, <1>13, <2>1 DEF CountInv
<1>17. TableInv'
  <2>0. \A jd \in ContainerIds : containerLocks'[jd] # NoLock =>
           containerLocks[jd] # NoLock /\ containerLocks'[jd].lock = containerLocks[jd].lock
    BY <1>2, <1>7, <1>13 DEF l
  <2>1. ASSUME NEW s \in Reqs, Uses(s)'
        PROVE  containerLocks'[ReqOf[s].id] # NoLock /\ vmc'[s].lock = containerLocks'[ReqOf[s].id].lock
    <3>0. ReqOf[s].id \in ContainerIds BY DEF ContainerIds
    <3>1. s # r /\ Uses(s) /\ vmc'[s] = vmc[s] BY <2>1, <1>6 DEF Uses
    <3>2. containerLocks[ReqOf[s].id] # NoLock /\ vmc[s].lock = containerLocks[ReqOf[s].id].lock
      BY <3>1 DEF TableInv
    <3>3. CASE ReqOf[s].id = id
      <4>1. s \in UsersOf(id)' BY <2>1, <3>3 DEF UsersOf
      <4> QED BY <4>1, <1>12, <1>13, <1>14, <3>1, <3>2, <3>3 DEF l
    <3>4. CASE ReqOf[s].id # id BY <3>0, <3>1, <3>2, <3>4, <1>7
    <3> QED BY <3>3, <3>4
  <2>2. \A jd \in ContainerIds : containerLocks'[jd] # NoLock => containerLocks'[jd].lock \in 1 .. Len(lockHeld')
    BY <2>0, <1>8 DEF TableInv
  <2>3. \A jd, kd \in ContainerIds :
          jd # kd /\ containerLocks'[jd] # NoLock /\ containerLocks'[kd] # NoLock
            => containerLocks'[jd].lock # containerLocks'[kd].lock
    BY <2>0 DEF TableInv
  <2> QED BY <2>1, <2>2, <2>3 DEF TableInv
<1>18. HeldInv'
  <2>1. Working(r) BY <1>1 DEF Working
  <2>2. \A s \in Reqs : Working(s)' => /\ s # r /\ Working(s) /\ vmc'[s] = vmc[s]
                                       /\ vmc[s].lock # l.lock /\ vmc[s].lock \in 1 .. Len(lockHeld)
    BY <1>2, <1>6, <2>1 DEF Working, HeldInv, TableInv, Uses, ContainerIds
  <2>3. \A s \in Reqs : Working(s)' => lockHeld'[vmc'[s].lock] = TRUE BY <2>2, <1>8 DEF HeldInv
  <2>4. \A s, t \in Reqs : s # t /\ Working(s)' /\ Working(t)' => vmc'[s].lock # vmc'[t].lock
    BY <2>2 DEF HeldInv
  <2> QED BY <2>3, <2>4 DEF HeldInv
<1> QED BY <1>15, <1>16, <1>17, <1>18

\* Every step keeps the invariant.
LEMMA ContainerNextInv == ContainerInv /\ [ContainerNext]_containerVars => ContainerInv'
<1> SUFFICES ASSUME ContainerInv, [ContainerNext]_containerVars PROVE ContainerInv' OBVIOUS
<1>1. ASSUME NEW r \in Reqs, lockContainer(r) \/ VmcStep(r) \/ VMCProcess(r) PROVE ContainerInv'
  <2>1. CASE lockContainer(r) BY <2>1, LockKeeps
  <2>2. CASE GotLock(r) BY <2>2, GotKeeps
  <2>3. CASE build(r) BY <2>3, DockerKeeps DEF build, WorkPcs
  <2>4. ASSUME NEW pcs \in Seq(WorkPcs), Len(pcs) = 3, NEW end \in WorkPcs, stopInternal(r, pcs, end)
        PROVE  ContainerInv'
    <3>1. pcs[1] \in WorkPcs /\ pcs[2] \in WorkPcs /\ pcs[3] \in WorkPcs BY <2>4
    <3> QED BY <2>4, <3>1, DockerKeeps DEF stopInternal
  <2>5. CASE start(r)
    <3>1. CASE stopInternal(r, <<"cleanup", "cleanup-kill", "cleanup-remove">>, "create")
      <4>1. <<"cleanup", "cleanup-kill", "cleanup-remove">> \in Seq(WorkPcs)
            /\ Len(<<"cleanup", "cleanup-kill", "cleanup-remove">>) = 3 /\ "create" \in WorkPcs
        BY DEF WorkPcs
      <4> QED BY <3>1, <4>1, <2>4
    <3>2. CASE createContainer(r) BY <3>2, DockerKeeps DEF createContainer, WorkPcs
    <3>3. CASE DockerCall(r, "start", Of(r).state = "created", [Of(r) EXCEPT !.state = "running"], "unlock", "unlock")
      BY <3>3, DockerKeeps DEF WorkPcs
    <3> QED BY <2>5, <3>1, <3>2, <3>3 DEF start
  <2>6. CASE stop(r)
    <3>1. <<"stop", "stop-kill", "stop-remove">> \in Seq(WorkPcs)
          /\ Len(<<"stop", "stop-kill", "stop-remove">>) = 3 /\ "unlock" \in WorkPcs
      BY DEF WorkPcs
    <3> QED BY <2>6, <3>1, <2>4 DEF stop
  <2>7. CASE unlockContainer(r) BY <2>7, UnlockKeeps
  <2>8. CASE VMCProcess(r)
    <3>1. UNCHANGED <<containerLocks, lockHeld, vmc>> BY <2>8 DEF VMCProcess
    <3> QED BY <3>1 DEF ContainerInv, VmcTyped, CountInv, TableInv, HeldInv, UsersOf, Uses, Working
  <2> QED BY <1>1, <2>1, <2>2, <2>3, <2>5, <2>6, <2>7, <2>8 DEF VmcStep
<1>2. CASE UNCHANGED containerVars
  <2>1. UNCHANGED <<containerLocks, lockHeld, vmc>> BY <1>2 DEF containerVars
  <2> QED BY <2>1 DEF ContainerInv, VmcTyped, CountInv, TableInv, HeldInv, UsersOf, Uses, Working
<1> QED BY <1>1, <1>2 DEF ContainerNext

\* The locks of the controller work: two requests never work on one container
\* at once, although the entry of the lock is made and dropped all the time
\* (lockContainer, unlockContainer), and an entry is kept exactly as long as
\* somebody uses it, whatever call of docker fails.
THEOREM LocksExclude == ContainerSpec => [](OneRequestPerContainer /\ LocksReleased)
<1>1. ContainerInv => OneRequestPerContainer
  BY DEF ContainerInv, TableInv, HeldInv, OneRequestPerContainer, Working, Uses
<1>2. ContainerInv => LocksReleased
  BY DEF ContainerInv, CountInv, LocksReleased, UsersOf, Uses
<1> QED BY <1>1, <1>2, ContainerInitInv, ContainerNextInv, PTL DEF ContainerSpec
=============================================================================
