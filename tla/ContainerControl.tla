-------------------------- MODULE ContainerControl --------------------------
(***************************************************************************)
(* Control of chaincode containers (core/container/controller.go): each    *)
(* request runs in a goroutine of VMCProcess under a lock for its          *)
(* container, which is made for the first request and dropped with the     *)
(* last one by counting references.  Docker is external: each of its calls *)
(* may fail.                                                               *)
(***************************************************************************)
EXTENDS Integers, Sequences, FiniteSets

CONSTANTS
  Reqs,             \* requests: each has a container and is create, start or stop
  ReqOf,            \* ReqOf[r]: [id, do]
  MaxDockerFaults   \* bound: calls of docker that fail although they could succeed

ASSUME ContainerAssumption == IsFiniteSet(Reqs)

VARIABLES
  containerLocks,   \* per container: the reference counted lock, or NoLock
  lockHeld,         \* lockHeld[l]: lock object l is locked
  vmc,              \* vmc[r]: the goroutine of request r
  callers,          \* callers[r]: what VMCProcess does and returns
  docker,           \* per container: whether it has an image, and the container's state
  dockerFaults

containerVars == <<containerLocks, lockHeld, vmc, callers, docker, dockerFaults>>

ContainerIds == {ReqOf[r].id : r \in Reqs}
NoLock == [refCount |-> 0, lock |-> 0]

ContainerInit ==
  /\ containerLocks = [id \in ContainerIds |-> NoLock]
  /\ lockHeld = <<>>
  /\ vmc = [r \in Reqs |-> [pc |-> "new", lock |-> 0, err |-> FALSE]]
  /\ callers = [r \in Reqs |-> "new"]
  /\ docker = [id \in ContainerIds |-> [image |-> FALSE, state |-> "absent"]]
  /\ dockerFaults = 0

(* VMCProcess starts the goroutine, which takes or makes the lock under    *)
(* the lock of the controller.                                             *)
lockContainer(r) ==
  LET id == ReqOf[r].id
      have == containerLocks[id] # NoLock
      l == IF have THEN containerLocks[id].lock ELSE Len(lockHeld) + 1
  IN /\ vmc[r].pc = "new"
     /\ containerLocks' = [containerLocks EXCEPT ![id] = [refCount |-> @.refCount + 1, lock |-> l]]
     /\ lockHeld' = IF have THEN lockHeld ELSE Append(lockHeld, FALSE)
     /\ vmc' = [vmc EXCEPT ![r] = [@ EXCEPT !.pc = "waits", !.lock = l]]
     /\ callers' = [callers EXCEPT ![r] = "waits"]
     /\ UNCHANGED <<docker, dockerFaults>>

(* The first docker call of each request.                                  *)
FirstCall(r) == CASE ReqOf[r].do = "create" -> "build" [] ReqOf[r].do = "start" -> "cleanup" [] OTHER -> "stop"

GotLock(r) ==
  /\ vmc[r].pc = "waits" /\ ~lockHeld[vmc[r].lock]
  /\ lockHeld' = [lockHeld EXCEPT ![vmc[r].lock] = TRUE]
  /\ vmc' = [vmc EXCEPT ![r].pc = FirstCall(r)]
  /\ UNCHANGED <<containerLocks, callers, docker, dockerFaults>>

(* A call of docker that changes what docker has to d and leads to pc; it  *)
(* fails if it cannot do so, or for a reason of its own.                   *)
DockerCall(r, pc, can, d, then, onError) ==
  /\ vmc[r].pc = pc
  /\ \/ /\ can
        /\ docker' = [docker EXCEPT ![ReqOf[r].id] = d]
        /\ vmc' = [vmc EXCEPT ![r].pc = then]
        /\ UNCHANGED dockerFaults
     \/ /\ can => dockerFaults < MaxDockerFaults
        /\ dockerFaults' = IF can THEN dockerFaults + 1 ELSE dockerFaults
        /\ vmc' = [vmc EXCEPT ![r] = [pc |-> onError, lock |-> @.lock, err |-> onError = "unlock"]]
        /\ UNCHANGED docker
  /\ UNCHANGED <<containerLocks, lockHeld, callers>>

Of(r) == docker[ReqOf[r].id]
build(r) == DockerCall(r, "build", TRUE, [Of(r) EXCEPT !.image = TRUE], "unlock", "unlock")

(* stopInternal: stop, kill and remove; only the last error is returned,   *)
(* and start ignores it.                                                   *)
stopInternal(r, pcs, end) ==
  \/ DockerCall(r, pcs[1], Of(r).state = "running", [Of(r) EXCEPT !.state = "created"], pcs[2], pcs[2])
  \/ DockerCall(r, pcs[2], Of(r).state = "running", [Of(r) EXCEPT !.state = "created"], pcs[3], pcs[3])
  \/ DockerCall(r, pcs[3], Of(r).state # "absent", [Of(r) EXCEPT !.state = "absent"], end, end)

createContainer(r) ==
  DockerCall(r, "create", Of(r).image /\ Of(r).state = "absent", [Of(r) EXCEPT !.state = "created"], "start", "unlock")
start(r) ==
  \/ stopInternal(r, <<"cleanup", "cleanup-kill", "cleanup-remove">>, "create")
  \/ createContainer(r)
  \/ DockerCall(r, "start", Of(r).state = "created", [Of(r) EXCEPT !.state = "running"], "unlock", "unlock")
stop(r) == stopInternal(r, <<"stop", "stop-kill", "stop-remove">>, "unlock")

(* Drops the lock although others wait for it.                             *)
unlockContainerDrops(r) ==
  LET id == ReqOf[r].id
      l == containerLocks[id]
  IN /\ vmc[r].pc = "unlock"
     /\ containerLocks' = [containerLocks EXCEPT ![id] = NoLock]
     /\ lockHeld' = IF l = NoLock THEN lockHeld ELSE [lockHeld EXCEPT ![l.lock] = FALSE]
     /\ vmc' = [vmc EXCEPT ![r].pc = "done"]
     /\ UNCHANGED <<callers, docker, dockerFaults>>

(* unlockContainer, and the goroutine ends.                                *)
unlockContainer(r) ==
  LET id == ReqOf[r].id
      l == containerLocks[id]
  IN /\ vmc[r].pc = "unlock"
     /\ containerLocks' = [containerLocks EXCEPT ![id] = IF l.refCount = 1 THEN NoLock ELSE [l EXCEPT !.refCount = @ - 1]]
     /\ lockHeld' = IF l = NoLock THEN lockHeld ELSE [lockHeld EXCEPT ![l.lock] = FALSE]
     /\ vmc' = [vmc EXCEPT ![r].pc = "done"]
     /\ UNCHANGED <<callers, docker, dockerFaults>>

(* VMCProcess returns; if its context is done it still waits for the       *)
(* goroutine.                                                              *)
VMCProcess(r) ==
  /\ callers[r] \in {"waits", "cancelled"}
  /\ \/ callers[r] = "waits" /\ vmc[r].pc # "done" /\ callers' = [callers EXCEPT ![r] = "cancelled"]
     \/ vmc[r].pc = "done" /\ callers' = [callers EXCEPT ![r] = IF @ = "waits" THEN "returned" ELSE "ctxt.Err"]
  /\ UNCHANGED <<containerLocks, lockHeld, vmc, docker, dockerFaults>>

VmcStep(r) == GotLock(r) \/ build(r) \/ start(r) \/ stop(r) \/ unlockContainer(r)

ContainerNext == \E r \in Reqs : lockContainer(r) \/ VmcStep(r) \/ VMCProcess(r)

(* Docker answers, and a mutex is fair in the long run.                    *)
ContainerFairness ==
  \A r \in Reqs : WF_containerVars(GotLock(r)) /\ WF_containerVars(VmcStep(r))

ContainerSpec == ContainerInit /\ [][ContainerNext]_containerVars /\ ContainerFairness

-----------------------------------------------------------------------------
Working(r) == vmc[r].pc \notin {"new", "waits", "done"}

(* Types.                                                                  *)
ContainerTypeOK ==
  /\ \A id \in ContainerIds : /\ containerLocks[id].refCount \in 0 .. Cardinality(Reqs)
                              /\ docker[id].state \in {"absent", "created", "running"}
  /\ \A r \in Reqs : vmc[r].lock \in 0 .. Len(lockHeld)

(* Two requests never work on the same container at once: the lock is not  *)
(* dropped while somebody waits for it (lockContainer, unlockContainer).   *)
OneRequestPerContainer ==
  \A r, s \in Reqs : r # s /\ ReqOf[r].id = ReqOf[s].id => ~(Working(r) /\ Working(s))

(* No lock is kept when no request uses it, whatever fails.                *)
LocksReleased ==
  \A id \in ContainerIds :
    containerLocks[id].refCount = Cardinality({r \in Reqs : ReqOf[r].id = id /\ vmc[r].pc \notin {"new", "done"}})

(* Every request ends.                                                     *)
RequestEnds == \A r \in Reqs : vmc[r].pc = "waits" ~> vmc[r].pc = "done"
=============================================================================
