----------------------------- MODULE Chaincode -----------------------------
(***************************************************************************)
(* Execution of chaincode: the validator's side of the stream              *)
(* (core/chaincode/handler.go), the table of running chaincodes and the    *)
(* launch of containers (chaincode_support.go), the execution of one       *)
(* transaction (exectransaction.go), and the shim in the container         *)
(* (shim/handler.go, shim/chaincode.go) on the other end of the stream.    *)
(*                                                                         *)
(* The processes are: the thread that executes consented transactions one  *)
(* after the other ("exec"), a thread that runs queries ("query"), the     *)
(* goroutine of a chaincode that calls another one ("inv"), the stream     *)
(* loop and the request goroutines of every validator handler, the stream  *)
(* loop of every shim and the goroutines that run the user's chaincode.    *)
(* The user's chaincode is any program of at most MaxOps requests.         *)
(*                                                                         *)
(* Launch n of a container has number n; so has the stream it opens, and   *)
(* the readyNotify channel the launcher waits on.                          *)
(***************************************************************************)
EXTENDS Integers, Sequences, FiniteSets

CONSTANTS
  Chaincodes,
  Scripts,             \* what happens: work of each thread, a sequence of [uuid, kind, cc],
                       \* and deployed, the chaincodes whose deploy transaction is in a block
  Ops,                 \* uuid -> requests its program may make, in every chaincode it reaches
  MaxOps,              \* bound: requests of one execution
  MaxLaunches,         \* bound: containers started
  MaxStartupTimeouts,  \* bound: ccStartupTimeout fires
  MaxExecTimeouts,     \* bound: the 30 s of an execution pass
  MaxCrashes,          \* bound: containers that die
  nil

VARIABLES
  work,      \* per thread: transactions still to execute
  th,        \* per thread: pc, transaction, handler, and for "inv" the handler that asked
  ccMap,     \* handlerMap.chaincodeMap: chaincode -> launch, 0 when absent
  deployed,  \* deploy transactions GetTransactionByUUID finds
  v,         \* per launch: validator handler
  s,         \* per launch: shim handler
  ready,     \* per launch: readyNotify, a channel with a buffer of one
  tx,        \* ledger: currentTxUUID, and whose writes the transaction's delta holds
  results,   \* outcome of each transaction: uuid, ok, writers in its delta
  faults,    \* startup and execution timeouts, crashes so far
  panicked   \* the peer's process has died of a panic

ccVars == <<work, th, ccMap, deployed, v, s, ready, tx, results, faults, panicked>>

Threads == {"exec", "query", "inv"}
Launches == 1 .. MaxLaunches
Msg(type, uuid) == [type |-> type, uuid |-> uuid]

IdleThread == [pc |-> "idle", tx |-> nil, n |-> 0, from |-> 0]
NoHandler == [cc |-> nil, loop |-> FALSE, fsm |-> "created", registered |-> FALSE, notify |-> 0,
              ctx |-> <<>>, isTx |-> {}, trig |-> {}, reqs |-> {}, in |-> <<>>, out |-> nil]
NoShim == [alive |-> FALSE, fsm |-> "created", run |-> <<>>, isTx |-> {}, trig |-> {}, in |-> <<>>]

CCInit ==
  /\ \E sc \in Scripts : work = sc.work /\ deployed = sc.deployed
  /\ th = [x \in Threads |-> IdleThread]
  /\ ccMap = [c \in Chaincodes |-> 0]
  /\ v = [n \in Launches |-> NoHandler]
  /\ s = [n \in Launches |-> NoShim]
  /\ ready = [n \in Launches |-> <<>>]
  /\ tx = [cur |-> nil, writers |-> {}]
  /\ results = {}
  /\ faults = [startup |-> 0, exec |-> 0, crash |-> 0]
  /\ panicked = nil

-----------------------------------------------------------------------------
(* The state machines of the two ends, as sets <<event, source, target>>.  *)

Reads == {"GET_STATE", "RANGE_QUERY_STATE"}
Writes == {"PUT_STATE", "INVOKE_CHAINCODE"}   \* DEL_STATE is treated as PUT_STATE

ValidatorFSM ==
  {<<"REGISTER", "created", "established">>, <<"INIT", "established", "init">>,
   <<"READY", "established", "ready">>, <<"TRANSACTION", "ready", "transaction">>,
   <<"ERROR", "init", "end">>, <<"ERROR", "transaction", "ready">>,
   <<"ERROR", "busyinit", "init">>, <<"ERROR", "busyxact", "transaction">>,
   <<"RESPONSE", "busyinit", "init">>, <<"RESPONSE", "busyxact", "transaction">>}
  \cup {<<"COMPLETED", a, "ready">> : a \in {"init", "ready", "transaction"}}
  \cup {<<w, "transaction", "busyxact">> : w \in Writes}
  \cup {<<w, "init", "busyinit">> : w \in Writes}
  \cup {<<g, a, a>> : g \in Reads, a \in {"ready", "init", "busyinit", "transaction", "busyxact"}}

ShimFSM ==
  {<<"REGISTERED", "created", "established">>, <<"INIT", "established", "init">>,
   <<"READY", "established", "ready">>, <<"ERROR", "init", "established">>,
   <<"COMPLETED", "init", "ready">>, <<"TRANSACTION", "ready", "transaction">>,
   <<"COMPLETED", "transaction", "ready">>, <<"ERROR", "transaction", "ready">>}
  \cup {<<"RESPONSE", a, a>> : a \in {"init", "transaction", "ready"}}
  \cup {<<"QUERY", a, a>> : a \in {"transaction", "ready"}}

Can(fsm, event, state) == \E t \in fsm : t[1] = event /\ t[2] = state
Target(fsm, event, state) == (CHOOSE t \in fsm : t[1] = event /\ t[2] = state)[3]

isRunning(h) == h.fsm \notin {"created", "established", "init"}

(* serialSend on either end: what is sent to an end that is gone is lost.  *)
SendToShim(sh, m) == IF sh.alive THEN [sh EXCEPT !.in = Append(@, m)] ELSE sh
SendToValidator(h, m) == IF h.loop THEN [h EXCEPT !.in = Append(@, m)] ELSE h

WithKey(f, x, y) == [z \in DOMAIN f \cup {x} |-> IF z = x THEN y ELSE f[z]]
WithoutKey(f, x) == [z \in DOMAIN f \ {x} |-> f[z]]

(* notify: the answer goes into the context of its transaction, if any.    *)
notify(h, m) == IF m.uuid \in DOMAIN h.ctx THEN [h EXCEPT !.ctx[m.uuid] = m.type] ELSE h
CanNotify(h, m) == m.uuid \in DOMAIN h.ctx => h.ctx[m.uuid] = nil
deleteIsTransaction(h, uuid) == [h EXCEPT !.isTx = @ \ {uuid}]

deregister(n) == IF v[n].registered THEN [ccMap EXCEPT ![v[n].cc] = 0] ELSE ccMap

-----------------------------------------------------------------------------
(* HandleMessage of the validator: h is the handler after the message was  *)
(* taken from the stream, or from nextState, where send says whether the   *)
(* loop then passes it on to the shim.                                     *)

(* beforeRegisterEvent, registerHandler and enterEstablishedState.         *)
HandleRegister(n, h) ==
  LET e == ccMap[h.cc]
      placeholder == e # 0 /\ ~v[e].registered
  IN IF e # 0 /\ v[e].registered
       THEN /\ v' = [v EXCEPT ![n] = [h EXCEPT !.loop = FALSE]]
            /\ UNCHANGED <<ccMap, ready, s>>
       ELSE /\ placeholder => ready[e] = <<>>
            /\ v' = [v EXCEPT ![n] = [h EXCEPT !.registered = TRUE, !.fsm = "established",
                                               !.notify = IF placeholder THEN e ELSE 0]]
            /\ ccMap' = [ccMap EXCEPT ![h.cc] = n]
            /\ ready' = IF placeholder THEN [ready EXCEPT ![e] = <<TRUE>>] ELSE ready
            /\ s' = [s EXCEPT ![n] = SendToShim(@, Msg("REGISTERED", nil))]

(* The message is not allowed in this state: the stream ends.              *)
HandleCannot(n, h, m) ==
  /\ v' = [v EXCEPT ![n] = [h EXCEPT !.loop = FALSE]]
  /\ ccMap' = deregister(n)
  /\ s' = IF m.type \in Writes /\ m.uuid \notin h.isTx
            THEN [s EXCEPT ![n] = SendToShim(@, Msg("ERROR", m.uuid))] ELSE s
  /\ UNCHANGED ready

(* beforeInitState and enterInitState.                                     *)
HandleInit(n, h, m) ==
  /\ h.notify # 0 => ready[h.notify] = <<>>
  /\ ready' = IF h.notify # 0 THEN [ready EXCEPT ![h.notify] = <<TRUE>>] ELSE ready
  /\ v' = [v EXCEPT ![n] = [h EXCEPT !.fsm = "init", !.isTx = @ \cup {m.uuid}]]
  /\ s' = [s EXCEPT ![n] = SendToShim(@, m)]
  /\ UNCHANGED ccMap

(* All other events: enterReadyState, enterEndState, enterBusyState,       *)
(* afterGetState, afterRangeQueryState.                                    *)
HandleEvent(n, h, m, send) ==
  LET to == Target(ValidatorFSM, m.type, h.fsm)
      ends == to # h.fsm /\ to \in {"ready", "end"}
      h1 == [h EXCEPT !.fsm = to, !.out = IF send THEN m ELSE nil,
                      !.reqs = IF m.type \in Reads \cup Writes THEN @ \cup {m} ELSE @]
  IN /\ ends => CanNotify(h, m)
     /\ v' = [v EXCEPT ![n] = IF ends THEN notify(deleteIsTransaction(h1, m.uuid), m) ELSE h1]
     /\ ccMap' = IF to = "end" THEN deregister(n) ELSE ccMap
     /\ UNCHANGED <<ready, s>>

HandleMessage(n, h, m, send) ==
  CASE m.type \in {"QUERY_COMPLETED", "QUERY_ERROR"} ->
         /\ CanNotify(h, m)
         /\ v' = [v EXCEPT ![n] = notify(deleteIsTransaction(h, m.uuid), m)]
         /\ UNCHANGED <<ccMap, ready, s>>
    [] m.type = "INVOKE_QUERY" ->
         /\ v' = [v EXCEPT ![n] = [h EXCEPT !.reqs = @ \cup {m}]]
         /\ UNCHANGED <<ccMap, ready, s>>
    [] OTHER -> CASE ~Can(ValidatorFSM, m.type, h.fsm) -> HandleCannot(n, h, m)
                  [] m.type = "REGISTER" -> HandleRegister(n, h)
                  [] m.type = "INIT" -> HandleInit(n, h, m)
                  [] OTHER -> HandleEvent(n, h, m, send)

(* processStream: a message of the stream, a message of nextState (whose   *)
(* sender waits until it is taken), or the end of the stream.              *)
LoopUnchanged == UNCHANGED <<work, th, deployed, tx, results, faults, panicked>>

ReceiveFromShim(n) ==
  /\ v[n].loop /\ v[n].out = nil /\ v[n].in # <<>>
  /\ HandleMessage(n, [v[n] EXCEPT !.in = Tail(@)], Head(v[n].in), FALSE)
  /\ LoopUnchanged

TakeNextState(n) ==
  /\ v[n].loop /\ v[n].out = nil
  /\ \E t \in v[n].trig : HandleMessage(n, [v[n] EXCEPT !.trig = @ \ {t}], t.msg, t.send)
  /\ LoopUnchanged

(* The loop sends the message on only after HandleMessage has returned,    *)
(* when the transaction's waiter may have been notified already.           *)
SendNextState(n) ==
  /\ v[n].loop /\ v[n].out # nil
  /\ v' = [v EXCEPT ![n].out = nil]
  /\ s' = [s EXCEPT ![n] = SendToShim(@, v[n].out)]
  /\ UNCHANGED <<ccMap, ready>> /\ LoopUnchanged

StreamEnds(n) ==
  /\ v[n].loop /\ v[n].out = nil /\ v[n].in = <<>> /\ ~s[n].alive
  /\ v' = [v EXCEPT ![n].loop = FALSE]
  /\ ccMap' = deregister(n)
  /\ UNCHANGED <<ready, s>> /\ LoopUnchanged

-----------------------------------------------------------------------------
(* The goroutines a handler starts for the requests of its chaincode.      *)

triggerNextState(h, m, send) == [h EXCEPT !.trig = @ \cup {[msg |-> m, send |-> send]}]

(* handleGetState answers directly.  handleRangeQueryState puts its        *)
(* iterator into the context of the transaction, which must exist.         *)
ServeRead(n) ==
  \E m \in v[n].reqs :
    /\ m.type \in Reads
    /\ v' = [v EXCEPT ![n].reqs = @ \ {m}]
    /\ IF m.type = "RANGE_QUERY_STATE" /\ m.uuid \notin DOMAIN v[n].ctx
         THEN panicked' = "context" /\ UNCHANGED s
         ELSE s' = [s EXCEPT ![n] = SendToShim(@, Msg("RESPONSE", m.uuid))] /\ UNCHANGED panicked
    /\ UNCHANGED <<work, th, ccMap, deployed, ready, tx, results, faults>>

(* enterBusyState: a write goes to whatever transaction the ledger is in.  *)
ServeWrite(n) ==
  \E m \in v[n].reqs :
    /\ m.type = "PUT_STATE"
    /\ LET h == [v[n] EXCEPT !.reqs = @ \ {m}]
       IN IF m.uuid \notin h.isTx
            THEN /\ v' = [v EXCEPT ![n] = triggerNextState(h, Msg("ERROR", m.uuid), TRUE)]
                 /\ UNCHANGED <<tx, panicked>>
            ELSE IF tx.cur = nil
              THEN panicked' = "set" /\ v' = [v EXCEPT ![n] = h] /\ UNCHANGED tx
              ELSE /\ tx' = [tx EXCEPT !.writers = @ \cup {m.uuid}]
                   /\ v' = [v EXCEPT ![n] = triggerNextState(h, Msg("RESPONSE", m.uuid), TRUE)]
                   /\ UNCHANGED panicked
    /\ UNCHANGED <<work, th, ccMap, deployed, s, ready, results, faults>>

(* A call of another chaincode, as a transaction or as a query, with the   *)
(* uuid of the caller's transaction.                                       *)
ServeCall(n) ==
  \E m \in v[n].reqs, c \in Chaincodes :
    /\ m.type \in {"INVOKE_CHAINCODE", "INVOKE_QUERY"}
    /\ th["inv"] = IdleThread
    /\ LET h == [v[n] EXCEPT !.reqs = @ \ {m}]
           called == [uuid |-> m.uuid, cc |-> c,
                      kind |-> IF m.type = "INVOKE_QUERY" THEN "query" ELSE "invoke"]
       IN IF m.type = "INVOKE_CHAINCODE" /\ m.uuid \notin h.isTx
            THEN /\ v' = [v EXCEPT ![n] = triggerNextState(h, Msg("ERROR", m.uuid), TRUE)]
                 /\ UNCHANGED th
            ELSE /\ v' = [v EXCEPT ![n] = h]
                 /\ th' = [th EXCEPT !["inv"] = [pc |-> "launch", tx |-> called, n |-> 0, from |-> n]]
    /\ UNCHANGED <<work, ccMap, deployed, s, ready, tx, results, faults, panicked>>

-----------------------------------------------------------------------------
(* The threads.  An execution that has ended gives its outcome: "ok",      *)
(* "error" (an ERROR response) or "none" (no response at all).             *)

Goto(x, pc) == th' = [th EXCEPT ![x].pc = pc]

(* ExecuteTransactions: the next transaction; a deploy begins its ledger   *)
(* transaction before it launches the chaincode.                           *)
StartTransaction(x) ==
  /\ x # "inv" /\ th[x].pc = "idle" /\ work[x] # <<>>
  /\ th' = [th EXCEPT ![x] = [IdleThread EXCEPT !.tx = Head(work[x]),
                                !.pc = IF Head(work[x]).kind = "deploy" THEN "begin" ELSE "launch"]]
  /\ work' = [work EXCEPT ![x] = Tail(@)]
  /\ UNCHANGED <<ccMap, deployed, v, s, ready, tx, results, faults, panicked>>

TxBeginStep(x) ==
  /\ th[x].pc = "begin"
  /\ Goto(x, IF th[x].tx.kind = "deploy" THEN "launch" ELSE "execute")
  /\ IF tx.cur # nil
       THEN panicked' = "begin" /\ UNCHANGED tx
       ELSE tx' = [cur |-> th[x].tx.uuid, writers |-> {}] /\ UNCHANGED panicked
  /\ UNCHANGED <<work, ccMap, deployed, v, s, ready, results, faults>>

(* LaunchChaincode up to launchAndWaitForRegister.                         *)
LaunchChaincode(x) ==
  /\ th[x].pc = "launch"
  /\ LET t == th[x].tx
         e == ccMap[t.cc]
     IN Goto(x, CASE e # 0 /\ ~v[e].registered -> "failed"
                  [] e # 0 /\ isRunning(v[e]) ->
                       CASE t.kind = "deploy" -> "ok"
                         [] t.kind = "invoke" /\ x # "inv" -> "begin"
                         [] OTHER -> "execute"
                  [] t.kind # "deploy" /\ t.cc \notin deployed -> "failed"
                  [] e # 0 -> "init"
                  [] OTHER -> "start")
  /\ UNCHANGED <<work, ccMap, deployed, v, s, ready, tx, results, faults, panicked>>

(* launchAndWaitForRegister: a placeholder, and the container, whose shim  *)
(* opens a stream and sends REGISTER.                                      *)
StartContainer(x) ==
  /\ th[x].pc = "start"
  /\ LET c == th[x].tx.cc
         used == {n \in Launches : v[n].cc # nil}
         n == Cardinality(used) + 1
     IN IF ccMap[c] # 0
          THEN Goto(x, "init") /\ UNCHANGED <<ccMap, v, s>>
          ELSE /\ n \in Launches
               /\ ccMap' = [ccMap EXCEPT ![c] = n]
               /\ v' = [v EXCEPT ![n] = [NoHandler EXCEPT !.cc = c, !.loop = TRUE,
                                                          !.in = <<Msg("REGISTER", nil)>>]]
               /\ s' = [s EXCEPT ![n].alive = TRUE]
               /\ th' = [th EXCEPT ![x].pc = "register", ![x].n = n]
  /\ UNCHANGED <<work, deployed, ready, tx, results, faults, panicked>>

AwaitRegister(x) ==
  /\ th[x].pc = "register" /\ ready[th[x].n] # <<>>
  /\ ready' = [ready EXCEPT ![th[x].n] = <<>>]
  /\ Goto(x, IF Head(ready[th[x].n]) THEN "init" ELSE "stop")
  /\ UNCHANGED <<work, ccMap, deployed, v, s, tx, results, faults, panicked>>

(* sendInitOrReady and initOrReady.                                        *)
SendInitOrReady(x) ==
  /\ th[x].pc = "init"
  /\ LET t == th[x].tx
         e == ccMap[t.cc]
     IN IF e = 0 \/ ~v[e].registered \/ t.uuid \in DOMAIN v[e].ctx
          THEN Goto(x, "stop") /\ UNCHANGED v
          ELSE /\ th' = [th EXCEPT ![x].pc = "initwait", ![x].n = e]
               /\ LET h == [v[e] EXCEPT !.ctx = WithKey(@, t.uuid, nil)]
                  IN v' = [v EXCEPT ![e] = IF t.kind = "deploy"
                                              THEN triggerNextState(h, Msg("INIT", t.uuid), FALSE)
                                              ELSE triggerNextState(h, Msg("READY", t.uuid), TRUE)]
  /\ UNCHANGED <<work, ccMap, deployed, s, ready, tx, results, faults, panicked>>

(* The handler has taken what the thread gave to triggerNextState.         *)
MsgTaken(x) == \A t \in v[th[x].n].trig : ~(t.msg.uuid = th[x].tx.uuid
                                           /\ t.msg.type \in {"INIT", "READY", "TRANSACTION"})

deleteTxContext(x) == v' = [v EXCEPT ![th[x].n].ctx = WithoutKey(@, th[x].tx.uuid)]

AwaitInit(x) ==
  /\ th[x].pc = "initwait"
  /\ LET answer == v[th[x].n].ctx[th[x].tx.uuid]
         t == th[x].tx
     IN /\ answer # nil
        /\ Goto(x, CASE answer = "ERROR" -> "stop"
                     [] t.kind = "deploy" -> "ok"
                     [] t.kind = "invoke" /\ x # "inv" -> "begin"
                     [] OTHER -> "execute")
  /\ deleteTxContext(x)
  /\ UNCHANGED <<work, ccMap, deployed, s, ready, tx, results, faults, panicked>>

StartupTimeout(x) ==
  /\ faults.startup < MaxStartupTimeouts
  /\ \/ th[x].pc = "register" /\ UNCHANGED v
     \/ th[x].pc = "initwait" /\ MsgTaken(x) /\ deleteTxContext(x)
  /\ Goto(x, "stop")
  /\ faults' = [faults EXCEPT !.startup = @ + 1]
  /\ UNCHANGED <<work, ccMap, deployed, s, ready, tx, results, panicked>>

(* StopChaincode: the container is stopped and the entry removed, whoever  *)
(* made it.                                                                *)
StopChaincode(x) ==
  /\ th[x].pc = "stop"
  /\ s' = [n \in Launches |-> IF v[n].cc = th[x].tx.cc THEN NoShim ELSE s[n]]
  /\ ccMap' = [ccMap EXCEPT ![th[x].tx.cc] = 0]
  /\ Goto(x, "failed")
  /\ UNCHANGED <<work, deployed, v, ready, tx, results, faults, panicked>>

(* ChaincodeSupport.Execute and sendExecuteMessage.                        *)
Execute(x) ==
  /\ th[x].pc = "execute"
  /\ LET t == th[x].tx
         e == ccMap[t.cc]
         h == [v[e] EXCEPT !.ctx = WithKey(@, t.uuid, nil)]
     IN IF e = 0 \/ ~v[e].registered \/ t.uuid \in DOMAIN v[e].ctx
          THEN Goto(x, "none") /\ UNCHANGED <<v, s>>
          ELSE /\ th' = [th EXCEPT ![x].pc = "execwait", ![x].n = e]
               /\ IF t.kind = "query"
                    THEN /\ v' = [v EXCEPT ![e] = deleteIsTransaction(h, t.uuid)]
                         /\ s' = [s EXCEPT ![e] = SendToShim(@, Msg("QUERY", t.uuid))]
                    ELSE /\ v' = [v EXCEPT ![e] = triggerNextState([h EXCEPT !.isTx = @ \cup {t.uuid}],
                                                                   Msg("TRANSACTION", t.uuid), TRUE)]
                         /\ UNCHANGED s
  /\ UNCHANGED <<work, ccMap, deployed, ready, tx, results, faults, panicked>>

AwaitResponse(x) ==
  /\ th[x].pc = "execwait"
  /\ LET answer == v[th[x].n].ctx[th[x].tx.uuid]
     IN answer # nil /\ Goto(x, IF answer \in {"ERROR", "QUERY_ERROR"} THEN "error" ELSE "ok")
  /\ deleteTxContext(x)
  /\ UNCHANGED <<work, ccMap, deployed, s, ready, tx, results, faults, panicked>>

(* Gives a time limit to queries only.                                     *)
ExecuteTimeoutQueries(x) ==
  /\ faults.exec < MaxExecTimeouts
  /\ th[x].pc = "execwait" /\ th[x].tx.kind = "query" /\ MsgTaken(x)
  /\ deleteTxContext(x)
  /\ Goto(x, "none")
  /\ faults' = [faults EXCEPT !.exec = @ + 1]
  /\ UNCHANGED <<work, ccMap, deployed, s, ready, tx, results, panicked>>

ExecuteTimeout(x) ==
  /\ faults.exec < MaxExecTimeouts
  /\ th[x].pc = "execwait" /\ MsgTaken(x)
  /\ deleteTxContext(x)
  /\ Goto(x, "none")
  /\ faults' = [faults EXCEPT !.exec = @ + 1]
  /\ UNCHANGED <<work, ccMap, deployed, s, ready, tx, results, panicked>>

(* Keeps the changes of the transaction that has ended.                    *)
TxFinishKeepsDelta == tx' = [tx EXCEPT !.cur = nil]

(* The ledger forgets the transaction and its changes.                     *)
TxFinish == tx' = [cur |-> nil, writers |-> {}]

(* The transaction has ended: TxFinished for a deploy and an invoke that   *)
(* was begun.  What ends a deploy is committed, failed or not (the errors  *)
(* of ExecuteTransactions are not looked at).                              *)
FinishTransaction(x) ==
  /\ x # "inv" /\ th[x].pc \in {"ok", "error", "none", "failed"}
  /\ LET t == th[x].tx
         begun == t.kind = "deploy" \/ (t.kind = "invoke" /\ th[x].pc # "failed")
     IN /\ IF ~begun
             THEN UNCHANGED <<tx, results, panicked>>
             ELSE IF tx.cur # t.uuid
               THEN panicked' = "finish" /\ UNCHANGED <<tx, results>>
               ELSE /\ TxFinish
                    /\ results' = results \cup {[uuid |-> t.uuid, ok |-> th[x].pc = "ok",
                                                 writers |-> tx.writers]}
                    /\ UNCHANGED panicked
        /\ deployed' = IF t.kind = "deploy" THEN deployed \cup {t.cc} ELSE deployed
  /\ th' = [th EXCEPT ![x] = IdleThread]
  /\ UNCHANGED <<work, ccMap, v, s, ready, faults>>

(* The end of enterBusyState and of handleQueryChaincode.  The first reads *)
(* the payload of the response before it looks at the error.               *)
FinishCall ==
  LET x == th["inv"] IN
  /\ x.pc \in {"ok", "error", "none", "failed"}
  /\ LET answer == Msg(IF x.pc = "ok" THEN "RESPONSE" ELSE "ERROR", x.tx.uuid)
     IN IF x.tx.kind = "query"
          THEN s' = [s EXCEPT ![x.from] = SendToShim(@, answer)] /\ UNCHANGED <<v, panicked>>
          ELSE IF x.pc = "none"
            THEN panicked' = "response" /\ UNCHANGED <<v, s>>
            ELSE v' = [v EXCEPT ![x.from] = triggerNextState(@, answer, TRUE)] /\ UNCHANGED <<s, panicked>>
  /\ th' = [th EXCEPT !["inv"] = IdleThread]
  /\ UNCHANGED <<work, ccMap, deployed, ready, tx, results, faults>>

-----------------------------------------------------------------------------
(* The shim.                                                               *)

ShimUnchanged == UNCHANGED <<work, th, ccMap, deployed, ready, tx, results, panicked>>

(* handleInit, handleTransaction, handleQuery: a goroutine runs the user's *)
(* chaincode, which may write when its uuid is marked as a transaction.    *)
StartRun(sh, m) ==
  [sh EXCEPT !.run = WithKey(@, <<m.uuid, m.type>>, [left |-> MaxOps, wait |-> FALSE]),
             !.isTx = IF m.type = "QUERY" THEN @ \ {m.uuid} ELSE @ \cup {m.uuid}]

(* The response channel of a uuid, if a goroutine waits on it.             *)
sendChannel(sh, uuid) ==
  [sh EXCEPT !.run = [k \in DOMAIN @ |-> IF k[1] = uuid THEN [@[k] EXCEPT !.wait = FALSE] ELSE @[k]]]
Waiting(sh, uuid) == \E k \in DOMAIN sh.run : k[1] = uuid /\ sh.run[k].wait

(* handleMessage of the shim: a message the state does not allow is        *)
(* answered with an error and ends the chaincode.                          *)
ShimHandle(n, sh, m, send) ==
  IF ~Can(ShimFSM, m.type, sh.fsm)
    THEN s' = [s EXCEPT ![n] = NoShim] /\ v' = [v EXCEPT ![n] = SendToValidator(@, Msg("ERROR", m.uuid))]
    ELSE LET sh1 == [sh EXCEPT !.fsm = Target(ShimFSM, m.type, sh.fsm)]
         IN /\ s' = [s EXCEPT ![n] =
                 CASE m.type \in {"INIT", "TRANSACTION", "QUERY"} -> StartRun(sh1, m)
                   [] m.type \in {"RESPONSE", "ERROR"} -> sendChannel(sh1, m.uuid)
                   [] OTHER -> sh1]
            /\ v' = IF send THEN [v EXCEPT ![n] = SendToValidator(@, m)] ELSE v

ShimReceive(n) ==
  /\ s[n].alive /\ s[n].in # <<>>
  /\ ShimHandle(n, [s[n] EXCEPT !.in = Tail(@)], Head(s[n].in), FALSE)
  /\ UNCHANGED faults /\ ShimUnchanged

ShimTakeNextState(n) ==
  /\ s[n].alive
  /\ \E m \in s[n].trig : ShimHandle(n, [s[n] EXCEPT !.trig = @ \ {m}], m, TRUE)
  /\ UNCHANGED faults /\ ShimUnchanged

ShimStreamEnds(n) ==
  /\ s[n].alive /\ s[n].in = <<>> /\ ~v[n].loop
  /\ s' = [s EXCEPT ![n] = NoShim]
  /\ UNCHANGED <<v, faults>> /\ ShimUnchanged

(* A request of the user's chaincode.  It fails at once, with nothing sent, *)
(* when another one waits for the same uuid (createChannel) or when it      *)
(* writes or invokes and the uuid is not marked as a transaction.           *)
Request(n) ==
  /\ s[n].alive
  /\ \E k \in DOMAIN s[n].run : \E op \in Ops[k[1]] :
       /\ ~s[n].run[k].wait /\ s[n].run[k].left > 0
       /\ op \in {"INVOKE_CHAINCODE", "INVOKE_QUERY"} => th["inv"].tx = nil
       /\ IF Waiting(s[n], k[1]) \/ (op \in Writes /\ k[1] \notin s[n].isTx)
            THEN s' = [s EXCEPT ![n].run[k].left = @ - 1] /\ UNCHANGED v
            ELSE /\ s' = [s EXCEPT ![n].run[k] = [left |-> @.left - 1, wait |-> TRUE]]
                 /\ v' = [v EXCEPT ![n] = SendToValidator(@, Msg(op, k[1]))]
  /\ UNCHANGED faults /\ ShimUnchanged

(* The user's chaincode returns: handleInit, handleTransaction (through    *)
(* nextState) and handleQuery (directly).                                  *)
Return(n) ==
  /\ s[n].alive
  /\ \E k \in DOMAIN s[n].run, ok \in BOOLEAN :
       LET sh == [s[n] EXCEPT !.run = WithoutKey(@, k), !.isTx = @ \ {k[1]}]
       IN /\ ~s[n].run[k].wait
          /\ IF k[2] = "QUERY"
               THEN /\ s' = [s EXCEPT ![n] = sh]
                    /\ v' = [v EXCEPT ![n] =
                         SendToValidator(@, Msg(IF ok THEN "QUERY_COMPLETED" ELSE "QUERY_ERROR", k[1]))]
               ELSE /\ s' = [s EXCEPT ![n] =
                         [sh EXCEPT !.trig = @ \cup {Msg(IF ok THEN "COMPLETED" ELSE "ERROR", k[1])}]]
                    /\ UNCHANGED v
  /\ UNCHANGED faults /\ ShimUnchanged

(* The container dies.                                                     *)
Crash(n) ==
  /\ faults.crash < MaxCrashes /\ s[n].alive
  /\ s' = [s EXCEPT ![n] = NoShim]
  /\ faults' = [faults EXCEPT !.crash = @ + 1]
  /\ UNCHANGED v /\ ShimUnchanged

-----------------------------------------------------------------------------
ThreadStep(x) ==
  \/ StartTransaction(x) \/ TxBeginStep(x) \/ LaunchChaincode(x) \/ StartContainer(x)
  \/ AwaitRegister(x) \/ SendInitOrReady(x) \/ AwaitInit(x) \/ StopChaincode(x)
  \/ Execute(x) \/ AwaitResponse(x) \/ FinishTransaction(x)
LoopStep(n) == ReceiveFromShim(n) \/ TakeNextState(n) \/ SendNextState(n) \/ StreamEnds(n)
ServeStep(n) == ServeRead(n) \/ ServeWrite(n) \/ ServeCall(n)
ShimLoopStep(n) == ShimReceive(n) \/ ShimTakeNextState(n) \/ ShimStreamEnds(n)

CCNext ==
  /\ panicked = nil
  /\ \/ \E x \in Threads : ThreadStep(x) \/ StartupTimeout(x) \/ ExecuteTimeout(x)
     \/ FinishCall
     \/ \E n \in Launches : LoopStep(n) \/ ServeStep(n) \/ ShimLoopStep(n)
                              \/ Request(n) \/ Return(n) \/ Crash(n)

CCFairness ==
  /\ \A x \in Threads : /\ WF_ccVars(panicked = nil /\ ThreadStep(x))
                        /\ WF_ccVars(panicked = nil /\ StartupTimeout(x))
                        /\ WF_ccVars(panicked = nil /\ ExecuteTimeout(x))
  /\ WF_ccVars(panicked = nil /\ FinishCall)
  /\ \A n \in Launches : /\ WF_ccVars(panicked = nil /\ LoopStep(n))
                         /\ WF_ccVars(panicked = nil /\ ServeStep(n))
                         /\ WF_ccVars(panicked = nil /\ ShimLoopStep(n))

CCSpec == CCInit /\ [][CCNext]_ccVars /\ CCFairness

-----------------------------------------------------------------------------
(* Types of the state of the chaincode support and the shims.              *)
CCTypeOK ==
  /\ th \in [Threads -> [pc : {"idle", "begin", "launch", "start", "register", "init", "initwait", "stop",
                               "execute", "execwait", "ok", "error", "none", "failed"},
                         tx : {th[x].tx : x \in Threads}, n : 0 .. MaxLaunches, from : 0 .. MaxLaunches]]
  /\ ccMap \in [Chaincodes -> 0 .. MaxLaunches]
  /\ deployed \subseteq Chaincodes
  /\ \A n \in Launches :
       /\ v[n].fsm \in {t[3] : t \in ValidatorFSM} \cup {"created"}
       /\ s[n].fsm \in {t[3] : t \in ShimFSM} \cup {"created"}
       /\ ready[n] \in {<<>>, <<TRUE>>, <<FALSE>>}
  /\ panicked \in {nil, "set", "context", "begin", "finish", "response"}

(* A chaincode runs at most one Init or Invoke at a time: the state        *)
(* machines of the two ends refuse a second one, also when the first has   *)
(* timed out and still runs (HandleMessage and handleTransaction).         *)
SerialExecution ==
  \A n \in Launches : Cardinality({k \in DOMAIN s[n].run : k[2] # "QUERY"}) <= 1

NoTimeout == faults.startup = 0 /\ faults.exec = 0

(* As long as nothing has timed out, the delta of a ledger transaction     *)
(* holds only what that transaction wrote, in whatever chaincodes it ran   *)
(* (SetState in enterBusyState between TxBegin and TxFinished).            *)
WritesContained ==
  NoTimeout => /\ tx.writers \subseteq {tx.cur}
               /\ \A r \in results : r.writers \subseteq {r.uuid}

(* The thread waits in triggerNextState for a stream loop that has ended.  *)
DeadEnd(x) == th[x].pc \in {"initwait", "execwait"} /\ ~v[th[x].n].loop /\ ~MsgTaken(x)
OutOfLaunches(x) == th[x].pc = "start" /\ \A n \in Launches : v[n].cc # nil

(* Every transaction and every query returns, whatever the containers do:  *)
(* the timeouts of launchAndWaitForRegister, sendInitOrReady and Execute   *)
(* see to it.  The exception is a thread that gave its message to a stream *)
(* loop that had ended (DeadEnd), where no timeout runs.                   *)
RequestsReturn ==
  \A x \in {"exec", "query"} :
    th[x].pc # "idle" ~> th[x].pc = "idle" \/ panicked # nil \/ DeadEnd(x) \/ OutOfLaunches(x)
=============================================================================
