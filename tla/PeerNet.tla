------------------------------ MODULE PeerNet ------------------------------
(***************************************************************************)
(* The streams between peers and the handlers registered for them          *)
(* (core/peer/peer.go, core/peer/handler.go, consensus/helper/handler.go). *)
(* A goroutine of chatWithPeer dials another peer for ever; a stream has a *)
(* handler at both sides, a state machine that an exchange of HELLO takes  *)
(* from "created" to "established", and a registration under the id of the *)
(* peer at the other side, of which a peer keeps one.  A transaction is    *)
(* sent over a stream of its own, whose initiating side is a client.       *)
(***************************************************************************)
EXTENDS Integers, Sequences, FiniteSets

CONSTANTS
  PeerIds, Validators,
  Nets,            \* the situations examined: who dials whom at startup, and the bounds
                   \* on streams, failures, discovery ticks and transactions
  MaxChats,        \* bound: goroutines of one peer that wait to dial the same peer
  NoPeer

VARIABLES
  net,             \* the situation, and what is left of its bounds
  streams,         \* the streams opened, in order
  handlerMap,      \* handlerMap[p][q]: the stream registered at p for q, or 0
  chats,           \* chats[p][q]: goroutines of p about to dial q
  consented,       \* consented[p]: transactions given to the consenter, not yet broadcast
  anonymous        \* consensus messages taken from a sender not known yet

netVars == <<net, streams, handlerMap, chats, consented, anonymous>>

Sides == {"from", "to"}
Far(side) == IF side = "from" THEN "to" ELSE "from"
PeerAt(i, side) == streams[i][side]
M(type) == [type |-> type, peers |-> {}]

PNInit ==
  /\ net \in Nets
  /\ streams = <<>> /\ anonymous = 0
  /\ handlerMap = [p \in PeerIds |-> [q \in PeerIds |-> 0]]
  /\ chats = [p \in PeerIds |-> [q \in PeerIds |-> IF net.rootnode[p] = q THEN 1 ELSE 0]]
  /\ consented = [p \in PeerIds |-> 0]

(* A stream from p to q, its client or handler at p having sent msgs.      *)
OpenStream(p, q, fsm, msgs) ==
  /\ net.streams > 0
  /\ net' = [net EXCEPT !.streams = @ - 1, !.txs = IF fsm = "client" THEN @ - 1 ELSE @]
  /\ streams' = Append(streams, [from |-> p, to |-> q, open |-> TRUE, response |-> "none",
                                 fsm |-> [side \in Sides |-> IF side = "from" THEN fsm ELSE "created"],
                                 known |-> [side \in Sides |-> FALSE],
                                 queue |-> [side \in Sides |-> IF side = "to" THEN msgs ELSE <<>>]])

SendOn(s, side, msgs) == IF s.open THEN [s EXCEPT !.queue[side] = @ \o msgs] ELSE s

(* chatWithPeer up to handleChat.                                          *)
ChatWithPeer(p, q) ==
  /\ chats[p][q] > 0
  /\ OpenStream(p, q, "created", <<M("HELLO")>>)
  /\ chats' = [chats EXCEPT ![p][q] = @ - 1]
  /\ UNCHANGED <<handlerMap, consented, anonymous>>

(* A peer that is no validator says HELLO first, a validator calls itself. *)
SendTransactionsToPeer(p, q) ==
  /\ p \notin Validators /\ q = net.rootnode[p] /\ net.txs > 0
  /\ OpenStream(p, q, "client", <<M("HELLO")>>)
  /\ UNCHANGED <<handlerMap, chats, consented, anonymous>>

sendTransactionsToThisPeer(p) ==
  /\ p \in Validators /\ net.txs > 0
  /\ OpenStream(p, p, "client", <<M("TX"), M("EOF")>>)
  /\ UNCHANGED <<handlerMap, chats, consented, anonymous>>

Received(i, side, type) ==
  /\ streams[i].open /\ streams[i].queue[side] # <<>> /\ Head(streams[i].queue[side]).type = type
Taken(i, side) == [streams[i] EXCEPT !.queue[side] = Tail(@)]
Becomes(i, s) == streams' = [streams EXCEPT ![i] = s]

(* The goroutine that waits for the answer to a transaction: HELLO makes   *)
(* it send the transaction and close its side; the end of the stream makes *)
(* it return.                                                              *)
ClientReceives(i) ==
  /\ streams[i].fsm["from"] = "client"
  /\ \/ Received(i, "from", "HELLO") /\ Becomes(i, SendOn(Taken(i, "from"), "to", <<M("TX"), M("EOF")>>))
     \/ Received(i, "from", "RESPONSE") /\ Becomes(i, [Taken(i, "from") EXCEPT !.response = "success"])
     \/ \E type \in {"GET_PEERS", "CONSENSUS"} : Received(i, "from", type) /\ Becomes(i, Taken(i, "from"))
  /\ UNCHANGED <<net, handlerMap, chats, consented, anonymous>>

(* RegisterHandler: a second handler for the same peer is refused.         *)
RegisterHandler(map, p, q) == map[p][q] = 0

(* beforeHello: the answer is sent before the handler is registered.       *)
BeforeHello(i, side) ==
  LET p == PeerAt(i, side)  q == PeerAt(i, Far(side))
      reply == IF side = "from" THEN <<>> ELSE <<M("HELLO")>>
      s == [SendOn(Taken(i, side), Far(side), reply) EXCEPT !.known[side] = TRUE]
  IN /\ Received(i, side, "HELLO") /\ streams[i].fsm[side] # "client"
     /\ IF streams[i].fsm[side] # "created" THEN Becomes(i, Taken(i, side)) /\ UNCHANGED handlerMap
        ELSE IF RegisterHandler(handlerMap, p, q)
        THEN /\ Becomes(i, [s EXCEPT !.fsm[side] = "established"])
             /\ handlerMap' = [handlerMap EXCEPT ![p][q] = i]
        ELSE Becomes(i, s) /\ UNCHANGED handlerMap
     /\ UNCHANGED <<net, chats, consented, anonymous>>

(* start: the discovery tick of a registered handler.                      *)
DiscoveryTick(i, side) ==
  /\ streams[i].fsm[side] = "established" /\ streams[i].open /\ net.ticks > 0
  /\ net' = [net EXCEPT !.ticks = @ - 1]
  /\ Becomes(i, SendOn(streams[i], Far(side), <<M("GET_PEERS")>>))
  /\ UNCHANGED <<handlerMap, chats, consented, anonymous>>

(* beforeGetPeers and GetPeers; refused by a handler not established.      *)
BeforeGetPeers(i, side) ==
  LET p == PeerAt(i, side)
      peers == {q \in PeerIds : handlerMap[p][q] # 0}
  IN /\ Received(i, side, "GET_PEERS") /\ streams[i].fsm[side] # "client"
     /\ Becomes(i, IF streams[i].fsm[side] = "established"
                     THEN SendOn(Taken(i, side), Far(side), <<[type |-> "PEERS", peers |-> peers]>>)
                     ELSE Taken(i, side))
     /\ UNCHANGED <<net, handlerMap, chats, consented, anonymous>>

(* beforePeers and PeersDiscovered: a goroutine for every peer that has no *)
(* handler, whether or not one is dialling it already.                     *)
BeforePeers(i, side) ==
  LET p == PeerAt(i, side)
      new == {q \in Head(streams[i].queue[side]).peers \ {p} : handlerMap[p][q] = 0}
  IN /\ Received(i, side, "PEERS")
     /\ Becomes(i, Taken(i, side))
     /\ chats' = IF streams[i].fsm[side] # "established" THEN chats
                 ELSE [chats EXCEPT ![p] = [q \in PeerIds |-> IF q \in new /\ @[q] < MaxChats THEN @[q] + 1 ELSE @[q]]]
     /\ UNCHANGED <<net, handlerMap, consented, anonymous>>

(* ConsensusHandler.HandleMessage of a transaction: answered first, then   *)
(* given to the consenter, by a handler in any state.                      *)
doChainTransaction(i) ==
  /\ Received(i, "to", "TX")
  /\ Becomes(i, SendOn(Taken(i, "to"), "from", <<M("RESPONSE")>>))
  /\ consented' = [consented EXCEPT ![PeerAt(i, "to")] = @ + 1]
  /\ UNCHANGED <<net, handlerMap, chats, anonymous>>

(* Broadcast to the registered handlers of validators.                     *)
cloneHandlerMap(p) == {handlerMap[p][q] : q \in Validators} \ {0}
Broadcast(p) ==
  LET reached(i) == {side \in Sides : PeerAt(i, Far(side)) = p}
  IN /\ consented[p] > 0
     /\ consented' = [consented EXCEPT ![p] = @ - 1]
     /\ streams' = [i \in DOMAIN streams |->
                      IF i \in cloneHandlerMap(p)
                        THEN SendOn(streams[i], CHOOSE side \in reached(i) : TRUE, <<M("CONSENSUS")>>)
                        ELSE streams[i]]
     /\ UNCHANGED <<net, handlerMap, chats, anonymous>>

(* ConsensusHandler.HandleMessage of a consensus message, in any state.    *)
RecvConsensus(i, side) ==
  /\ Received(i, side, "CONSENSUS") /\ streams[i].fsm[side] # "client"
  /\ Becomes(i, Taken(i, side))
  /\ anonymous' = IF streams[i].known[side] THEN anonymous ELSE anonymous + 1
  /\ UNCHANGED <<net, handlerMap, chats, consented>>

(* The stream ends: the client has closed its side, or the connection      *)
(* fails.                                                                  *)
StreamEnds0(i) ==
  /\ streams[i].open
  /\ \/ Received(i, "to", "EOF") /\ streams[i].queue["from"] = <<>> /\ UNCHANGED net
     \/ net.fails > 0 /\ net' = [net EXCEPT !.fails = @ - 1]
  /\ Becomes(i, [streams[i] EXCEPT !.open = FALSE, !.queue = [side \in Sides |-> <<>>]])
  /\ UNCHANGED <<handlerMap, chats, consented, anonymous>>

(* Deregisters the peer although the handler was refused as a duplicate.   *)
StopAny(i, side) ==
  LET p == PeerAt(i, side)  q == PeerAt(i, Far(side))
      s == streams[i]
  IN /\ ~s.open /\ s.fsm[side] # "stopped"
     /\ Becomes(i, [s EXCEPT !.fsm[side] = "stopped",
                             !.response = IF s.fsm[side] = "client" /\ @ = "none" THEN "failure" ELSE @])
     /\ handlerMap' = IF s.known[side] THEN [handlerMap EXCEPT ![p][q] = 0] ELSE handlerMap
     /\ chats' = IF side = "from" /\ s.fsm[side] # "client" THEN [chats EXCEPT ![p][q] = @ + 1] ELSE chats
     /\ UNCHANGED <<net, consented, anonymous>>

(* handleChat returns: Stop, deregister, DeregisterHandler, and the        *)
(* goroutine of chatWithPeer dials again; or the client returns.           *)
Stop(i, side) ==
  LET p == PeerAt(i, side)  q == PeerAt(i, Far(side))
      s == streams[i]
  IN /\ ~s.open /\ s.fsm[side] # "stopped"
     /\ Becomes(i, [s EXCEPT !.fsm[side] = "stopped",
                             !.response = IF s.fsm[side] = "client" /\ @ = "none" THEN "failure" ELSE @])
     /\ handlerMap' = IF s.fsm[side] = "established" THEN [handlerMap EXCEPT ![p][q] = 0] ELSE handlerMap
     /\ chats' = IF side = "from" /\ s.fsm[side] # "client" THEN [chats EXCEPT ![p][q] = @ + 1] ELSE chats
     /\ UNCHANGED <<net, consented, anonymous>>

StreamStep(i) ==
  \/ ClientReceives(i) \/ doChainTransaction(i)
  \/ \E side \in Sides : BeforeHello(i, side) \/ BeforeGetPeers(i, side) \/ BeforePeers(i, side)
                         \/ RecvConsensus(i, side) \/ Stop(i, side)
Closing(i) == StreamEnds0(i) /\ net' = net

PNNext ==
  \/ \E p, q \in PeerIds : ChatWithPeer(p, q) \/ SendTransactionsToPeer(p, q)
  \/ \E p \in PeerIds : sendTransactionsToThisPeer(p) \/ Broadcast(p)
  \/ \E i \in DOMAIN streams : \/ StreamStep(i) \/ StreamEnds0(i)
                               \/ \E side \in Sides : DiscoveryTick(i, side)

(* Each handler's goroutine goes on while its stream has messages.         *)
MaxStreams == 4
PNFairness ==
  \A i \in 1 .. MaxStreams : /\ WF_netVars(i \in DOMAIN streams /\ StreamStep(i))
                            /\ WF_netVars(i \in DOMAIN streams /\ Closing(i))

PNSpec == PNInit /\ [][PNNext]_netVars /\ PNFairness

-----------------------------------------------------------------------------
(* Types.                                                                  *)
PNTypeOK ==
  /\ handlerMap \in [PeerIds -> [PeerIds -> 0 .. Len(streams)]]
  /\ chats \in [PeerIds -> [PeerIds -> 0 .. MaxChats + MaxStreams]]
  /\ \A i \in DOMAIN streams : streams[i].fsm \in [Sides -> {"client", "created", "established", "stopped"}]

(* The map names exactly the established handlers, one per peer: a handler *)
(* refused as a duplicate never removes the one in the map when its stream *)
(* ends (RegisterHandler, DeregisterHandler, Handler.registered).          *)
MapIsEstablished ==
  \A p, q \in PeerIds :
    LET mine == {i \in DOMAIN streams : \E side \in Sides : /\ PeerAt(i, side) = p /\ PeerAt(i, Far(side)) = q
                                                             /\ streams[i].fsm[side] = "established"}
    IN mine = {handlerMap[p][q]} \ {0}

(* The consenter is never handed a message whose sender it cannot name:    *)
(* beforeHello answers before it registers, and only a registered handler  *)
(* is broadcast to, so that HELLO overtakes every consensus message, even  *)
(* on a handler that was refused as a duplicate.                           *)
SenderKnown == anonymous = 0

(* A transaction sent to a validator comes back with a response, although  *)
(* neither client has a timeout.                                           *)
TransactionReturns ==
  \A i \in 1 .. MaxStreams :
    (i \in DOMAIN streams /\ streams[i].fsm["from"] = "client") ~> (i \in DOMAIN streams /\ streams[i].response # "none" /\ ~streams[i].open)
=============================================================================
